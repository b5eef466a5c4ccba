------------------------- MODULE AnalysisRunner -------------------------
(* One wallet analysis job worked on in batches by HTTP requests (run-step,    *)
(* run-once) and by the command-line runner, which may overlap                 *)
(* (services/wallet_analysis_runner.py).                                       *)
(*                                                                             *)
(* A runner loads the job's row into its session, writes a lock with a time    *)
(* into the row and commits it, reads the row again and processes one batch:   *)
(* it discovers the market's wallets or takes the list stored in the row,      *)
(* analyses the next few, advances the cursor, ends the job when the list is   *)
(* done, takes the lock away, and its caller commits.  The session writes only *)
(* the columns that it changed, each with the value it holds; the first write  *)
(* of a batch takes the row's lock in the database until the commit.           *)
(*                                                                             *)
(* The lock, the list, the cursor and the limits share one JSON column, so     *)
(* whoever writes one of them writes them all.  Prices, scores, warnings,      *)
(* times, texts, the batch counter and the market signal that the end of a job *)
(* appends are left out.                                                       *)
EXTENDS Naturals, Sequences, FiniteSets, TLC

CONSTANTS
  Runner,     \* sessions that may work at the same time ...
  Loop,       \* ... those of the command, which go on to the next batch
  Wallet,     \* what is listed: an address with a token, which the API calls by one outcome
  Rankings,   \* what discovery may find: the market's wallets, best first
  Seasoned,   \* wallets with enough resolved positions
  BatchSize,
  Maxima,     \* values a caller passes as max_wallets ...
  Limits      \* ... and as max_wallets_discovery

ASSUME RunnerAssumption ==
  /\ Loop \subseteq Runner
  /\ Rankings \subseteq Seq(Wallet)
  /\ \A s \in Rankings : \A i, j \in 1..Len(s) : s[i] = s[j] => i = j
  /\ Seasoned \subseteq Wallet
  /\ BatchSize \in Nat \ {0}
  /\ Maxima \subseteq Nat \ {0} /\ Limits \subseteq Nat \ {0}

VARIABLES
  row,         \* the job's committed row
  candidates,  \* wallets with a committed candidate of the job
  session      \* what each runner holds
vars == <<row, candidates, session>>

Least(a, b) == IF a <= b THEN a ELSE b
Top(s, n) == SubSeq(s, 1, Least(n, Len(s)))
Members(s) == {s[i] : i \in 1..Len(s)}

Statuses == {"pending", "discovering_wallets", "analyzing_wallets", "partial", "completed", "failed"}

NoState == [listed |-> <<>>, target |-> 0, next |-> 0, limit |-> 0, more |-> FALSE, lock |-> "none"]

NewJob(resolved) ==
  [status |-> "pending", resolved |-> resolved, found |-> 0, analyzed |-> 0, enough |-> 0,
   result |-> NoState]

Idle ==
  [at |-> "idle", max |-> 0, limit |-> 0,
   job |-> NewJob(FALSE), dirty |-> {}, adds |-> {}]

Init ==
  /\ \E resolved \in BOOLEAN : row = NewJob(resolved)
  /\ candidates = {}
  /\ session = [r \in Runner |-> Idle]

-----------------------------------------------------------------------------
\* The columns a session changed, over the row as it is committed now.
Written(s) == [c \in DOMAIN row |-> IF c \in s.dirty THEN s.job[c] ELSE row[c]]

\* The session s after it has flushed the job as it is in new.
Flushed(s, new) ==
  [s EXCEPT !.job = new, !.dirty = @ \cup {c \in DOMAIN new : new[c] # s.job[c]}]

HoldsRow(r) == session[r].dirty # {}
RowFree(r) == \A q \in Runner \ {r} : ~HoldsRow(q)

Goto(r, s, at) == session' = [session EXCEPT ![r] = [s EXCEPT !.at = at]]

Unlocked(job) == [job EXCEPT !.result.lock = "none"]

-----------------------------------------------------------------------------
\* A caller starts a runner; a finished job and a live lock send it away.
Start(r, max, limit) ==
  /\ session[r].at = "idle"
  /\ row.status # "completed" /\ row.result.lock # "held"
  /\ session' = [session EXCEPT ![r] =
       [Idle EXCEPT !.at = "acquire", !.max = max, !.limit = limit, !.job = row]]
  /\ UNCHANGED <<row, candidates>>

\* The lock goes into the column as the session read it, and is committed, with what an
\* earlier batch of the session left to commit.  The commit expires what the session holds.
Acquire(r) ==
  /\ session[r].at = "acquire" /\ RowFree(r)
  /\ LET s == Flushed(session[r], [session[r].job EXCEPT !.result.lock = "held"])
         t == [s EXCEPT !.dirty = @ \cup {"result"}]
     IN /\ row' = Written(t)
        /\ candidates' = candidates \cup t.adds
        /\ Goto(r, [t EXCEPT !.job = Idle.job, !.dirty = {}, !.adds = {}], "refresh")

Refresh(r) ==
  /\ session[r].at = "refresh"
  /\ Goto(r, [session[r] EXCEPT !.job = row], "locked")
  /\ UNCHANGED <<row, candidates>>

\* A job whose link gave no condition id fails, and its state is thrown away.
FailUnresolved(r) ==
  LET s == session[r] IN
  /\ s.at = "locked" /\ RowFree(r) /\ ~s.job.resolved
  /\ Goto(r, Flushed(s, [s.job EXCEPT !.status = "failed", !.result = NoState]), "commit")
  /\ UNCHANGED <<row, candidates>>

ShouldRediscover(s) ==
  \/ s.job.result.listed = <<>>
  \/ s.limit > s.job.result.limit /\ s.job.result.more

Listing(s, status, result) ==
  Flushed(s, [s.job EXCEPT !.status = status, !.found = Len(result.listed),
     !.result = [result EXCEPT !.target = Least(Len(result.listed), s.max)]])

\* Discovery finds a ranking, cut at the limit: beyond it there is more, and there may be
\* more where the sources were cut off themselves.  With both sources down it finds nothing.
Discover(r) ==
  LET s == session[r] IN
  /\ s.at = "locked" /\ RowFree(r) /\ s.job.resolved /\ ShouldRediscover(s)
  /\ \E ranking \in Rankings \cup {<<>>}, more \in BOOLEAN :
       /\ Len(ranking) > s.limit => more
       /\ ranking = <<>> => ~more
       /\ Goto(r, Listing(s, "discovering_wallets",
                 [s.job.result EXCEPT !.listed = Top(ranking, s.limit), !.more = more,
                    !.limit = s.limit, !.next = s.job.analyzed]), "analyze")
  /\ UNCHANGED <<row, candidates>>

Reuse(r) ==
  LET s == session[r]
      t == Listing(s, s.job.status, s.job.result)
  IN /\ s.at = "locked" /\ RowFree(r) /\ s.job.resolved /\ ~ShouldRediscover(s)
     /\ Goto(r, [t EXCEPT !.dirty = @ \cup {"result"}], "analyze")
     /\ UNCHANGED <<row, candidates>>

-----------------------------------------------------------------------------
\* The wallets of the next batch: positions in the list.
Cursor(s) == Least(s.job.result.next, s.job.result.target)
Batch(s) == (Cursor(s) + 1)..Least(Cursor(s) + BatchSize, s.job.result.target)
WalletsOf(s, positions) == {s.job.result.listed[i] : i \in positions}

\* A partial job whose target is reached has nothing to expand to.
NothingToExpand(r) ==
  LET s == session[r] IN
  /\ s.at = "analyze" /\ Batch(s) = {} /\ s.job.result.listed # <<>> /\ s.job.status = "partial"
  /\ Goto(r, Flushed(s, Unlocked(s.job)), "commit")
  /\ UNCHANGED <<row, candidates>>

NothingToAnalyze(r) ==
  LET s == session[r] IN
  /\ s.at = "analyze" /\ Batch(s) = {}
  /\ s.job.result.listed = <<>> \/ s.job.status # "partial"
  /\ Goto(r, s, "finalize")
  /\ UNCHANGED <<row, candidates>>

\* Mutants: the batch is added to the count; the cursor stays.
AdvancedBySize(s) ==
  LET reached == Least(s.job.result.target, Cursor(s) + Cardinality(Batch(s)))
  IN [s.job EXCEPT !.status = "analyzing_wallets", !.analyzed = @ + Cardinality(Batch(s)),
        !.enough = @ + Cardinality(WalletsOf(s, Batch(s)) \cap Seasoned),
        !.result.next = reached]
AdvancedCountOnly(s) ==
  LET reached == Least(s.job.result.target, Cursor(s) + Cardinality(Batch(s)))
  IN [s.job EXCEPT !.status = "analyzing_wallets", !.analyzed = reached]

Advanced(s) ==
  LET reached == Least(s.job.result.target, Cursor(s) + Cardinality(Batch(s)))
  IN [s.job EXCEPT !.status = "analyzing_wallets", !.analyzed = reached,
        !.enough = @ + Cardinality(WalletsOf(s, Batch(s)) \cap Seasoned),
        !.result.next = reached]

\* One batch: a candidate for each wallet, then the counts and the cursor.
AnalyzeBatch(r) ==
  LET s == session[r]
      t == [Flushed(s, Advanced(s)) EXCEPT !.adds = @ \cup WalletsOf(s, Batch(s))]
  IN /\ s.at = "analyze" /\ Batch(s) # {}
     /\ IF t.job.result.next < t.job.result.target
        THEN Goto(r, Flushed(t, Unlocked(t.job)), IF r \in Loop THEN "acquire" ELSE "commit")
        ELSE Goto(r, t, "finalize")
     /\ UNCHANGED <<row, candidates>>

FinalStatus(job) ==
  IF job.result.more \/ job.analyzed < Len(job.result.listed) THEN "partial" ELSE "completed"

Finalized(job) ==
  LET target == IF job.result.target = 0 THEN job.analyzed ELSE job.result.target
  IN [Unlocked(job) EXCEPT !.status = FinalStatus(job), !.result.next = job.analyzed,
        !.result.target = Least(Len(job.result.listed), target)]

\* The status is written twice on the way ("scoring" first), so it is always among the
\* written columns.
Finalize(r) ==
  LET s == session[r]
      t == Flushed(s, Finalized(s.job))
  IN /\ s.at = "finalize"
     /\ Goto(r, [t EXCEPT !.dirty = @ \cup {"status"}], "commit")
     /\ UNCHANGED <<row, candidates>>

\* Mutants: the cursor is ahead of the batch; the count is.
FailedAhead(s) ==
  LET t == Flushed(s, [Unlocked(s.job) EXCEPT !.status = "failed",
                         !.result.next = Least(s.job.result.target, Cursor(s) + BatchSize)])
  IN [t EXCEPT !.dirty = @ \cup {"status"}]
FailedCounting(s) ==
  LET t == Flushed(s, [Unlocked(s.job) EXCEPT !.status = "failed",
                         !.enough = @ + Cardinality(WalletsOf(s, Batch(s)) \cap Seasoned)])
  IN [t EXCEPT !.dirty = @ \cup {"status"}]

\* An exception in the batch: the job fails, unlocked, with what the batch did so far.
Failed(s) ==
  LET t == Flushed(s, [Unlocked(s.job) EXCEPT !.status = "failed"])
  IN [t EXCEPT !.dirty = @ \cup {"status"}]

FailDiscovery(r) ==
  LET s == session[r] IN
  /\ s.at = "locked" /\ RowFree(r) /\ s.job.resolved /\ ShouldRediscover(s)
  /\ Goto(r, Failed(s), "commit")
  /\ UNCHANGED <<row, candidates>>

FailAnalysis(r) ==
  LET s == session[r] IN
  /\ s.at = "analyze" /\ Batch(s) # {}
  /\ \E done \in Batch(s) :
       Goto(r, Failed([s EXCEPT !.adds = @ \cup WalletsOf(s, {i \in Batch(s) : i < done})]), "commit")
  /\ UNCHANGED <<row, candidates>>

FailFinalize(r) ==
  LET s == session[r] IN
  /\ s.at = "finalize"
  /\ \E reached \in {s.job, Finalized(s.job)} : Goto(r, Failed(Flushed(s, reached)), "commit")
  /\ UNCHANGED <<row, candidates>>

Commit(r) ==
  /\ session[r].at = "commit"
  /\ row' = Written(session[r])
  /\ candidates' = candidates \cup session[r].adds
  /\ session' = [session EXCEPT ![r] = Idle]

-----------------------------------------------------------------------------
\* The process dies, or the database refuses a statement: the session is rolled back and
\* a lock that was committed stays.
Crash(r) ==
  /\ session[r].at # "idle"
  /\ session' = [session EXCEPT ![r] = Idle]
  /\ UNCHANGED <<row, candidates>>

\* RUNNER_LOCK_TTL_SECONDS pass.
Expire ==
  /\ row.result.lock = "held"
  /\ row' = [row EXCEPT !.result.lock = "expired"]
  /\ UNCHANGED <<candidates, session>>

Fail(r) == FailDiscovery(r) \/ FailAnalysis(r) \/ FailFinalize(r)

Step(r) ==
  \/ Acquire(r) \/ Refresh(r)
  \/ FailUnresolved(r) \/ Discover(r) \/ Reuse(r)
  \/ NothingToExpand(r) \/ NothingToAnalyze(r) \/ AnalyzeBatch(r)
  \/ Finalize(r) \/ Commit(r)

Next ==
  \/ \E r \in Runner :
       \/ \E max \in Maxima, limit \in Limits : Start(r, max, limit)
       \/ Step(r) \/ Fail(r) \/ Crash(r)
  \/ Expire

Spec == Init /\ [][Next]_vars

\* A runner that has begun goes on; one that waits for the row gets its turn.
FairSpec == Spec /\ \A r \in Runner : SF_vars(Step(r))

-----------------------------------------------------------------------------
ResultType ==
  [listed : Seq(Wallet), target : Nat, next : Nat, limit : Nat, more : BOOLEAN,
   lock : {"none", "held", "expired"}]
JobType ==
  [status : Statuses, resolved : BOOLEAN, found : Nat, analyzed : Nat, enough : Nat,
   result : ResultType]
SessionType ==
  [at : {"idle", "acquire", "refresh", "locked", "analyze", "finalize", "commit"},
   max : Nat, limit : Nat, job : JobType,
   dirty : SUBSET {"status", "resolved", "found", "analyzed", "enough", "result"},
   adds : SUBSET Wallet]

TypeOK ==
  /\ row \in JobType
  /\ candidates \subseteq Wallet
  /\ session \in [Runner -> SessionType]

\* As long as discovery does not rank the wallets anew, every listed wallet before the cursor
\* has its candidate: no runner that dies, fails or is overtaken makes the job skip one.
CursorBehindCandidates ==
  Members(Top(row.result.listed, row.result.next)) \subseteq candidates

\* wallets_analyzed is real under the same condition: so many wallets have a candidate.
AnalyzedBacked == row.analyzed <= Cardinality(candidates)

\* What docs/wallet-analysis-jobs.md says of the two ends: a job that has not analysed all
\* it discovered is partial, so a completed one has.
CompletedCoversAll ==
  row.status = "completed" => Members(row.result.listed) \subseteq candidates

\* wallets_with_sufficient_history counts some of the analysed wallets, each batch once,
\* though batches fail half way and are repeated.
EnoughWithinAnalyzed == row.enough <= row.analyzed

\* A run ends, the command's loop over batches included.
RunsEnd == \A r \in Runner : session[r].at # "idle" ~> session[r].at = "idle"
=============================================================================
