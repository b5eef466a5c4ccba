---------------------------- MODULE Records_proofs ----------------------------
(***************************************************************************)
(* Proofs about the records that are kept and published: the registry of   *)
(* highlighted wallets, the saved profiles, the daily run, the backlog     *)
(* pushed to Linear and the briefs of the markets, for any number of those *)
(* who write them.                                                         *)
(***************************************************************************)
EXTENDS HighlightedRegistry, WalletProfiles, DailyRun, LinearSync, MarketBriefs,
        SequenceTheorems, FiniteSetTheorems, WellFoundedInduction, TLAPS

-------------------------------------------------------------------------------
(* The highlighted profiles.                                               *)

\* What is being posted will be marked; what is stored may be any mixture of posts.
RegistryInv ==
  /\ RegistryTypeOK
  /\ \A p \in Poster : posting[p] # None =>
       /\ MarkedRow(posting[p].row)
       /\ posting[p].read # None => highlighted[posting[p].wallet] # None

LEMMA WinRateIsNumber == ASSUME NEW raw \in Numbers PROVE WinRate(raw) \in Numbers
BY SMTT(30) DEF WinRate, Numbers

\* The numbers of an upsert that qualifies meet the rule with whatever is stored.
LEMMA QualifyingRow ==
  ASSUME NEW payload \in Payloads, NEW old \in ProfileRow, Qualifies(payload)
  PROVE  /\ AtLeast(WinRate(payload.win), MinWinRate)
         /\ payload.win # None
         /\ AtLeast(Stored(old.closed, payload.closed), MinClosed)
         /\ \/ Stored(old.pnl, payload.pnl) # None
            \/ payload.capital # None /\ AtLeast(Larger(old.capital, payload.capital), MinCapital)
<1>1. payload.win \in Numbers /\ payload.capital \in Numbers
  BY RegistryConstantsOK DEF Numbers
<1>2. /\ AtLeast(WinRate(payload.win), MinWinRate) /\ payload.win # None
      /\ AtLeast(Stored(old.closed, payload.closed), MinClosed)
  <2>1. AtLeast(WinRate(payload.win), MinWinRate) /\ AtLeast(payload.closed, MinClosed)
    BY DEF Qualifies, MeetsRule
  <2>2. WinRate(None) = None
    BY DEF WinRate
  <2>3. payload.win # None /\ payload.closed # None
    BY <2>1, <2>2 DEF AtLeast
  <2>4. QED BY <2>1, <2>3 DEF Stored
<1>3. CASE payload.pnl # None
  BY <1>2, <1>3 DEF Stored
<1>4. CASE AtLeast(payload.capital, MinCapital)
  BY <1>1, <1>2, <1>4 DEF AtLeast, Larger, MinCapital, ProfileRow, Numbers
<1>5. QED BY <1>3, <1>4 DEF Qualifies, MeetsRule

LEMMA UpsertedRow ==
  ASSUME NEW read \in ProfileRow \cup {None}, NEW payload \in Payloads,
         read # None \/ Qualifies(payload)
  PROVE  Upserted(read, payload) \in ProfileRow /\ MarkedRow(Upserted(read, payload))
<1> DEFINE old == IF read = None THEN Blank ELSE read
           new == Upserted(read, payload)
<1>1. old \in ProfileRow
  BY DEF Blank, ProfileRow, Numbers
<1>2. /\ payload.win \in Numbers /\ payload.closed \in Numbers /\ payload.pnl \in Numbers
      /\ payload.capital \in Numbers /\ payload.gone \in BOOLEAN
  BY RegistryConstantsOK DEF Numbers
<1>3. WinRate(payload.win) \in Numbers
  BY <1>2, WinRateIsNumber
<1>4. /\ new.win = IF payload.win = None THEN old.win ELSE WinRate(payload.win)
      /\ new.closed = Stored(old.closed, payload.closed)
      /\ new.pnl = Stored(old.pnl, payload.pnl)
      /\ new.capital = IF payload.capital = None THEN old.capital
                       ELSE Larger(old.capital, payload.capital)
      /\ new.qualifies = Qualifies(payload)
      /\ new.gone = Marked(read, payload)
  BY DEF Upserted
<1>5. Qualifies(payload) \in BOOLEAN /\ Marked(read, payload) \in BOOLEAN
  BY <1>2 DEF Qualifies, MeetsRule, AtLeast, Marked
<1>6. new \in ProfileRow
  BY <1>1, <1>2, <1>3, <1>5 DEF Upserted, ProfileRow, Stored, Larger
<1> SUFFICES MarkedRow(new)
  BY <1>6
<1> HIDE DEF new
<1>7. CASE Qualifies(payload)
  BY <1>1, <1>4, <1>7, QualifyingRow DEF MarkedRow, MeetsRule
<1>8. CASE ~Qualifies(payload)
  BY <1>4, <1>8 DEF MarkedRow, Marked
<1>9. QED BY <1>7, <1>8

\* A request that read the row as it is writes the row it has computed; over another
\* row it writes some of its columns.
LEMMA WrittenRow ==
  ASSUME NEW row \in ProfileRow, NEW read \in ProfileRow, NEW new \in ProfileRow
  PROVE  Written(row, read, new) \in ProfileRow /\ Written(read, read, new) = new
BY DEF Written, ProfileRow

LEMMA RegistryInitial == RegistryInit => RegistryInv
BY DEF RegistryInit, RegistryInv, RegistryTypeOK

\* What a commit leaves: rows, none less than before, and over the row it has read its own.
LEMMA Committed ==
  ASSUME RegistryInv, NEW p \in Poster, CommitUpsert(p)
  PROVE  LET w == posting[p].wallet IN
         /\ highlighted' \in [Address -> ProfileRow \cup {None}]
         /\ highlighted[w] = posting[p].read => highlighted'[w] = posting[p].row
         /\ \A x \in Address : highlighted[x] # None => highlighted'[x] # None
<1> DEFINE q == posting[p]
           w == q.wallet
<1>1. q \in [wallet : Address, read : ProfileRow \cup {None}, row : ProfileRow]
  BY DEF CommitUpsert, RegistryInv, RegistryTypeOK
<1>2. w \in Address /\ q.read \in ProfileRow \cup {None} /\ q.row \in ProfileRow
  BY <1>1
<1>3. highlighted \in [Address -> ProfileRow \cup {None}]
  BY DEF RegistryInv, RegistryTypeOK
<1> HIDE DEF q, w
<1>4. CASE q.read # None /\ highlighted[w] # None
  <2>1. highlighted' = [highlighted EXCEPT ![w] = Written(highlighted[w], q.read, q.row)]
    BY <1>4 DEF CommitUpsert, q, w
  <2>2. /\ Written(highlighted[w], q.read, q.row) \in ProfileRow
        /\ Written(q.read, q.read, q.row) = q.row
    BY <1>2, <1>3, <1>4, WrittenRow
  <2>3. QED BY <1>2, <1>3, <2>1, <2>2, RegistryConstantsOK DEF q, w
<1>5. CASE q.read = None /\ highlighted[w] = None
  <2>1. highlighted' = [highlighted EXCEPT ![w] = q.row]
    BY <1>5 DEF CommitUpsert, q, w
  <2>2. QED BY <1>2, <1>3, <2>1, RegistryConstantsOK DEF q, w
<1>6. CASE q.read = None /\ highlighted[w] # None
  <2>1. highlighted' = highlighted
    BY <1>6 DEF CommitUpsert, q, w
  <2>2. QED BY <1>3, <1>6, <2>1 DEF q, w
<1>7. ~(q.read # None /\ highlighted[w] = None)
  BY DEF CommitUpsert, RegistryInv, q, w
<1>8. QED BY <1>4, <1>5, <1>6, <1>7

LEMMA RegistryStep == RegistryInv /\ [RegistryNext]_registryVars => RegistryInv'
<1> SUFFICES ASSUME RegistryInv, [RegistryNext]_registryVars PROVE RegistryInv'
  OBVIOUS
<1>1. CASE UNCHANGED registryVars
  BY <1>1 DEF registryVars, RegistryInv, RegistryTypeOK
<1>2. ASSUME NEW p \in Poster, NEW w \in Address, NEW payload \in Payloads,
             BeginUpsert(p, w, payload)
      PROVE  RegistryInv'
  <2>1. highlighted[w] \in ProfileRow \cup {None}
    BY DEF RegistryInv, RegistryTypeOK
  <2>2. Upserted(highlighted[w], payload) \in ProfileRow /\ MarkedRow(Upserted(highlighted[w], payload))
    BY <1>2, <2>1, UpsertedRow DEF BeginUpsert
  <2>3. QED BY <1>2, <2>1, <2>2 DEF BeginUpsert, RegistryInv, RegistryTypeOK
<1>3. ASSUME NEW p \in Poster, CommitUpsert(p)
      PROVE  RegistryInv'
  <2>1. /\ highlighted' \in [Address -> ProfileRow \cup {None}]
        /\ \A x \in Address : highlighted[x] # None => highlighted'[x] # None
    BY <1>3, Committed
  <2>2. posting' = [posting EXCEPT ![p] = None]
    BY <1>3 DEF CommitUpsert
  <2>3. QED BY <2>1, <2>2 DEF RegistryInv, RegistryTypeOK
<1>4. QED BY <1>1, <1>2, <1>3 DEF RegistryNext

\* However many posts overlap on a profile, one that commits over the row it had read
\* leaves numbers and mark in step, whatever mixture it found.  (upsert_highlighted_profile)
THEOREM FallenAreMarked == RegistrySpec => UndisturbedPostsMark
<1> DEFINE Undisturbed ==
      \A p \in Poster :
        posting[p] # None /\ posting'[p] = None =>
          LET w == posting[p].wallet
          IN  highlighted[w] = posting[p].read => highlighted'[w] # None /\ MarkedRow(highlighted'[w])
<1>1. ASSUME RegistryInv, RegistryNext PROVE Undisturbed
  <2> SUFFICES ASSUME NEW p \in Poster, posting[p] # None, posting'[p] = None,
                      highlighted[posting[p].wallet] = posting[p].read
               PROVE  LET w == posting[p].wallet
                      IN  highlighted'[w] # None /\ MarkedRow(highlighted'[w])
    OBVIOUS
  <2>1. CommitUpsert(p)
    BY <1>1 DEF RegistryNext, BeginUpsert, CommitUpsert, RegistryInv, RegistryTypeOK
  <2>2. /\ highlighted'[posting[p].wallet] = posting[p].row
        /\ posting[p].row \in ProfileRow /\ MarkedRow(posting[p].row)
    BY <1>1, <2>1, Committed DEF RegistryInv, RegistryTypeOK
  <2>3. QED BY <2>2, RegistryConstantsOK
<1>2. RegistryInv /\ [RegistryNext]_registryVars => [Undisturbed]_registryVars
  BY <1>1
<1>3. QED BY <1>2, RegistryInitial, RegistryStep, PTL DEF RegistrySpec, UndisturbedPostsMark

-------------------------------------------------------------------------------
(* The profiles of wallets.                                                *)

\* A record with the columns of a profile.
IsProfile(r) == r = [status |-> r.status, score |-> r.score, from |-> r.from, notes |-> r.notes]

\* What a request writes over a profile it has read keeps the notes or is asked.
Careful(e) ==
  e.read # None => /\ IsProfile(e.read) /\ IsProfile(e.row)
                   /\ e.row.notes = e.read.notes \/ e.row.notes \in e.asked

Titles == {PrimaryMarket(markets).title : markets \in Links}
Found == [job : Nat, wallet : ProfileAddress, score : Nat]

SoundEdit(e) == e.wallet \in ProfileAddress /\ IsProfile(e.row) /\ Careful(e)

NotesInv ==
  /\ jobs \in Seq(Titles) /\ candidates \in Seq(Found)
  /\ profiles = [w \in ProfileAddress |-> profiles[w]]
  /\ \A w \in ProfileAddress : profiles[w] # None => IsProfile(profiles[w])
  /\ editing = [c \in Client |-> editing[c]]
  /\ \A c \in Client : editing[c] # None =>
       /\ SoundEdit(editing[c])
       /\ editing[c].read # None => IsProfile(profiles[editing[c].wallet])

LEMMA NotesInit == ProfileInit => NotesInv
BY EmptySeq DEF ProfileInit, NotesInv

\* What a saved row is: the notes there are, unless there are new ones.
LEMMA SavedIsCareful ==
  ASSUME NEW read, read # None => IsProfile(read), NEW fields, NEW notes
  PROVE  /\ IsProfile(Saved(read, fields, notes))
         /\ read # None => \/ Saved(read, fields, notes).notes = read.notes
                           \/ Saved(read, fields, notes).notes \in {notes} \ {None}
BY DEF Saved, IsProfile, StoredOr

\* A change of one column.
LEMMA PatchedIsProfile ==
  ASSUME NEW row, IsProfile(row), NEW value
  PROVE  /\ IsProfile([row EXCEPT !.status = value])
         /\ [row EXCEPT !.status = value].notes = row.notes
         /\ IsProfile([row EXCEPT !.notes = value])
         /\ [row EXCEPT !.notes = value].notes = value
BY DEF IsProfile

\* Beginning a request whose row is careful.
LEMMA BeginKeeps ==
  ASSUME NotesInv, NEW c \in Client, NEW w \in ProfileAddress, NEW row, NEW asked, NEW follows,
         Begins(c, w, row, asked, follows), IsProfile(row),
         profiles[w] # None => row.notes = profiles[w].notes \/ row.notes \in asked
  PROVE  NotesInv'
<1> DEFINE e == [wallet |-> w, read |-> profiles[w], row |-> row, asked |-> asked,
                 follows |-> follows, copy |-> copies[w]]
<1>1. SoundEdit(e)
  BY DEF SoundEdit, Careful, NotesInv
<1>2. editing' = [editing EXCEPT ![c] = e] /\ UNCHANGED <<jobs, candidates, profiles>>
  BY DEF Begins
<1>3. e.wallet = w /\ e.read = profiles[w]
  OBVIOUS
<1> HIDE DEF e
<1>4. QED BY <1>1, <1>2, <1>3 DEF NotesInv

\* What a commit leaves of the profile.
LEMMA WrittenIsCareful ==
  ASSUME NEW row, IsProfile(row), NEW e, Careful(e), e.read # None
  PROVE  LET new == ColumnsWritten(row, e.read, e.row) IN
         IsProfile(new) /\ (new.notes = row.notes \/ new.notes \in e.asked)
BY DEF ColumnsWritten, Careful, IsProfile

LEMMA CommitKeeps ==
  ASSUME NotesInv, NEW c \in Client, CommitEdit(c)
  PROVE  /\ NotesInv'
         /\ \A w \in ProfileAddress :
              profiles[w] # None /\ profiles'[w].notes # profiles[w].notes =>
                /\ editing[c] # None /\ editing'[c] = None /\ editing[c].wallet = w
                /\ profiles'[w].notes \in editing[c].asked
<1> DEFINE e == editing[c]
           new == IF e.read = None THEN e.row ELSE ColumnsWritten(profiles[e.wallet], e.read, e.row)
<1>1. /\ e # None /\ SoundEdit(e)
      /\ editing' = [editing EXCEPT ![c] = None] /\ editing'[c] = None
      /\ UNCHANGED <<jobs, candidates>>
  BY DEF CommitEdit, NotesInv
<1>2. CASE Refused(e)
  BY <1>1, <1>2 DEF CommitEdit, NotesInv
<1>3. CASE ~Refused(e)
  <2>1. profiles' = [profiles EXCEPT ![e.wallet] = new]
    BY <1>3 DEF CommitEdit
  <2>2. e.read = None => profiles[e.wallet] = None
    BY <1>3 DEF Refused
  <2>3. CASE e.read = None
    <3>1. new = e.row /\ IsProfile(e.row) /\ profiles[e.wallet] = None
      BY <1>1, <2>2, <2>3 DEF SoundEdit
    <3> HIDE DEF new
    <3>2. QED BY <1>1, <2>1, <3>1 DEF NotesInv, SoundEdit
  <2>4. CASE e.read # None
    <3>1. IsProfile(profiles[e.wallet]) /\ Careful(e)
      BY <1>1, <2>4 DEF NotesInv, SoundEdit
    <3>2. /\ IsProfile(new)
          /\ new.notes = profiles[e.wallet].notes \/ new.notes \in e.asked
      BY <2>4, <3>1, WrittenIsCareful
    <3> HIDE DEF new
    <3>3. QED BY <1>1, <2>1, <3>2 DEF NotesInv, SoundEdit
  <2>5. QED BY <2>3, <2>4
<1>4. QED BY <1>2, <1>3

LEMMA ClientKeeps ==
  ASSUME NotesInv, NEW c \in Client, ClientStep(c), ~CommitEdit(c)
  PROVE  NotesInv' /\ UNCHANGED profiles
<1>1. ASSUME NEW i \in DOMAIN candidates, BeginSave(c, i)
      PROVE  NotesInv' /\ UNCHANGED profiles
  <2> DEFINE found == candidates[i]
             fields == [status |-> "candidate", score |-> found.score, from |-> jobs[found.job]]
             row == Saved(profiles[found.wallet], fields, None)
  <2>1. found.wallet \in ProfileAddress
    <3>1. candidates \in Seq(Found) /\ i \in 1 .. Len(candidates)
      BY LenProperties DEF NotesInv
    <3>2. candidates[i] \in Found
      BY <3>1, ElementOfSeq
    <3>3. QED BY <3>2 DEF Found
  <2>2. IsProfile(row) /\ (profiles[found.wallet] # None => row.notes = profiles[found.wallet].notes)
    BY <2>1, SavedIsCareful DEF NotesInv
  <2>3. Begins(c, found.wallet, row, {}, FALSE)
    BY <1>1 DEF BeginSave
  <2> HIDE DEF found, row
  <2>4. QED BY <2>1, <2>2, <2>3, BeginKeeps DEF Begins
<1>2. ASSUME NEW w \in ProfileAddress, NEW status \in ChosenStatuses, NEW n \in Edits \cup {None},
             BeginPost(c, w, status, n)
      PROVE  NotesInv' /\ UNCHANGED profiles
  <2> DEFINE fields == [status |-> status, score |-> None, from |-> None]
             row == Saved(profiles[w], fields, n)
  <2>1. /\ IsProfile(row)
        /\ profiles[w] # None => row.notes = profiles[w].notes \/ row.notes \in {n} \ {None}
    BY SavedIsCareful DEF NotesInv
  <2>2. Begins(c, w, row, {n} \ {None}, FALSE)
    BY <1>2 DEF BeginPost
  <2> HIDE DEF row
  <2>3. QED BY <2>1, <2>2, BeginKeeps DEF Begins
<1>3. ASSUME NEW w \in ProfileAddress, NEW status \in ChosenStatuses,
             BeginPatchStatus(c, w, status)
      PROVE  NotesInv' /\ UNCHANGED profiles
  <2> DEFINE row == [profiles[w] EXCEPT !.status = status]
  <2>1. IsProfile(profiles[w]) /\ Begins(c, w, row, {}, FALSE)
    BY <1>3 DEF BeginPatchStatus, NotesInv
  <2>2. IsProfile(row) /\ row.notes = profiles[w].notes
    BY <2>1, PatchedIsProfile
  <2> HIDE DEF row
  <2>3. QED BY <2>1, <2>2, BeginKeeps DEF Begins
<1>4. ASSUME NEW w \in ProfileAddress, NEW n \in Edits \cup {None}, BeginPatchNotes(c, w, n)
      PROVE  NotesInv' /\ UNCHANGED profiles
  <2>1. IsProfile(profiles[w])
    BY <1>4 DEF BeginPatchNotes, NotesInv
  <2> DEFINE row == [profiles[w] EXCEPT !.notes = n]
  <2>2. Begins(c, w, row, {n}, FALSE)
    BY <1>4 DEF BeginPatchNotes
  <2>3. IsProfile(row) /\ row.notes = n
    BY <2>1, PatchedIsProfile
  <2> HIDE DEF row
  <2>4. QED BY <2>2, <2>3, BeginKeeps DEF Begins
<1>5. ASSUME NEW w \in ProfileAddress, BeginFollow(c, w)
      PROVE  NotesInv' /\ UNCHANGED profiles
  <2> DEFINE row == [profiles[w] EXCEPT !.status = "demo_follow"]
  <2>1. IsProfile(profiles[w]) /\ Begins(c, w, row, {}, TRUE)
    BY <1>5 DEF BeginFollow, NotesInv
  <2>2. IsProfile(row) /\ row.notes = profiles[w].notes
    BY <2>1, PatchedIsProfile
  <2> HIDE DEF row
  <2>3. QED BY <2>1, <2>2, BeginKeeps DEF Begins
<1>6. QED BY <1>1, <1>2, <1>3, <1>4, <1>5 DEF ClientStep

\* The step of NotesSurvive.
NotesKept ==
  \A w \in ProfileAddress :
    (profiles[w] # None /\ profiles'[w].notes # profiles[w].notes) =>
      \E c \in Client : /\ editing[c] # None /\ editing'[c] = None
                        /\ editing[c].wallet = w
                        /\ profiles'[w].notes \in editing[c].asked

LEMMA NotesNext == NotesInv /\ [ProfileNext]_profileVars => NotesInv' /\ NotesKept
<1> SUFFICES ASSUME NotesInv, [ProfileNext]_profileVars PROVE NotesInv' /\ NotesKept
  OBVIOUS
<1>1. CASE UNCHANGED profileVars
  BY <1>1 DEF profileVars, NotesInv, NotesKept
<1>2. ASSUME NEW markets \in Links, CreateJob(markets)
      PROVE  NotesInv' /\ NotesKept
  <2>1. PrimaryMarket(markets).title \in Titles
    BY DEF Titles
  <2>2. QED BY <1>2, <2>1, AppendProperties DEF CreateJob, NotesInv, NotesKept
<1>3. ASSUME NEW j \in DOMAIN jobs, NEW w \in ProfileAddress, FindCandidate(j, w, Len(candidates))
      PROVE  NotesInv' /\ NotesKept
  <2>1. [job |-> j, wallet |-> w, score |-> Len(candidates)] \in Found
    BY LenProperties DEF NotesInv, Found
  <2>2. QED BY <1>3, <2>1, AppendProperties DEF FindCandidate, NotesInv, NotesKept
<1>4. ASSUME NEW c \in Client, CommitEdit(c)
      PROVE  NotesInv' /\ NotesKept
  BY <1>4, CommitKeeps DEF NotesKept
<1>5. ASSUME NEW c \in Client, ClientStep(c), ~CommitEdit(c)
      PROVE  NotesInv' /\ NotesKept
  BY <1>5, ClientKeeps DEF NotesKept
<1>6. ASSUME NEW w \in ProfileAddress, NEW enabled \in {FALSE, None}, ChangeCopy(w, enabled)
      PROVE  NotesInv' /\ NotesKept
  BY <1>6 DEF ChangeCopy, NotesInv, NotesKept
<1>7. QED BY <1>1, <1>2, <1>3, <1>4, <1>5, <1>6 DEF ProfileNext

\* The notes of a profile change only to what a request asked for, however many
\* requests overlap.  (create_or_update_wallet_profile, update_wallet_profile)
THEOREM NotesAreKept == ProfileSpec => NotesSurvive
<1>1. NotesInv /\ [ProfileNext]_profileVars => [NotesKept]_profileVars
  BY NotesNext
<1>2. QED BY <1>1, NotesInit, NotesNext, PTL DEF ProfileSpec, NotesSurvive, NotesKept

-------------------------------------------------------------------------------
(* The daily run.                                                          *)

Done == UNION {[S -> EntryType] : S \in SUBSET Steps}
RunStatuses == {"ok", "warning", "error"}
LogType == [id : 1 .. MaxDailyRuns, status : RunStatuses, steps : [Steps -> EntryType]]

Typed ==
  /\ started \in 0 .. MaxDailyRuns /\ skipping \in BOOLEAN
  /\ current # None => current \in Done /\ started # 0
  /\ artifacts \in [Steps -> FileType \cup {None}]
  /\ latest \in FileType \cup {None}
  /\ dailyRuns \in Seq(LogType)

LEMMA Constants == MaxDailyRuns \in Nat /\ Results \in [Steps -> SUBSET {"ok", "warning", "error", "unwritten"}]
BY DailyConstantsOK

LEMMA TypedInit == DailyInit => Typed
<1> SUFFICES ASSUME DailyInit PROVE Typed
  OBVIOUS
<1>1. dailyRuns \in Seq(LogType)
  BY DEF DailyInit
<1>2. started \in 0 .. MaxDailyRuns
  BY Constants DEF DailyInit
<1>2a. skipping \in BOOLEAN
  BY Zenon DEF DailyInit
<1>3. current # None => current \in Done /\ started # 0
  BY DEF DailyInit
<1>4. artifacts \in [Steps -> FileType \cup {None}] /\ latest \in FileType \cup {None}
  BY DEF DailyInit
<1>5. QED BY <1>1, <1>2, <1>2a, <1>3, <1>4 DEF Typed

LEMMA BehindIsDone ==
  ASSUME current \in Done, NEW c \in Steps, NEW entry \in EntryType, Behind(c, entry)
  PROVE  /\ current' \in Done
         /\ DOMAIN current' = DOMAIN current \cup {c}
         /\ \A d \in DOMAIN current : d # c => current'[d] = current[d]
<1>1. PICK S \in SUBSET Steps : current \in [S -> EntryType]
  BY DEF Done
<1>2. current' \in [S \cup {c} -> EntryType]
  BY <1>1 DEF Behind
<1>3. QED BY <1>1, <1>2 DEF Done, Behind

LEMMA RunStatusTyped == ASSUME NEW done PROVE RunStatus(done) \in RunStatuses
BY DEF RunStatus, Worst, RunStatuses

LEMMA TypedNext == Typed /\ [DailyNext]_dailyVars => Typed'
<1> SUFFICES ASSUME Typed, [DailyNext]_dailyVars PROVE Typed'
  OBVIOUS
<1> USE Constants
<1>1. CASE UNCHANGED dailyVars
  BY <1>1 DEF dailyVars, Typed
<1>2. CASE StartRun
  <2>1. <<>> \in [{} -> EntryType]
    OBVIOUS
  <2>2. <<>> \in Done
    BY <2>1 DEF Done
  <2>3. QED BY <1>2, <2>2 DEF StartRun, Typed
<1>3. CASE RecordRun
  <2> DEFINE log == [id |-> started, status |-> RunStatus(current), steps |-> current]
  <2>1. current \in [Steps -> EntryType] /\ started \in 1 .. MaxDailyRuns
    BY <1>3 DEF RecordRun, Typed, Done
  <2>2. log \in LogType
    BY <2>1, RunStatusTyped DEF LogType
  <2>3. dailyRuns' \in Seq(LogType)
    BY <1>3, <2>2, ConcatProperties DEF RecordRun, Typed
  <2>4. QED BY <1>3, <2>3 DEF RecordRun, Typed
<1>4. CASE PublishRun
  <2>1. dailyRuns # <<>> /\ Head(dailyRuns) \in LogType /\ Head(dailyRuns).id = started
    BY <1>4, HeadTailProperties DEF PublishRun, RunLogged, Typed
  <2>2. File(started, Head(dailyRuns).status, TRUE) \in FileType
    BY <2>1 DEF File, FileType, LogType, RunStatuses
  <2>3. QED BY <1>4, <2>2 DEF PublishRun, Typed
<1>5. CASE Interrupted
  BY <1>5 DEF Interrupted, Typed
<1>6. CASE HoursPass
  <2>1. \A f \in FileType \cup {None} : Older(f) \in FileType \cup {None}
    BY DEF Older, FileType
  <2>2. QED BY <1>6, <2>1 DEF HoursPass, Typed
<1>7. ASSUME NEW c \in Steps, RunStep(c)
      PROVE  Typed'
  <2>1. PICK status \in Results[c] \ {"unwritten"}, ready \in BOOLEAN :
          /\ artifacts' = [artifacts EXCEPT ![c] = File(started, status, ready)]
          /\ Behind(c, Entry(status, ready))
    BY <1>7 DEF RunStep
  <2>2. status \in RunStatuses
    BY DEF RunStatuses
  <2>3. current \in Done /\ started \in 1 .. MaxDailyRuns
    BY <1>7 DEF RunStep, NextStep, Typed
  <2>4. File(started, status, ready) \in FileType /\ Entry(status, ready) \in EntryType
    BY <2>2, <2>3 DEF File, FileType, Entry, EntryType, RunStatuses
  <2>5. current' \in Done
    BY <2>1, <2>3, <2>4, BehindIsDone
  <2>6. QED BY <1>7, <2>1, <2>3, <2>4, <2>5 DEF RunStep, Typed
<1>8. ASSUME NEW c \in Steps, LoseStep(c)
      PROVE  Typed'
  <2>1. PICK entry \in EntryType : Behind(c, entry)
    BY <1>8 DEF LoseStep, Entry, EntryType, Typed, FileType
  <2>2. current \in Done /\ started \in 1 .. MaxDailyRuns
    BY <1>8 DEF LoseStep, NextStep, Typed
  <2>3. current' \in Done
    BY <2>1, <2>2, BehindIsDone
  <2>4. QED BY <1>8, <2>2, <2>3 DEF LoseStep, Typed
<1>9. ASSUME NEW c \in Steps, SkipStep(c)
      PROVE  Typed'
  <2>1. Entry("skipped", TRUE) \in EntryType
    BY DEF Entry, EntryType
  <2>2. current \in Done /\ started \in 1 .. MaxDailyRuns
    BY <1>9 DEF SkipStep, NextStep, Typed
  <2>3. current' \in Done
    BY <1>9, <2>1, <2>2, BehindIsDone DEF SkipStep
  <2>4. QED BY <1>9, <2>2, <2>3 DEF SkipStep, Typed
<1>10. QED
  BY <1>1, <1>2, <1>3, <1>4, <1>5, <1>6, <1>7, <1>8, <1>9 DEF DailyNext

-----------------------------------------------------------------------------
(* A failed run publishes nothing.                                         *)

\* The file of output c on disk is the work of the run in progress.
Made(c) == artifacts[c] # None /\ artifacts[c].run = started

StagesPassed == Stages \subseteq DOMAIN current /\ "error" \notin StatusesOf(Stages, current)

Published ==
  /\ \A c \in Outputs : artifacts[c] # None => artifacts[c].run <= started
  /\ \A i \in DOMAIN dailyRuns : dailyRuns[i].id <= started
  /\ current # None =>
       \/ RunLogged /\ DOMAIN current = Steps
       \/ /\ \A i \in DOMAIN dailyRuns : dailyRuns[i].id < started
          /\ \A c \in Outputs : Made(c) => StagesPassed
  /\ FailedRunPublishesNothing

LEMMA ErrorIsOfAStage ==
  ASSUME NEW done, RunStatus(done) = "error"
  PROVE  "error" \in StatusesOf(Stages, done)
BY DEF RunStatus, Worst

LEMMA OutputsFollowStages ==
  ASSUME NEW c \in Outputs, NextStep(c)
  PROVE  Stages \subseteq DOMAIN current
<1>1. PICK i \in DOMAIN StepOrder :
        StepOrder[i] = c /\ \A j \in 1 .. i - 1 : StepOrder[j] \in DOMAIN current
  BY DEF NextStep
<1>2. i \in 4 .. 7
  BY <1>1 DEF StepOrder, Outputs
<1>3. StepOrder[1] \in DOMAIN current /\ StepOrder[2] \in DOMAIN current
      /\ StepOrder[3] \in DOMAIN current
  BY <1>1, <1>2
<1>4. QED BY <1>3 DEF StepOrder, Stages

LEMMA LogsTyped ==
  ASSUME Typed
  PROVE  started \in Int /\ \A i \in DOMAIN dailyRuns : dailyRuns[i] \in LogType
<1>1. dailyRuns \in Seq(LogType) /\ started \in Int
  BY Constants DEF Typed
<1>2. QED BY <1>1, LenProperties, ElementOfSeq

LEMMA PublishedInit == DailyInit => Published
BY DEF DailyInit, Steps, Published, FailedRunPublishesNothing

\* What one step of the master does to the invariant before the run is logged.
LEMMA PublishedStep ==
  ASSUME Typed, Published, NEW c \in Steps, NextStep(c),
         NEW entry \in EntryType, Behind(c, entry),
         UNCHANGED <<started, skipping, dailyRuns, latest>>,
         artifacts \in [Steps -> FileType \cup {None}],
         NEW file \in FileType,
         \/ artifacts' = artifacts
         \/ /\ artifacts' = [artifacts EXCEPT ![c] = file]
            /\ file.run = started /\ MayRun(c)
  PROVE  Published'
<1>1. current \in Done /\ current # None /\ c \notin DOMAIN current
  BY DEF NextStep, Typed
<1>2. /\ DOMAIN current' = DOMAIN current \cup {c}
      /\ \A d \in DOMAIN current : d # c => current'[d] = current[d]
  BY <1>1, BehindIsDone
<1>3. DOMAIN current # Steps
  BY <1>1
<1>4. /\ \A i \in DOMAIN dailyRuns : dailyRuns[i].id < started
      /\ \A d \in Outputs : Made(d) => StagesPassed
  BY <1>1, <1>3 DEF Published
<1>5. StagesPassed => StagesPassed'
  BY <1>1, <1>2 DEF StagesPassed, StatusesOf, Stages
<1>6. ASSUME NEW d \in Outputs, Made(d)'
      PROVE  StagesPassed'
  <2>1. CASE Made(d)
    BY <2>1, <1>4, <1>5
  <2>2. CASE ~Made(d)
    <3>1. d \in Steps
      BY DEF Steps
    <3>2. d = c /\ MayRun(c)
      BY <2>2, <1>6, <3>1 DEF Made
    <3>3. StagesPassed
      BY <3>2, OutputsFollowStages DEF StagesPassed, MayRun
    <3>4. QED BY <3>3, <1>5
  <2>3. QED BY <2>1, <2>2
<1>7. FailedRunPublishesNothing'
  <2> SUFFICES ASSUME NEW i \in DOMAIN dailyRuns, dailyRuns[i].status = "error",
                      NEW d \in Outputs, artifacts'[d] # None
               PROVE  artifacts'[d].run # dailyRuns[i].id
    BY DEF FailedRunPublishesNothing
  <2>1. d \in Steps
    BY DEF Steps
  <2>2. CASE artifacts'[d] = artifacts[d]
    BY <2>2 DEF Published, FailedRunPublishesNothing
  <2>3. CASE artifacts'[d] # artifacts[d]
    <3>1. artifacts'[d].run = started
      BY <2>1, <2>3
    <3>2. dailyRuns[i].id < started
      BY <1>4
    <3>3. started \in Int /\ dailyRuns[i].id \in Int
      BY LogsTyped DEF LogType
    <3>4. QED BY <3>1, <3>2, <3>3
  <2>4. QED BY <2>2, <2>3
<1>8. \A d \in Outputs : artifacts'[d] # None => artifacts'[d].run <= started
  <2> SUFFICES ASSUME NEW d \in Outputs, artifacts'[d] # None
               PROVE  artifacts'[d].run <= started
    OBVIOUS
  <2>1. d \in Steps
    BY DEF Steps
  <2>2. CASE artifacts'[d] = artifacts[d]
    BY <2>2 DEF Published
  <2>3. CASE artifacts'[d] # artifacts[d]
    <3>1. artifacts'[d].run = started /\ started \in Int
      BY <2>1, <2>3, LogsTyped
    <3>2. QED BY <3>1
  <2>4. QED BY <2>2, <2>3
<1>9. QED BY <1>1, <1>4, <1>6, <1>7, <1>8 DEF Published

LEMMA PublishedNext == Typed /\ Typed' /\ Published /\ [DailyNext]_dailyVars => Published'
<1> SUFFICES ASSUME Typed, Typed', Published, [DailyNext]_dailyVars PROVE Published'
  OBVIOUS
<1>1. started \in Int /\ \A i \in DOMAIN dailyRuns : dailyRuns[i] \in LogType
  BY LogsTyped
<1>2. CASE UNCHANGED dailyVars
  BY <1>2 DEF dailyVars, Published, FailedRunPublishesNothing, RunLogged, Made,
              StagesPassed, StatusesOf
<1>3. CASE StartRun
  <2>1. \A i \in DOMAIN dailyRuns : dailyRuns[i].id < started'
    BY <1>1, <1>3 DEF StartRun, Published, LogType
  <2>2. ASSUME NEW c \in Outputs, artifacts[c] # None
        PROVE  artifacts[c].run < started'
    <3>1. artifacts[c] \in FileType /\ artifacts[c].run <= started
      BY <2>2 DEF Typed, Steps, Published
    <3>2. started' = started + 1 /\ artifacts[c].run \in Int
      BY <1>3, <3>1 DEF StartRun, FileType
    <3>3. QED BY <1>1, <3>1, <3>2
  <2>3. started' \in Int /\ artifacts' = artifacts /\ dailyRuns' = dailyRuns
    BY <1>1, <1>3 DEF StartRun
  <2>4. \A c \in Outputs : artifacts'[c] # None => artifacts'[c].run < started'
    BY <2>2, <2>3
  <2>5. \A c \in Outputs : artifacts'[c] # None =>
          artifacts'[c].run <= started' /\ artifacts'[c].run # started'
    <3> SUFFICES ASSUME NEW c \in Outputs, artifacts'[c] # None
                 PROVE  artifacts'[c].run <= started' /\ artifacts'[c].run # started'
      OBVIOUS
    <3>1. artifacts'[c] \in FileType
      BY DEF Typed, Steps
    <3>2. artifacts'[c].run \in Int
      BY <3>1 DEF FileType
    <3>3. QED BY <2>3, <2>4, <3>2
  <2>6. \A i \in DOMAIN dailyRuns' : dailyRuns'[i].id <= started'
    <3>1. \A i \in DOMAIN dailyRuns : dailyRuns[i].id \in Int
      BY <1>1 DEF LogType
    <3>2. QED BY <2>1, <2>3, <3>1
  <2>7. \A c \in Outputs : ~Made(c)'
    BY <2>5 DEF Made
  <2>8. FailedRunPublishesNothing'
    BY <2>3 DEF Published, FailedRunPublishesNothing
  <2>9. QED BY <2>1, <2>3, <2>5, <2>6, <2>7, <2>8 DEF Published
<1>4. CASE RecordRun
  <2> DEFINE log == [id |-> started, status |-> RunStatus(current), steps |-> current]
  <2>1. current \in [Steps -> EntryType] /\ started \in 1 .. MaxDailyRuns
    BY <1>4 DEF RecordRun, Typed, Done
  <2>2. log \in LogType
    BY <2>1, RunStatusTyped DEF LogType
  <2>3. /\ dailyRuns' = <<log>> \o dailyRuns
        /\ UNCHANGED <<started, current, artifacts>> /\ current # None
        /\ DOMAIN current = Steps /\ ~RunLogged
    BY <1>4 DEF RecordRun
  <2>4. /\ dailyRuns' # <<>> /\ Head(dailyRuns') = log
        /\ \A i \in DOMAIN dailyRuns' :
             dailyRuns'[i] = log \/ \E j \in DOMAIN dailyRuns : dailyRuns'[i] = dailyRuns[j]
    <3> HIDE DEF log
    <3>1. QED BY <2>2, <2>3, ConcatProperties, HeadTailProperties DEF Typed
  <2>5. log.id = started /\ log.status = RunStatus(current)
    OBVIOUS
  <2> HIDE DEF log
  <2>6. RunLogged'
    BY <2>3, <2>4, <2>5 DEF RunLogged
  <2>7. \A i \in DOMAIN dailyRuns' : dailyRuns'[i].id <= started
    BY <1>1, <2>4, <2>5 DEF Published
  <2>8. /\ \A i \in DOMAIN dailyRuns : dailyRuns[i].id < started
        /\ \A c \in Outputs : Made(c) => StagesPassed
    BY <2>3 DEF Published
  <2>9. FailedRunPublishesNothing'
    <3> SUFFICES ASSUME NEW i \in DOMAIN dailyRuns', dailyRuns'[i].status = "error",
                        NEW c \in Outputs, artifacts[c] # None
                 PROVE  artifacts[c].run # dailyRuns'[i].id
      BY <2>3 DEF FailedRunPublishesNothing
    <3>1. CASE dailyRuns'[i] = log
      <4>1. "error" \in StatusesOf(Stages, current)
        BY <3>1, <2>5, ErrorIsOfAStage
      <4>2. ~Made(c)
        BY <4>1, <2>8 DEF StagesPassed
      <4>3. QED BY <3>1, <4>2, <2>5 DEF Made
    <3>2. CASE \E j \in DOMAIN dailyRuns : dailyRuns'[i] = dailyRuns[j]
      BY <3>2 DEF Published, FailedRunPublishesNothing
    <3>3. QED BY <2>4, <3>1, <3>2
  <2>10. QED BY <2>3, <2>6, <2>7, <2>9 DEF Published
<1>5. CASE PublishRun
  BY <1>5 DEF PublishRun, Published, FailedRunPublishesNothing
<1>6. CASE Interrupted
  BY <1>6 DEF Interrupted, Published, FailedRunPublishesNothing
<1>7. CASE HoursPass
  <2>1. ASSUME NEW c \in Outputs
        PROVE  /\ artifacts'[c] # None => artifacts[c] # None
               /\ artifacts[c] # None => artifacts'[c].run = artifacts[c].run
    <3>1. c \in Steps /\ artifacts'[c] = Older(artifacts[c])
      BY <1>7 DEF HoursPass, Steps
    <3>2. artifacts[c] # None => artifacts[c] \in FileType
      BY <3>1 DEF Typed
    <3>3. QED BY <3>1, <3>2 DEF Older, FileType
  <2>2. QED BY <1>7, <2>1 DEF HoursPass, Published, FailedRunPublishesNothing
<1>8. ASSUME NEW c \in Steps, RunStep(c)
      PROVE  Published'
  <2>1. PICK status \in Results[c] \ {"unwritten"}, ready \in BOOLEAN :
          /\ artifacts' = [artifacts EXCEPT ![c] = File(started, status, ready)]
          /\ Behind(c, Entry(status, ready))
    BY <1>8 DEF RunStep
  <2> DEFINE file == File(started, status, ready)
  <2> DEFINE entry == Entry(status, ready)
  <2>2. status \in RunStatuses
    BY Constants DEF RunStatuses
  <2>3. started \in 1 .. MaxDailyRuns
    BY <1>8, Constants DEF RunStep, NextStep, Typed
  <2>4. file \in FileType /\ entry \in EntryType /\ file.run = started
    BY <2>2, <2>3 DEF File, FileType, Entry, EntryType, RunStatuses
  <2>5. NextStep(c) /\ MayRun(c) /\ UNCHANGED <<started, skipping, dailyRuns, latest>>
    BY <1>8 DEF RunStep
  <2>6. /\ artifacts' = [artifacts EXCEPT ![c] = file] /\ Behind(c, entry)
        /\ artifacts \in [Steps -> FileType \cup {None}]
    BY <2>1 DEF Typed
  <2> HIDE DEF file, entry
  <2>7. QED BY <2>4, <2>5, <2>6, PublishedStep
<1>9. ASSUME NEW c \in Steps, LoseStep(c) \/ SkipStep(c)
      PROVE  Published'
  <2>1. /\ NextStep(c) /\ UNCHANGED <<started, skipping, dailyRuns, latest>>
        /\ artifacts' = artifacts /\ artifacts \in [Steps -> FileType \cup {None}]
    BY <1>9 DEF LoseStep, SkipStep, Typed
  <2>2. PICK entry \in EntryType : Behind(c, entry)
    BY <1>9, <2>1 DEF LoseStep, SkipStep, Entry, EntryType, FileType
  <2>3. PICK file : file \in FileType
    <3>1. started \in 1 .. MaxDailyRuns
      BY <2>1, Constants DEF NextStep, Typed
    <3>2. File(started, "ok", TRUE) \in FileType
      BY <3>1 DEF File, FileType
    <3>3. QED BY <3>2
  <2>4. QED BY <2>1, <2>2, <2>3, PublishedStep
<1>10. QED
  BY <1>2, <1>3, <1>4, <1>5, <1>6, <1>7, <1>8, <1>9 DEF DailyNext

-----------------------------------------------------------------------------
\* The files and the run in progress keep their types, whatever steps die.
THEOREM DailyTypes == DailySpec => []DailyTypeOK
<1>1. Typed => DailyTypeOK
  <2> SUFFICES ASSUME Typed PROVE DailyTypeOK
    OBVIOUS
  <2>1. \A i \in DOMAIN dailyRuns : dailyRuns[i].steps \in [Steps -> EntryType]
    BY LogsTyped DEF LogType
  <2>2. current # None => /\ DOMAIN current \subseteq Steps
                         /\ \A c \in DOMAIN current : current[c] \in EntryType
    BY DEF Typed, Done
  <2>3. QED BY <2>1, <2>2 DEF Typed, DailyTypeOK
<1>2. QED BY <1>1, TypedInit, TypedNext, PTL DEF DailySpec

\* A run recorded as failed has published nothing: the outputs of
\* scripts/run_market_pipeline.ps1 wait for all three stages, and no summary an
\* earlier run left behind can make a failed stage pass for the current one.
THEOREM FailedPublishNothing == DailySpec => []FailedRunPublishesNothing
<1>1. Published => FailedRunPublishesNothing
  BY DEF Published
<1>2. QED BY <1>1, TypedInit, TypedNext, PublishedInit, PublishedNext, PTL DEF DailySpec

-----------------------------------------------------------------------------
(* The status endpoint and the history agree.                              *)

\* What the file says of its run is what the recorded step says.
SameAccount(file, entry) == file.status = entry.status /\ file.ready = entry.ready

Of(file, run) == file # None /\ file.run = run

Told ==
  /\ latest # None => latest.ready /\ latest.run <= started
  /\ \A c \in Steps : artifacts[c] # None => artifacts[c].run <= started
  /\ current # None =>
       /\ ~RunLogged => ~Of(latest, started)
       /\ \A c \in Steps : Of(artifacts[c], started) =>
            c \in DOMAIN current /\ SameAccount(artifacts[c], current[c])
  /\ dailyRuns # <<>> =>
       /\ Of(latest, Head(dailyRuns).id) => latest.status = Head(dailyRuns).status
       /\ \A c \in Steps : Of(artifacts[c], Head(dailyRuns).id) =>
            SameAccount(artifacts[c], Head(dailyRuns).steps[c])

LEMMA ToldStep ==
  ASSUME Typed, Published, Told, NEW c \in Steps, NextStep(c), NEW entry \in EntryType, Behind(c, entry),
         UNCHANGED <<started, skipping, dailyRuns, latest>>,
         \/ artifacts' = artifacts
         \/ \E file \in FileType : /\ artifacts' = [artifacts EXCEPT ![c] = file]
                                   /\ file.run = started /\ SameAccount(file, entry)
  PROVE  Told'
<1>1. current \in Done /\ current # None /\ c \notin DOMAIN current /\ ~RunLogged
  <2>1. current \in Done /\ current # None /\ c \notin DOMAIN current /\ DOMAIN current # Steps
    BY DEF NextStep, Typed
  <2>2. \A i \in DOMAIN dailyRuns : dailyRuns[i].id < started
    BY <2>1 DEF Published
  <2>3. dailyRuns # <<>> => 1 \in DOMAIN dailyRuns /\ Head(dailyRuns) = dailyRuns[1]
    BY DEF Typed
  <2>4. dailyRuns # <<>> => Head(dailyRuns).id < started /\ Head(dailyRuns).id \in Int /\ started \in Int
    BY <2>2, <2>3, LogsTyped DEF LogType
  <2>5. QED BY <2>1, <2>4 DEF RunLogged
<1>2. /\ DOMAIN current' = DOMAIN current \cup {c} /\ current'[c] = entry
      /\ \A d \in DOMAIN current : d # c => current'[d] = current[d]
  <2>1. current'[c] = entry
    BY DEF Behind
  <2>2. QED BY <1>1, <2>1, BehindIsDone
<1>3. started \in Int
  BY LogsTyped
<1>4. \A d \in Steps : \/ artifacts'[d] = artifacts[d]
                       \/ d = c /\ artifacts'[d].run = started /\ SameAccount(artifacts'[d], entry)
  <2>1. CASE artifacts' = artifacts
    BY <2>1
  <2>2. ASSUME NEW file \in FileType, artifacts' = [artifacts EXCEPT ![c] = file],
               file.run = started, SameAccount(file, entry)
        PROVE  \A d \in Steps : \/ artifacts'[d] = artifacts[d]
                                \/ /\ d = c /\ artifacts'[d].run = started
                                   /\ SameAccount(artifacts'[d], entry)
    <3>1. \A d \in Steps : artifacts'[d] = IF d = c THEN file ELSE artifacts[d]
      BY <2>2 DEF Typed
    <3>2. QED BY <2>2, <3>1
  <2>3. QED BY <2>1, <2>2
<1>5. \A d \in Steps : Of(artifacts[d], started) => d # c
  BY <1>1 DEF Told
<1>6. \A d \in Steps : artifacts'[d] # None => artifacts'[d].run <= started
  BY <1>3, <1>4 DEF Told
<1>7. \A d \in Steps : Of(artifacts'[d], started) =>
        d \in DOMAIN current' /\ SameAccount(artifacts'[d], current'[d])
  BY <1>1, <1>2, <1>4, <1>5 DEF Told, Of
<1>8. ~RunLogged /\ dailyRuns # <<>> => Head(dailyRuns).id # started
  BY DEF RunLogged
<1>9. dailyRuns # <<>> => \A d \in Steps : Of(artifacts'[d], Head(dailyRuns).id) =>
        SameAccount(artifacts'[d], Head(dailyRuns).steps[d])
  BY <1>1, <1>4, <1>8 DEF Told, Of
<1>10. QED BY <1>1, <1>6, <1>7, <1>9 DEF Told, RunLogged, Of

LEMMA HeadIs ==
  ASSUME Typed, dailyRuns # <<>>
  PROVE  Head(dailyRuns) \in LogType
BY HeadTailProperties DEF Typed

LEMMA ToldNext == Typed /\ Published /\ Told /\ [DailyNext]_dailyVars => Told'
<1> SUFFICES ASSUME Typed, Published, Told, [DailyNext]_dailyVars PROVE Told'
  OBVIOUS
<1>1. started \in Int
  BY LogsTyped
<1>2. CASE UNCHANGED dailyVars
  BY <1>2 DEF dailyVars, Told, RunLogged, Of
<1>3. CASE StartRun
  <2>1. /\ started' = started + 1 /\ current' = <<>>
        /\ UNCHANGED <<artifacts, dailyRuns, latest>>
    BY <1>3 DEF StartRun
  <2>2. latest # None => latest.run \in Int
    BY DEF Typed, FileType
  <2>3. latest # None => latest.run <= started' /\ latest.run # started'
    BY <1>1, <2>1, <2>2 DEF Told
  <2>4. \A c \in Steps : artifacts[c] # None => artifacts[c].run <= started' /\ artifacts[c].run # started'
    <3>1. \A c \in Steps : artifacts[c] # None => artifacts[c].run \in Int
      BY DEF Typed, FileType
    <3>2. QED BY <1>1, <2>1, <3>1 DEF Told
  <2>5. QED BY <2>1, <2>3, <2>4 DEF Told, Of
<1>4. CASE RecordRun
  <2> DEFINE log == [id |-> started, status |-> RunStatus(current), steps |-> current]
  <2>1. current \in [Steps -> EntryType] /\ started \in 1 .. MaxDailyRuns
    BY <1>4 DEF RecordRun, Typed, Done
  <2>2. log \in LogType
    BY <2>1, RunStatusTyped DEF LogType
  <2>3. /\ dailyRuns' = <<log>> \o dailyRuns
        /\ UNCHANGED <<started, current, artifacts, latest>> /\ current # None /\ ~RunLogged
    BY <1>4 DEF RecordRun
  <2>4. log.id = started /\ log.steps = current
    OBVIOUS
  <2>5. dailyRuns' # <<>> /\ Head(dailyRuns') = log
    <3> HIDE DEF log
    <3>1. QED BY <2>2, <2>3, ConcatProperties, HeadTailProperties DEF Typed
  <2> HIDE DEF log
  <2>6. ~Of(latest, started)
    BY <2>3 DEF Told
  <2>7. QED BY <2>3, <2>4, <2>5, <2>6 DEF Told, RunLogged, Of
<1>5. CASE PublishRun
  <2> DEFINE status == Head(dailyRuns).status
  <2>1. latest' = [run |-> started, status |-> status, ready |-> TRUE, stale |-> FALSE]
    BY <1>5 DEF PublishRun, File
  <2>2. /\ current' = None /\ UNCHANGED <<started, artifacts, dailyRuns>>
    BY <1>5 DEF PublishRun
  <2> HIDE DEF status
  <2>3. latest'.run = started /\ latest'.status = status /\ latest'.ready
    BY <2>1
  <2>4. QED BY <1>1, <2>2, <2>3 DEF Told, Of, status
<1>6. CASE Interrupted
  BY <1>6 DEF Interrupted, Told, Of
<1>7. CASE HoursPass
  <2>1. \A f \in FileType \cup {None} :
          Older(f) = None \/ (f # None /\ Older(f).run = f.run /\ SameAccount(Older(f), f))
    BY DEF Older, FileType, SameAccount
  <2>2. /\ latest' = Older(latest) /\ \A c \in Steps : artifacts'[c] = Older(artifacts[c])
        /\ current = None /\ UNCHANGED <<started, current, dailyRuns>>
    BY <1>7 DEF HoursPass
  <2>3. latest \in FileType \cup {None} /\ \A c \in Steps : artifacts[c] \in FileType \cup {None}
    BY DEF Typed
  <2>4. latest' = None \/ (latest # None /\ latest'.run = latest.run /\ SameAccount(latest', latest))
    BY <2>1, <2>2, <2>3
  <2>5. \A c \in Steps : \/ artifacts'[c] = None
                         \/ /\ artifacts[c] # None /\ artifacts'[c].run = artifacts[c].run
                            /\ SameAccount(artifacts'[c], artifacts[c])
    BY <2>1, <2>2, <2>3
  <2>6. QED BY <2>2, <2>4, <2>5 DEF Told, SameAccount, Of
<1>8. ASSUME NEW c \in Steps, RunStep(c)
      PROVE  Told'
  <2>1. PICK status \in Results[c] \ {"unwritten"}, ready \in BOOLEAN :
          /\ artifacts' = [artifacts EXCEPT ![c] = File(started, status, ready)]
          /\ Behind(c, Entry(status, ready))
    BY <1>8 DEF RunStep
  <2> DEFINE file == File(started, status, ready)
             entry == Entry(status, ready)
  <2>2. status \in RunStatuses
    BY Constants DEF RunStatuses
  <2>3. started \in 1 .. MaxDailyRuns
    BY <1>8, Constants DEF RunStep, NextStep, Typed
  <2>4. file \in FileType /\ entry \in EntryType /\ file.run = started /\ SameAccount(file, entry)
    BY <2>2, <2>3 DEF File, FileType, Entry, EntryType, RunStatuses, SameAccount
  <2>5. NextStep(c) /\ UNCHANGED <<started, skipping, dailyRuns, latest>>
    BY <1>8 DEF RunStep
  <2> HIDE DEF file, entry
  <2>6. artifacts' = [artifacts EXCEPT ![c] = file] /\ Behind(c, entry)
    BY <2>1 DEF file, entry
  <2>7. QED BY <2>4, <2>5, <2>6, ToldStep
<1>9. ASSUME NEW c \in Steps, LoseStep(c) \/ SkipStep(c)
      PROVE  Told'
  <2>1. NextStep(c) /\ UNCHANGED <<started, skipping, dailyRuns, latest>> /\ artifacts' = artifacts
    BY <1>9 DEF LoseStep, SkipStep
  <2>2. PICK entry \in EntryType : Behind(c, entry)
    <3>1. artifacts[c] \in FileType \cup {None}
      BY DEF Typed
    <3>2. QED BY <1>9, <3>1 DEF LoseStep, SkipStep, Entry, EntryType, FileType
  <2>3. QED BY <2>1, <2>2, ToldStep
<1>10. QED
  BY <1>2, <1>3, <1>4, <1>5, <1>6, <1>7, <1>8, <1>9 DEF DailyNext

\* The status endpoint and the newest item of the history agree on a run while the files
\* are all of that run, for any endings of its steps, deaths and interruptions
\* (_derive_health_status, _derive_history_component_health).
THEOREM OneAccount == DailySpec => []StatusAgreesWithHistory
<1>1. DailyInit => Told
  BY DEF DailyInit, Told
<1>2. Typed /\ Told => StatusAgreesWithHistory
  <2> DEFINE run == Head(dailyRuns)
             told(c) == CASE c = "pipeline" -> PipelineHealth
                          [] c \in Stages -> StageHealth(c)
                          [] c = "reports" -> ReportHealth
                          [] c = "briefing" -> BriefingHealth
                          [] c = "diff" -> DiffHealth
  <2> SUFFICES ASSUME Typed, Told, latest # None, dailyRuns # <<>>,
                      \A f \in {artifacts[c] : c \in Steps} \cup {latest} :
                        f # None /\ f.run = run.id /\ ~f.stale
               PROVE  OperationalStatus = ItemStatus(run)
    BY DEF StatusAgreesWithHistory
  <2>1. ASSUME NEW c \in Watched
        PROVE  told(c) = RunHealth(run)[c]
    <3>1. CASE c = "pipeline"
      <4>1. told(c) = FileHealth(latest, FALSE)
        BY <3>1 DEF PipelineHealth, PipelineFile, Stages
      <4>2. /\ latest # None /\ latest.run = run.id /\ latest.stale = FALSE
            /\ latest.ready = TRUE /\ latest.status = run.status
        <5>1. latest \in FileType /\ latest.run = run.id /\ ~latest.stale /\ latest.ready
          <6>1. latest \in FileType /\ latest.ready
            BY DEF Told, Typed
          <6>2. \A f \in {latest} : f.run = run.id /\ ~f.stale
            OBVIOUS
          <6>3. QED BY <6>1, <6>2
        <5>2. latest.stale \in BOOLEAN /\ latest.ready \in BOOLEAN
          BY <5>1 DEF FileType
        <5>3. latest.status = run.status
          BY <5>1 DEF Told, Of
        <5>4. QED BY <5>1, <5>2, <5>3
      <4>3. QED BY <3>1, <4>1, <4>2 DEF RunHealth, FileHealth, Health
    <3>2. CASE c # "pipeline"
      <4>1. c \in Steps
        BY <3>2 DEF Watched
      <4>2. /\ artifacts[c] # None /\ artifacts[c].stale = FALSE
            /\ SameAccount(artifacts[c], run.steps[c])
        BY <4>1 DEF Told, Of, Typed, FileType
      <4>3. told(c) = FileHealth(artifacts[c], c = "diff" /\ ~artifacts[c].ready)
        <5>1. CASE c = "diff"
          BY <4>2, <5>1 DEF DiffHealth, DiffFile, Stages
        <5>2. CASE c # "diff"
          BY <3>2, <5>2 DEF Watched, Steps, Stages, Outputs, StageHealth, StageFile,
                            ReportHealth, ReportFile, BriefingHealth, BriefingFile
        <5>3. QED BY <5>1, <5>2
      <4>4. QED BY <3>2, <4>1, <4>2, <4>3 DEF RunHealth, FileHealth, Health, SameAccount
    <3>3. QED BY <3>1, <3>2
  <2>2. RunHealth(run) = [c \in Watched |-> RunHealth(run)[c]]
    BY DEF RunHealth
  <2>3. OperationalStatus = Overall([c \in Watched |-> told(c)])
    BY DEF OperationalStatus
  <2> HIDE DEF told, run
  <2>4. [c \in Watched |-> told(c)] = RunHealth(run)
    BY <2>1, <2>2
  <2>5. QED BY <2>3, <2>4 DEF ItemStatus
<1>3. QED BY <1>1, <1>2, TypedInit, TypedNext, PublishedInit, PublishedNext, ToldNext, PTL DEF DailySpec

-----------------------------------------------------------------------------
(* The trends of the history.                                              *)

\* Of two sets of one size, where more is counted in one something is counted that is
\* not in the other.
LEMMA MoreIsShown ==
  ASSUME NEW now, NEW before, IsFiniteSet(now), IsFiniteSet(before),
         Cardinality(now) = Cardinality(before), NEW A \in SUBSET now, NEW B \in SUBSET before
  PROVE  /\ Cardinality(A) > Cardinality(B) => \E i \in A : \E j \in before : j \notin B
         /\ Cardinality(A) < Cardinality(B) => \E i \in now : i \notin A /\ \E j \in B : TRUE
<1>1. /\ IsFiniteSet(A) /\ Cardinality(A) \in Nat /\ Cardinality(A) <= Cardinality(now)
      /\ IsFiniteSet(B) /\ Cardinality(B) \in Nat /\ Cardinality(B) <= Cardinality(before)
  BY FS_Subset, FS_CardinalityType
<1>2. Cardinality({}) = 0
  BY FS_EmptySet
<1>3. ASSUME Cardinality(A) > Cardinality(B)
      PROVE  A # {} /\ B # before
  BY <1>1, <1>2, <1>3
<1>4. ASSUME Cardinality(A) < Cardinality(B)
      PROVE  B # {} /\ A # now
  BY <1>1, <1>2, <1>4
<1>5. QED BY <1>3, <1>4

LEMMA OverallIs == ASSUME NEW h PROVE Overall(h) \in {"missing", "error", "warning", "ok"}
BY DEF Overall

\* A trend of two full windows by what is counted of each.
LEMMA TrendShown ==
  ASSUME NEW now, NEW before, IsFiniteSet(now), IsFiniteSet(before),
         Cardinality(now) = Cardinality(before), NEW A \in SUBSET now, NEW B \in SUBSET before,
         NEW rank, NEW older, before \subseteq older,
         \A i \in A, j \in before \ B : rank[i] > rank[j],
         \A i \in now \ A, j \in B : rank[i] < rank[j]
  PROVE  Shown(Trend(Cardinality(A), Cardinality(B)), now, older, rank)
BY MoreIsShown DEF Trend, Shown

LEMMA TrendsShown ==
  ASSUME dailyRuns \in Seq(LogType), NEW items \in SUBSET DOMAIN ListedRuns, NEW n \in Nat
  PROVE  /\ Shown(CompareSummary(items, n), CurrentWindow(items, n), items \ CurrentWindow(items, n),
                  [i \in items |-> Rank(ItemStatus(ListedRuns[i]))])
         /\ \A c \in Watched :
              Shown(ComponentTrend(c, items, n), CurrentWindow(items, n), items \ CurrentWindow(items, n),
                    [i \in items |-> IF RunHealth(ListedRuns[i])[c] = "ok" THEN 0 ELSE 1])
<1> DEFINE now == CurrentWindow(items, n)
           before == PreviousWindow(items, n)
           older == items \ now
           rank == [i \in items |-> Rank(ItemStatus(ListedRuns[i]))]
           of(i) == ItemStatus(ListedRuns[i])
<1>1. IsFiniteSet(items)
  <2>1. IsFiniteSet(1 .. Len(dailyRuns))
    BY FS_Interval
  <2>2. QED BY <2>1, FS_Subset DEF ListedRuns
<1>2. /\ now \subseteq items /\ before \subseteq items /\ IsFiniteSet(now) /\ IsFiniteSet(before)
  BY <1>1, FS_Subset DEF CurrentWindow, PreviousWindow
<1>3. before \subseteq older
  <2>1. ASSUME NEW i \in before PROVE i \notin now
    <3>1. NewerThan(items, i) \in n .. 2 * n - 1
      BY DEF PreviousWindow
    <3>2. QED BY <3>1 DEF CurrentWindow
  <2>2. QED BY <1>2, <2>1
<1>4. ASSUME ComparisonReady(items, n) PROVE Cardinality(now) = Cardinality(before)
  BY <1>4 DEF ComparisonReady
<1>5. \A i : of(i) \in {"missing", "error", "warning", "ok"}
  BY OverallIs DEF ItemStatus
<1>6. \A i \in items : rank[i] = Rank(of(i))
  OBVIOUS
<1>7. \A t : t \notin {"improved", "degraded"} => Shown(t, now, older, rank)
  BY DEF Shown
<1>8. ASSUME ComparisonReady(items, n)
      PROVE  /\ Shown(Trend(Severe(now), Severe(before)), now, older, rank)
             /\ Shown(Trend(NotOk(now), NotOk(before)), now, older, rank)
  <2> HIDE DEF now, before, older, rank, of
  <2>1. ASSUME NEW S, S = {"error", "missing"} \/ S = {"error", "missing", "warning"},
               NEW A, A = {i \in now : of(i) \in S}, NEW B, B = {i \in before : of(i) \in S}
        PROVE  Shown(Trend(Cardinality(A), Cardinality(B)), now, older, rank)
    <3>1. \A i \in A, j \in before \ B : rank[i] > rank[j]
      BY <1>2, <1>5, <1>6, <2>1 DEF Rank
    <3>2. \A i \in now \ A, j \in B : rank[i] < rank[j]
      BY <1>2, <1>5, <1>6, <2>1 DEF Rank
    <3>3. A \in SUBSET now /\ B \in SUBSET before
      BY <2>1
    <3>4. QED BY <1>2, <1>3, <1>4, <1>8, <3>1, <3>2, <3>3, TrendShown
  <2>2. /\ Severe(now) = Cardinality({i \in now : of(i) \in {"error", "missing"}})
        /\ Severe(before) = Cardinality({i \in before : of(i) \in {"error", "missing"}})
    BY DEF Severe, of
  <2>3. ASSUME NEW window
        PROVE  NotOk(window) = Cardinality({i \in window : of(i) \in {"error", "missing", "warning"}})
    <3>1. \A i : of(i) # "ok" <=> of(i) \in {"error", "missing", "warning"}
      BY <1>5
    <3>2. {i \in window : of(i) # "ok"} = {i \in window : of(i) \in {"error", "missing", "warning"}}
      BY <3>1
    <3>3. QED BY <3>2 DEF NotOk, of
  <2>4. QED BY <2>1, <2>2, <2>3
<1>9. Shown(CompareSummary(items, n), now, older, rank)
  <2> HIDE DEF rank, older
  <2>1. "insufficient_history" \notin {"improved", "degraded"}
    OBVIOUS
  <2>2. QED BY <1>7, <1>8, <2>1 DEF CompareSummary
<1>10. ASSUME NEW c \in Watched, NEW mark,
              mark = [i \in items |-> IF RunHealth(ListedRuns[i])[c] = "ok" THEN 0 ELSE 1]
       PROVE  Shown(ComponentTrend(c, items, n), now, older, mark)
  <2> DEFINE A == {i \in now : RunHealth(ListedRuns[i])[c] # "ok"}
             B == {i \in before : RunHealth(ListedRuns[i])[c] # "ok"}
  <2>1. /\ \A i \in A, j \in before \ B : mark[i] > mark[j]
        /\ \A i \in now \ A, j \in B : mark[i] < mark[j]
    BY <1>2, <1>10
  <2>2. A \in SUBSET now /\ B \in SUBSET before
    OBVIOUS
  <2>3. NotOkOf(c, now) = Cardinality(A) /\ NotOkOf(c, before) = Cardinality(B)
    BY DEF NotOkOf
  <2> HIDE DEF A, B, now, before, older
  <2>4. ASSUME ComparisonReady(items, n)
        PROVE  Shown(Trend(NotOkOf(c, now), NotOkOf(c, before)), now, older, mark)
    BY <1>2, <1>3, <1>4, <2>1, <2>2, <2>3, <2>4, TrendShown
  <2>5. Shown("insufficient_history", now, older, mark)
    BY DEF Shown
  <2>6. QED BY <2>4, <2>5 DEF ComponentTrend, now, before
<1>11. QED BY <1>9, <1>10

\* For any windows and any history the daily run records, a reported change of a window is
\* the difference of two of its runs (build_operational_status_history_compare).
THEOREM TrendsAreReal == DailySpec => []TrendsAreEarned
<1>1. Typed => TrendsAreEarned
  <2> SUFFICES ASSUME Typed, NEW n \in Windows, NEW s \in {None, "warning"}, NEW f \in {None, "diff"}
      PROVE  LET items == Items(s, f)
                 now == CurrentWindow(items, n)
                 rank == [i \in items |-> Rank(ItemStatus(ListedRuns[i]))]
                 rankOf(c) == [i \in items |-> IF RunHealth(ListedRuns[i])[c] = "ok" THEN 0 ELSE 1]
             IN  /\ Shown(CompareSummary(items, n), now, items \ now, rank)
                 /\ \A c \in Watched : Shown(ComponentTrend(c, items, n), now, items \ now, rankOf(c))
    BY DEF TrendsAreEarned
  <2> DEFINE items == Items(s, f)
  <2>1. items \in SUBSET DOMAIN ListedRuns /\ n \in Nat /\ dailyRuns \in Seq(LogType)
    BY DailyConstantsOK DEF Items, Typed
  <2> HIDE DEF items
  <2>2. QED BY <2>1, TrendsShown DEF items
<1>2. QED BY <1>1, TypedInit, TypedNext, PTL DEF DailySpec

-----------------------------------------------------------------------------
(* The summary of the history.                                             *)

\* A finite count of each member of a set has a largest one.
LEMMA WorstIs ==
  ASSUME NEW S, S # {}, NEW bound \in Nat, NEW count \in [S -> 0 .. bound]
  PROVE  \E c \in S : \A d \in S : count[d] <= count[c]
<1> DEFINE T == {k \in Nat : \E c \in S : bound - count[c] = k}
<1>1. T \in SUBSET Nat /\ T # {}
  OBVIOUS
<1> HIDE DEF T
<1>2. PICK x \in T : \A y \in T : ~(<<y, x>> \in OpToRel(<, Nat))
  BY <1>1, NatLessThanWellFounded, WFMin
<1>3. \A y \in T : ~(y < x)
  BY <1>1, <1>2 DEF OpToRel
<1>4. PICK c \in S : bound - count[c] = x
  BY DEF T
<1>5. ASSUME NEW d \in S PROVE count[d] <= count[c]
  BY <1>3, <1>4 DEF T
<1>6. QED BY <1>5

\* A run is calm exactly when all its components are.
LEMMA CalmRun ==
  ASSUME NEW r
  PROVE  ItemStatus(r) = "ok" <=> \A c \in Watched : RunHealth(r)[c] = "ok"
<1> DEFINE h == RunHealth(r)
<1>1. DOMAIN h = Watched /\ "pipeline" \in Watched /\ Critical \subseteq Watched
  BY DEF RunHealth, Watched, Critical, Steps, Stages, Outputs
<1>2. \A c \in Watched : h[c] \in {"missing", "error", "warning", "ok"}
  BY DEF RunHealth, Health
<1> HIDE DEF h
<1>3. QED BY <1>1, <1>2 DEF ItemStatus, Overall, h

LEMMA TroubleNamed ==
  ASSUME NEW window, IsFiniteSet(window)
  PROVE  /\ SummaryTrend(window) \in {"no_data", "stable"} <=> MostProblematic(window) = {}
         /\ \A f \in Watched : window # {} /\ (\A i \in window : RunHealth(ListedRuns[i])[f] # "ok")
                           => f \in MostProblematic(window)
<1> DEFINE bad(c) == {i \in window : RunHealth(ListedRuns[i])[c] # "ok"}
           ill == {i \in window : ItemStatus(ListedRuns[i]) # "ok"}
<1>1. Cardinality(window) \in Nat /\ Cardinality({}) = 0
  BY FS_CardinalityType, FS_EmptySet
<1>2. ASSUME NEW T \in SUBSET window
      PROVE  /\ Cardinality(T) \in 0 .. Cardinality(window)
             /\ Cardinality(T) = 0 <=> T = {}
  BY FS_Subset, FS_CardinalityType, FS_EmptySet, <1>1
<1>3. \A c : NotOkOf(c, window) = Cardinality(bad(c)) /\ bad(c) \in SUBSET window
  BY DEF NotOkOf
<1>4. NotOk(window) = Cardinality(ill) /\ ill \in SUBSET window
  BY DEF NotOk
<1>5. ill = {} <=> \A c \in Watched : bad(c) = {}
  BY CalmRun
<1> HIDE DEF bad, ill
<1>6. \A c : NotOkOf(c, window) \in 0 .. Cardinality(window) /\ (NotOkOf(c, window) = 0 <=> bad(c) = {})
  BY <1>2, <1>3
<1>7. NotOk(window) = 0 <=> \A c \in Watched : NotOkOf(c, window) = 0
  BY <1>2, <1>4, <1>5, <1>6
<1>8. PICK worst \in Watched : \A d \in Watched : NotOkOf(d, window) <= NotOkOf(worst, window)
  <2>1. Watched # {}
    BY DEF Watched
  <2> DEFINE count == [c \in Watched |-> NotOkOf(c, window)]
  <2>2. count \in [Watched -> 0 .. Cardinality(window)] /\ \A c \in Watched : count[c] = NotOkOf(c, window)
    BY <1>6
  <2> HIDE DEF count
  <2>3. \E c \in Watched : \A d \in Watched : count[d] <= count[c]
    BY ONLY <1>1, <2>1, <2>2, WorstIs
  <2>4. QED BY <2>2, <2>3
<1>9. MostProblematic(window) = {} <=> \A c \in Watched : NotOkOf(c, window) = 0
  BY <1>6, <1>8 DEF MostProblematic
<1>10. window = {} => NotOk(window) = 0
  BY <1>1, <1>4, <1>2
<1>11. SummaryTrend(window) \in {"no_data", "stable"} <=> NotOk(window) = 0
  BY <1>10 DEF SummaryTrend
<1>12. ASSUME NEW f \in Watched, window # {}, \A i \in window : RunHealth(ListedRuns[i])[f] # "ok"
       PROVE  f \in MostProblematic(window)
  <2>1. bad(f) = window
    BY <1>12 DEF bad
  <2>2. NotOkOf(f, window) = Cardinality(window)
    BY <1>3, <2>1
  <2>3. NotOkOf(f, window) > 0
    BY <1>6, <1>12, <2>1
  <2>4. QED BY <1>6, <2>2, <2>3 DEF MostProblematic
<1>13. QED BY <1>7, <1>9, <1>11, <1>12

\* Whatever the history holds, the summary of a window names a component exactly when its
\* trend is not calm, and the one that was asked about is among them
\* (build_operational_status_history_summary).
THEOREM TroubleIsNamed == DailySpec => []TroubleHasAName
<1>1. Typed => TroubleHasAName
  <2> SUFFICES ASSUME Typed, NEW n \in Windows, NEW s \in {None, "warning"}, NEW f \in {None, "diff"},
                      NEW window, window = CurrentWindow(Items(s, f), n)
      PROVE  /\ SummaryTrend(window) \in {"no_data", "stable"} <=> MostProblematic(window) = {}
             /\ f # None /\ window # {} => f \in MostProblematic(window)
    BY DEF TroubleHasAName
  <2>1. window \subseteq DOMAIN ListedRuns
    BY DEF CurrentWindow, Items
  <2>2. IsFiniteSet(window)
    <3>1. IsFiniteSet(DOMAIN ListedRuns)
      BY FS_Interval DEF Typed, ListedRuns
    <3>2. QED BY <2>1, <3>1, FS_Subset
  <2>3. f # None => f \in Watched /\ \A i \in window : RunHealth(ListedRuns[i])[f] # "ok"
    BY DEF Watched, Steps, Outputs, CurrentWindow, Items
  <2>4. QED BY <2>2, <2>3, TroubleNamed
<1>2. QED BY <1>1, TypedInit, TypedNext, PTL DEF DailySpec

-------------------------------------------------------------------------------
(* The sync with Linear.                                                   *)

LEMMA NatMin ==
  ASSUME NEW T \in SUBSET Nat, T # {}
  PROVE  /\ Min(T) \in T /\ \A k \in T : Min(T) <= k
<1>1. PICK x \in T : \A y \in T : ~(<<y, x>> \in OpToRel(<, Nat))
  BY NatLessThanWellFounded, WFMin
<1>2. \A y \in T : ~(y < x)
  BY <1>1 DEF OpToRel
<1>3. \E m \in T : \A k \in T : m <= k
  BY <1>2
<1>4. QED BY <1>3 DEF Min

\* A sequence grows by one, or one of its elements is replaced.
LEMMA AppendIs ==
  ASSUME NEW X, NEW q \in Seq(X), NEW e \in X
  PROVE  /\ Append(q, e) \in Seq(X) /\ Len(Append(q, e)) = Len(q) + 1
         /\ DOMAIN Append(q, e) = DOMAIN q \cup {Len(q) + 1}
         /\ \A i \in DOMAIN q : Append(q, e)[i] = q[i]
         /\ Append(q, e)[Len(q) + 1] = e
OBVIOUS

LEMMA ReplaceIs ==
  ASSUME NEW X, NEW q \in Seq(X), NEW i, NEW e, i \in DOMAIN q => e \in X
  PROVE  /\ [q EXCEPT ![i] = e] \in Seq(X) /\ Len([q EXCEPT ![i] = e]) = Len(q)
         /\ DOMAIN [q EXCEPT ![i] = e] = DOMAIN q
         /\ \A j \in DOMAIN q : [q EXCEPT ![i] = e][j] = IF j = i THEN e ELSE q[j]
<1>1. q \in [1 .. Len(q) -> X] /\ Len(q) \in Nat
  OBVIOUS
<1>2. [q EXCEPT ![i] = e] \in [1 .. Len(q) -> X]
  BY <1>1
<1>3. QED BY <1>1, <1>2

Listed == [text : Texts, kind : Allowed]
Wanting == [text : Texts, state : DOMAIN Kinds, project : {Project}]
Planned == [at : Nat, set : SUBSET Fields, want : Wanting]
Pending == UNION {[S -> Planned] : S \in SUBSET Ids}
SyncState ==
  [step : {"refreshing", "saving", "authorised", "applying"}, token : Nat,
   ops : Pending, quiet : BOOLEAN]
Credentials == [state : {"fresh", "expired", "torn"}, token : Nat]

LinearTyped ==
  /\ catalogue \in [Ids -> Listed \cup {None}]
  /\ remote \in Seq(RemoteIssue \cup {None}) /\ Len(remote) <= MaxRemote
  /\ granted \in Nat
  /\ stored \in Credentials \cup {None}
  /\ syncs \in [Syncer -> SyncState \cup {None}]

LEMMA PendingIs ==
  ASSUME NEW ops \in Pending
  PROVE  /\ DOMAIN ops \subseteq Ids /\ \A sid \in DOMAIN ops : ops[sid] \in Planned
         /\ \A S \in SUBSET DOMAIN ops : [x \in S |-> ops[x]] \in Pending
<1>1. DOMAIN ops \subseteq Ids /\ \A sid \in DOMAIN ops : ops[sid] \in Planned
  BY DEF Pending
<1>2. ASSUME NEW S \in SUBSET DOMAIN ops
      PROVE  [x \in S |-> ops[x]] \in Pending
  <2>1. [x \in S |-> ops[x]] \in [S -> Planned] /\ S \in SUBSET Ids
    BY <1>1
  <2>2. QED BY <2>1 DEF Pending
<1>3. QED BY <1>1, <1>2

LEMMA StandingIs ==
  ASSUME NEW step \in {"refreshing", "saving", "authorised", "applying"}
  PROVE  /\ Standing(step) \in SyncState /\ Standing(step).step = step
         /\ DOMAIN Standing(step).ops = {}
<1>1. NoOps \in [{} -> Planned] /\ {} \in SUBSET Ids /\ DOMAIN NoOps = {}
  BY DEF NoOps
<1>2. NoOps \in Pending
  BY <1>1 DEF Pending
<1>3. QED BY <1>1, <1>2 DEF Standing, SyncState

\* The state wanted is one of its type.
LEMMA StateIs ==
  ASSUME NEW kind
  PROVE  /\ StateOf(kind) \in Nat
         /\ StateOf(kind) # 0 => StateOf(kind) \in DOMAIN Kinds /\ Kinds[StateOf(kind)] = kind
<1> DEFINE S == {i \in DOMAIN Kinds : Kinds[i] = kind}
<1>1. S \in SUBSET Nat
  BY LinearConstantsOK
<1>2. CASE S = {}
  BY <1>2 DEF StateOf, ToSet
<1>3. CASE S # {}
  <2>1. Min(S) \in S
    BY <1>1, <1>3, NatMin
  <2>2. kind \in ToSet(Kinds)
    BY <1>3 DEF ToSet
  <2>3. QED BY <1>1, <2>1, <2>2 DEF StateOf
<1>4. QED BY <1>2, <1>3

\* An operation creates the issue, or updates one that has the sync id.
LEMMA OperationIs ==
  ASSUME LinearTyped, NEW page \in SUBSET WithMarker, Plannable(page),
         NEW sid \in Ids, catalogue[sid] # None
  PROVE  /\ Operation(page, sid) \in Planned
         /\ Operation(page, sid).want = Wanted(catalogue, sid)
         /\ Match(page, sid) = {} => Operation(page, sid).at = 0 /\ Operation(page, sid).set # {}
         /\ Match(page, sid) # {} =>
              /\ Operation(page, sid).at \in page /\ Operation(page, sid).at # 0
              /\ remote[Operation(page, sid).at].sid = sid
              /\ Operation(page, sid).set
                   = Drift(remote[Operation(page, sid).at], Wanted(catalogue, sid))
<1>1. catalogue[sid] \in Listed
  BY DEF LinearTyped
<1>2. Wanted(catalogue, sid) \in Wanting
  BY <1>1, StateIs DEF Wanted, Wanting, Listed, Plannable
<1>3. CASE Match(page, sid) = {}
  BY <1>2, <1>3 DEF Operation, Planned, Fields
<1>4. CASE Match(page, sid) # {}
  <2>1. Match(page, sid) \in SUBSET Nat /\ Match(page, sid) \in SUBSET page /\ 0 \notin page
    BY DEF Match, WithMarker, LinearTyped
  <2>2. Min(Match(page, sid)) \in Match(page, sid)
    BY <1>4, <2>1, NatMin
  <2> DEFINE i == Min(Match(page, sid))
  <2>3. Operation(page, sid) = [at |-> i, set |-> Drift(remote[i], Wanted(catalogue, sid)),
                                want |-> Wanted(catalogue, sid)]
    BY <1>4 DEF Operation
  <2>4. Drift(remote[i], Wanted(catalogue, sid)) \subseteq Fields
    BY DEF Drift
  <2>5. i \in page /\ i # 0 /\ i \in Nat /\ remote[i].sid = sid
    BY <2>1, <2>2 DEF Match
  <2> HIDE DEF i
  <2>6. QED BY <1>2, <1>4, <2>3, <2>4, <2>5 DEF Planned
<1>5. QED BY <1>3, <1>4

LEMMA PlanIs ==
  ASSUME LinearTyped, NEW page \in SUBSET WithMarker, Plannable(page)
  PROVE  /\ Plan(page) \in Pending
         /\ \A sid \in Ids : sid \in DOMAIN Plan(page) <=>
                               catalogue[sid] # None /\ Operation(page, sid).set # {}
         /\ \A sid \in DOMAIN Plan(page) : Plan(page)[sid] = Operation(page, sid)
<1> DEFINE S == {x \in Ids : catalogue[x] # None /\ Operation(page, x).set # {}}
<1>1. Plan(page) = [sid \in S |-> Operation(page, sid)]
  BY DEF Plan
<1>2. \A sid \in S : Operation(page, sid) \in Planned
  BY OperationIs
<1>3. Plan(page) \in [S -> Planned] /\ S \in SUBSET Ids
  BY <1>1, <1>2
<1>4. QED BY <1>1, <1>3 DEF Pending

-------------------------------------------------------------------------------
Held(s) == syncs[s] # None /\ syncs[s].step = "applying"
AppliesOne(s, sid) ==
  LET op == syncs[s].ops[sid] IN
  /\ Held(s) /\ sid \in DOMAIN syncs[s].ops
  /\ IF op.at = 0 THEN Len(remote) < MaxRemote ELSE remote[op.at] # None
  /\ remote' = Mutated(sid, op)
  /\ \/ syncs' = [Disturbed(s) EXCEPT ![s].ops = [x \in DOMAIN @ \ {sid} |-> @[x]]]
     \/ syncs' = [Disturbed(s) EXCEPT ![s] = None]
  /\ UNCHANGED <<catalogue, granted, stored>>

LEMMA Applies ==
  ASSUME LinearTyped, NEW s \in Syncer, ApplyNext(s)
  PROVE  \E sid \in Ids : AppliesOne(s, sid)
<1>1. PICK sid \in Foremost(syncs[s].ops) :
        LET op == syncs[s].ops[sid] IN
        /\ IF op.at = 0 THEN Len(remote) < MaxRemote ELSE remote[op.at] # None
        /\ remote' = Mutated(sid, op)
        /\ \/ syncs' = [Disturbed(s) EXCEPT ![s].ops = [x \in DOMAIN @ \ {sid} |-> @[x]]]
           \/ syncs' = [Disturbed(s) EXCEPT ![s] = None]
  BY DEF ApplyNext
<1>2. sid \in DOMAIN syncs[s].ops
  BY DEF Foremost
<1>3. Held(s) /\ sid \in Ids
  <2>1. Held(s) /\ syncs[s].ops \in Pending
    BY DEF ApplyNext, Held, LinearTyped, SyncState
  <2>2. QED BY <1>2, <2>1, PendingIs
<1>4. AppliesOne(s, sid)
  BY <1>1, <1>2, <1>3 DEF AppliesOne, ApplyNext
<1>5. QED BY <1>3, <1>4

\* What the others make of it: they are under way as before, or no longer quiet.
LEMMA OthersDisturbed ==
  ASSUME LinearTyped, NEW but
  PROVE  /\ Disturbed(but) \in [Syncer -> SyncState \cup {None}]
         /\ \A r \in Syncer : r # but => \/ Disturbed(but)[r] = None
                                         \/ ~Disturbed(but)[r].quiet
         /\ \A r \in Syncer : Disturbed(but)[r] # None =>
              /\ syncs[r] # None /\ Disturbed(but)[r].step = syncs[r].step
              /\ Disturbed(but)[r].ops = syncs[r].ops
         /\ \A r \in Syncer : r = but => Disturbed(but)[r] = syncs[r]
<1>1. \A r \in Syncer : syncs[r] # None =>
        /\ syncs[r] \in SyncState
        /\ [syncs[r] EXCEPT !.quiet = FALSE] \in SyncState
        /\ ~[syncs[r] EXCEPT !.quiet = FALSE].quiet
        /\ [syncs[r] EXCEPT !.quiet = FALSE].step = syncs[r].step
        /\ [syncs[r] EXCEPT !.quiet = FALSE].ops = syncs[r].ops
  BY DEF LinearTyped, SyncState
<1>2. QED BY <1>1 DEF Disturbed, LinearTyped

LEMMA MutatedIs ==
  ASSUME LinearTyped, NEW s \in Syncer, NEW sid \in Ids, AppliesOne(s, sid)
  PROVE  /\ syncs[s].ops[sid] \in Planned
         /\ remote' \in Seq(RemoteIssue \cup {None}) /\ Len(remote') <= MaxRemote
         /\ DOMAIN remote \subseteq DOMAIN remote'
         /\ syncs[s].ops[sid].at = 0 =>
              /\ DOMAIN remote' = DOMAIN remote \cup {Len(remote) + 1}
              /\ \A i \in DOMAIN remote : remote'[i] = remote[i]
              /\ remote'[Len(remote) + 1] =
                   [sid |-> sid, text |-> syncs[s].ops[sid].want.text,
                    state |-> syncs[s].ops[sid].want.state, project |-> Project]
              /\ remote'[Len(remote) + 1] \in RemoteIssue
         /\ syncs[s].ops[sid].at # 0 =>
              LET i == syncs[s].ops[sid].at IN
              /\ DOMAIN remote' = DOMAIN remote
              /\ \A j \in DOMAIN remote : j # i => remote'[j] = remote[j]
              /\ i \in DOMAIN remote =>
                   /\ remote[i] \in RemoteIssue /\ remote'[i] \in RemoteIssue
                   /\ remote'[i].sid = remote[i].sid
                   /\ remote'[i].text = IF "text" \in syncs[s].ops[sid].set
                                        THEN syncs[s].ops[sid].want.text ELSE remote[i].text
                   /\ remote'[i].state = IF "state" \in syncs[s].ops[sid].set
                                         THEN syncs[s].ops[sid].want.state ELSE remote[i].state
                   /\ remote'[i].project = IF "project" \in syncs[s].ops[sid].set
                                           THEN Project ELSE remote[i].project
<1> DEFINE op == syncs[s].ops[sid]
<1>1. syncs[s].ops \in Pending /\ sid \in DOMAIN syncs[s].ops
  BY DEF AppliesOne, Held, LinearTyped, SyncState
<1>2. op \in Planned
  BY <1>1, PendingIs
<1>3. /\ op.at \in Nat /\ op.set \subseteq Fields /\ op.want.text \in Texts /\ op.want.state \in DOMAIN Kinds
      /\ op.want.project = Project
  BY <1>2 DEF Planned, Wanting
<1>4. /\ IF op.at = 0 THEN Len(remote) < MaxRemote ELSE remote[op.at] # None
      /\ remote' = Mutated(sid, op)
      /\ remote \in Seq(RemoteIssue \cup {None}) /\ Len(remote) <= MaxRemote /\ MaxRemote \in Nat
  BY LinearConstantsOK DEF AppliesOne, LinearTyped
<1> HIDE DEF op
<1>5. CASE op.at = 0
  <2>1. Created(sid, op.want) \in RemoteIssue
    BY <1>3 DEF RemoteIssue, Created
  <2>2. remote' = Append(remote, Created(sid, op.want))
    BY <1>4, <1>5 DEF Mutated
  <2>3. /\ remote' \in Seq(RemoteIssue \cup {None}) /\ Len(remote') = Len(remote) + 1
        /\ \A i \in DOMAIN remote : remote'[i] = remote[i] /\ i \in DOMAIN remote'
        /\ remote'[Len(remote) + 1] = Created(sid, op.want)
        /\ DOMAIN remote' = DOMAIN remote \cup {Len(remote) + 1}
    <3>1. Created(sid, op.want) \in RemoteIssue \cup {None} /\ remote \in Seq(RemoteIssue \cup {None})
      BY <1>4, <2>1
    <3>2. QED BY <2>2, <3>1, AppendIs
  <2>4. QED BY <1>2, <1>3, <1>4, <1>5, <2>1, <2>3 DEF op, Created
<1>6. CASE op.at # 0
  <2> DEFINE i == op.at
             issue == Revised(remote[i], op)
  <2>1. remote' = [remote EXCEPT ![i] = issue]
    BY <1>4, <1>6 DEF Mutated
  <2>2. remote[i] # None
    BY <1>4, <1>6
  <2>3. i \in DOMAIN remote =>
          /\ remote[i] \in RemoteIssue /\ issue \in RemoteIssue /\ issue.sid = remote[i].sid
          /\ issue.text = IF "text" \in op.set THEN op.want.text ELSE remote[i].text
          /\ issue.state = IF "state" \in op.set THEN op.want.state ELSE remote[i].state
          /\ issue.project = IF "project" \in op.set THEN Project ELSE remote[i].project
    <3>1. i \in DOMAIN remote => remote[i] \in RemoteIssue
      BY <1>4, <2>2
    <3>2. QED BY <1>3, <3>1 DEF RemoteIssue, Revised
  <2> HIDE DEF issue
  <2>4. /\ remote' \in Seq(RemoteIssue \cup {None}) /\ Len(remote') = Len(remote)
        /\ DOMAIN remote' = DOMAIN remote
        /\ \A j \in DOMAIN remote : remote'[j] = IF j = i THEN issue ELSE remote[j]
    <3>1. i \in DOMAIN remote => issue \in RemoteIssue \cup {None}
      BY <2>3
    <3>2. remote \in Seq(RemoteIssue \cup {None})
      BY <1>4
    <3> HIDE DEF i
    <3>3. QED BY <2>1, <3>1, <3>2, ReplaceIs
  <2>5. QED BY <1>2, <1>4, <1>6, <2>3, <2>4 DEF op
<1>7. QED BY <1>5, <1>6

\* How the operations left shrink.
LEMMA AppliedIs ==
  ASSUME LinearTyped, NEW s \in Syncer, NEW sid \in Ids, AppliesOne(s, sid)
  PROVE  /\ syncs' \in [Syncer -> SyncState \cup {None}]
         /\ \A r \in Syncer \ {s} : syncs'[r] = Disturbed(s)[r]
         /\ syncs'[s] # None =>
              /\ syncs'[s].step = "applying" /\ syncs'[s].quiet = syncs[s].quiet
              /\ DOMAIN syncs'[s].ops = DOMAIN syncs[s].ops \ {sid}
              /\ \A x \in DOMAIN syncs'[s].ops : syncs'[s].ops[x] = syncs[s].ops[x]
<1> DEFINE d == Disturbed(s)
           rest == [x \in DOMAIN syncs[s].ops \ {sid} |-> syncs[s].ops[x]]
           left == [syncs[s] EXCEPT !.ops = rest]
<1>1. d \in [Syncer -> SyncState \cup {None}] /\ d[s] = syncs[s]
  BY OthersDisturbed
<1>2. /\ syncs[s] \in SyncState /\ syncs[s].step = "applying" /\ syncs[s].ops \in Pending
  BY DEF AppliesOne, Held, LinearTyped, SyncState
<1>3. rest \in Pending
  BY <1>2, PendingIs
<1>4. /\ DOMAIN rest = DOMAIN syncs[s].ops \ {sid}
      /\ \A x \in DOMAIN rest : rest[x] = syncs[s].ops[x]
  OBVIOUS
<1>5. syncs' = [d EXCEPT ![s] = [d[s] EXCEPT !.ops = [x \in DOMAIN d[s].ops \ {sid} |-> d[s].ops[x]]]]
      \/ syncs' = [d EXCEPT ![s] = None]
  BY DEF AppliesOne
<1>6. syncs' = [d EXCEPT ![s] = left] \/ syncs' = [d EXCEPT ![s] = None]
  BY <1>1, <1>5, Zenon
<1> HIDE DEF d, rest
<1>7. left \in SyncState /\ left.step = "applying" /\ left.quiet = syncs[s].quiet /\ left.ops = rest
  BY <1>2, <1>3 DEF SyncState
<1> HIDE DEF left
<1>8. /\ syncs' \in [Syncer -> SyncState \cup {None}]
      /\ \A r \in Syncer \ {s} : syncs'[r] = d[r]
      /\ syncs'[s] # None => syncs'[s] = left
  BY <1>1, <1>6, <1>7
<1>9. QED BY <1>4, <1>7, <1>8 DEF d

\* A step of one command that leaves the catalogue and the issues alone.
Proceeds(s, to) ==
  /\ syncs' = [syncs EXCEPT ![s] = to]
  /\ UNCHANGED <<catalogue, remote>>

\* What a step of a command other than a mutation makes of it.
LEMMA Proceeding ==
  ASSUME LinearTyped, NEW s \in Syncer,
         \/ Authorise(s) \/ Refresh(s) \/ Save(s) \/ (\E apply \in BOOLEAN : ReadAndPlan(s, apply))
         \/ EndsShort(s) \/ Report(s)
  PROVE  \E to \in SyncState \cup {None} :
           /\ Proceeds(s, to)
           /\ \/ to = None \/ to.step # "applying"
              \/ \E page \in SUBSET WithMarker :
                   /\ Cardinality(page) = Min({PageSize, Cardinality(WithMarker)})
                   /\ Plannable(page) /\ to.step = "applying" /\ to.ops = Plan(page)
<1>1. CASE EndsShort(s) \/ Report(s)
  BY <1>1 DEF EndsShort, Report, Goes, Proceeds
<1>2. CASE Authorise(s)
  <2>1. CASE Goes(s, Standing("authorised"))
    BY <1>2, <2>1, StandingIs DEF Authorise, Goes, Proceeds
  <2>2. CASE stored # None /\ \E step \in {"authorised", "refreshing"} :
               Goes(s, [Standing(step) EXCEPT !.token = stored.token])
    <3>1. PICK step \in {"authorised", "refreshing"} :
            Goes(s, [Standing(step) EXCEPT !.token = stored.token])
      BY <2>2
    <3>2. stored.token \in Nat
      BY <2>2 DEF LinearTyped, Credentials
    <3>3. /\ [Standing(step) EXCEPT !.token = stored.token] \in SyncState
          /\ [Standing(step) EXCEPT !.token = stored.token].step # "applying"
      BY <3>2, StandingIs DEF SyncState
    <3>4. QED BY <1>2, <3>1, <3>3 DEF Authorise, Goes, Proceeds
  <2>3. QED BY <1>2, <2>1, <2>2 DEF Authorise
<1>3. CASE Refresh(s)
  <2>1. CASE syncs[s].token = granted /\ granted < MaxTokens
    <3>1. /\ [Standing("saving") EXCEPT !.token = granted + 1] \in SyncState
          /\ [Standing("saving") EXCEPT !.token = granted + 1].step # "applying"
      BY StandingIs DEF SyncState, LinearTyped
    <3>2. QED BY <1>3, <2>1, <3>1 DEF Refresh, Goes, Proceeds
  <2>2. CASE ~(syncs[s].token = granted /\ granted < MaxTokens)
    BY <1>3, <2>2 DEF Refresh, Goes, Proceeds
  <2>3. QED BY <2>1, <2>2
<1>4. CASE Save(s)
  <2>1. syncs[s].token \in Nat
    BY <1>4 DEF Save, LinearTyped, SyncState
  <2>2. /\ [Standing("authorised") EXCEPT !.token = syncs[s].token] \in SyncState
        /\ [Standing("authorised") EXCEPT !.token = syncs[s].token].step # "applying"
    BY <2>1, StandingIs DEF SyncState
  <2>3. CASE Goes(s, None)
    BY <1>4, <2>3 DEF Save, Goes, Proceeds
  <2>4. CASE Goes(s, [Standing("authorised") EXCEPT !.token = syncs[s].token])
    BY <1>4, <2>2, <2>4 DEF Save, Goes, Proceeds
  <2>5. QED BY <1>4, <2>3, <2>4 DEF Save
<1>5. ASSUME NEW apply \in BOOLEAN, ReadAndPlan(s, apply)
      PROVE  \E to \in SyncState \cup {None} :
               /\ Proceeds(s, to)
               /\ \/ to = None \/ to.step # "applying"
                  \/ \E page \in SUBSET WithMarker :
                       /\ Cardinality(page) = Min({PageSize, Cardinality(WithMarker)})
                       /\ Plannable(page) /\ to.step = "applying" /\ to.ops = Plan(page)
  <2>1. PICK page \in SUBSET WithMarker :
          /\ Cardinality(page) = Min({PageSize, Cardinality(WithMarker)})
          /\ IF apply /\ Plannable(page) /\ syncs[s].token \in {0, granted}
             THEN Goes(s, [Standing("applying") EXCEPT !.ops = Plan(page)])
             ELSE Goes(s, None)
    BY <1>5 DEF ReadAndPlan
  <2>2. UNCHANGED <<catalogue, remote>>
    BY <1>5 DEF ReadAndPlan
  <2>3. CASE Plannable(page) /\ Goes(s, [Standing("applying") EXCEPT !.ops = Plan(page)])
    <3> DEFINE to == [Standing("applying") EXCEPT !.ops = Plan(page)]
    <3>1. Plan(page) \in Pending
      BY <2>3, PlanIs
    <3>2. to \in SyncState /\ to.step = "applying" /\ to.ops = Plan(page)
      BY <3>1, StandingIs DEF SyncState
    <3>3. Proceeds(s, to)
      BY <2>2, <2>3 DEF Goes, Proceeds
    <3> HIDE DEF to
    <3>4. QED BY <2>1, <2>3, <3>2, <3>3
  <2>4. CASE Goes(s, None)
    BY <2>2, <2>4 DEF Goes, Proceeds
  <2>5. QED BY <2>1, <2>3, <2>4
<1>6. QED BY <1>1, <1>2, <1>3, <1>4, <1>5

LEMMA LinearStart == LinearInit => LinearTyped
<1> SUFFICES ASSUME LinearInit
             PROVE  LinearTyped
  OBVIOUS
<1>1. <<>> \in Seq(RemoteIssue \cup {None}) /\ Len(<<>>) = 0
  OBVIOUS
<1>2. QED BY <1>1, LinearConstantsOK DEF LinearInit, LinearTyped

LEMMA EditedRemote ==
  ASSUME LinearTyped, NEW i \in DOMAIN remote, EditRemote(i)
  PROVE  /\ remote' \in Seq(RemoteIssue \cup {None}) /\ Len(remote') = Len(remote)
         /\ DOMAIN remote' = DOMAIN remote
         /\ \A j \in WithMarker' : j \in WithMarker /\ remote'[j].sid = remote[j].sid
<1>1. /\ remote[i] \in RemoteIssue /\ remote[i] # None
      /\ remote \in Seq(RemoteIssue \cup {None})
  BY DEF EditRemote, LinearTyped
<1>2. PICK new \in RemoteIssue \cup {None} :
        /\ remote' = [remote EXCEPT ![i] = new]
        /\ new # None /\ new.sid # None => new.sid = remote[i].sid
  <2>1. \/ \E text \in Texts : remote' = [remote EXCEPT ![i] = [remote[i] EXCEPT !.text = text]]
        \/ \E k \in DOMAIN Kinds : remote' = [remote EXCEPT ![i] = [remote[i] EXCEPT !.state = k]]
        \/ remote' = [remote EXCEPT ![i] = [remote[i] EXCEPT !.project = None]]
        \/ remote' = [remote EXCEPT ![i] = [remote[i] EXCEPT !.sid = None]]
        \/ remote' = [remote EXCEPT ![i] = None]
    BY DEF EditRemote
  <2>2. /\ \A text \in Texts : /\ [remote[i] EXCEPT !.text = text] \in RemoteIssue
                              /\ [remote[i] EXCEPT !.text = text].sid = remote[i].sid
        /\ \A k \in DOMAIN Kinds : /\ [remote[i] EXCEPT !.state = k] \in RemoteIssue
                                  /\ [remote[i] EXCEPT !.state = k].sid = remote[i].sid
    BY <1>1 DEF RemoteIssue
  <2>3. /\ [remote[i] EXCEPT !.project = None] \in RemoteIssue
        /\ [remote[i] EXCEPT !.project = None].sid = remote[i].sid
        /\ [remote[i] EXCEPT !.sid = None] \in RemoteIssue
        /\ [remote[i] EXCEPT !.sid = None].sid = None
    BY <1>1 DEF RemoteIssue
  <2>4. \/ \E new \in RemoteIssue : /\ remote' = [remote EXCEPT ![i] = new]
                                   /\ new.sid \in {None, remote[i].sid}
        \/ remote' = [remote EXCEPT ![i] = None]
    <3>1. CASE \E text \in Texts : remote' = [remote EXCEPT ![i] = [remote[i] EXCEPT !.text = text]]
      BY <2>2, <3>1
    <3>2. CASE \E k \in DOMAIN Kinds : remote' = [remote EXCEPT ![i] = [remote[i] EXCEPT !.state = k]]
      BY <2>2, <3>2
    <3>3. CASE \/ remote' = [remote EXCEPT ![i] = [remote[i] EXCEPT !.project = None]]
               \/ remote' = [remote EXCEPT ![i] = [remote[i] EXCEPT !.sid = None]]
      BY <2>3, <3>3
    <3>4. QED BY <2>1, <3>1, <3>2, <3>3
  <2>5. QED BY <2>4
<1>3. /\ remote' \in Seq(RemoteIssue \cup {None}) /\ Len(remote') = Len(remote)
      /\ DOMAIN remote' = DOMAIN remote
      /\ \A j \in DOMAIN remote : remote'[j] = IF j = i THEN new ELSE remote[j]
  BY <1>1, <1>2, ReplaceIs
<1>4. QED BY <1>1, <1>2, <1>3 DEF WithMarker

LEMMA LinearTypes == LinearTyped /\ [LinearNext]_linearVars => LinearTyped'
<1> SUFFICES ASSUME LinearTyped, [LinearNext]_linearVars
             PROVE  LinearTyped'
  OBVIOUS
<1>1. CASE Login \/ TokenExpires \/ StartTriage \/ UNCHANGED linearVars
  <2>1. stored' \in Credentials \cup {None} /\ granted' \in Nat
    BY <1>1 DEF Login, TokenExpires, StartTriage, linearVars, LinearTyped, Credentials
  <2>2. UNCHANGED <<catalogue, remote, syncs>>
    BY <1>1 DEF Login, TokenExpires, StartTriage, linearVars
  <2>3. QED BY <2>1, <2>2 DEF LinearTyped
<1>2. ASSUME NEW sid \in Ids, EditCatalogue(sid)
      PROVE  LinearTyped'
  <2>1. PICK text \in Texts, kind \in Allowed :
          catalogue' = [catalogue EXCEPT ![sid] = [text |-> text, kind |-> kind]]
    BY <1>2 DEF EditCatalogue
  <2>2. [text |-> text, kind |-> kind] \in Listed
    BY DEF Listed
  <2>3. syncs' \in [Syncer -> SyncState \cup {None}]
    BY <1>2, OthersDisturbed DEF EditCatalogue
  <2>4. QED BY <1>2, <2>1, <2>2, <2>3 DEF EditCatalogue, LinearTyped
<1>3. ASSUME NEW i \in DOMAIN remote, EditRemote(i)
      PROVE  LinearTyped'
  <2>1. syncs' \in [Syncer -> SyncState \cup {None}]
    BY <1>3, OthersDisturbed DEF EditRemote
  <2>2. QED BY <1>3, <2>1, EditedRemote DEF EditRemote, LinearTyped
<1>4. ASSUME NEW s \in Syncer, ApplyNext(s)
      PROVE  LinearTyped'
  <2>1. PICK sid \in Ids : AppliesOne(s, sid)
    BY <1>4, Applies
  <2>2. QED BY <2>1, AppliedIs, MutatedIs DEF AppliesOne, LinearTyped
<1>5. ASSUME NEW s \in Syncer,
             \/ Authorise(s) \/ Refresh(s) \/ Save(s) \/ (\E apply \in BOOLEAN : ReadAndPlan(s, apply))
             \/ EndsShort(s) \/ Report(s)
      PROVE  LinearTyped'
  <2>1. PICK to \in SyncState \cup {None} : Proceeds(s, to)
    BY <1>5, Proceeding
  <2>2. /\ syncs' \in [Syncer -> SyncState \cup {None}] /\ UNCHANGED <<catalogue, remote>>
    BY <2>1 DEF Proceeds, LinearTyped
  <2>3. granted' \in Nat
    BY <1>5 DEF Authorise, Refresh, Save, ReadAndPlan, EndsShort, Report, LinearTyped
  <2>4. stored' \in Credentials \cup {None}
    <3>1. CASE Save(s)
      BY <3>1 DEF Save, LinearTyped, SyncState, Credentials
    <3>2. CASE stored' = stored
      BY <3>2 DEF LinearTyped
    <3>3. QED BY <1>5, <3>1, <3>2 DEF Authorise, Refresh, ReadAndPlan, EndsShort, Report
  <2>5. QED BY <2>2, <2>3, <2>4 DEF LinearTyped
<1>6. QED BY <1>1, <1>2, <1>3, <1>4, <1>5 DEF LinearNext

-------------------------------------------------------------------------------
(* A sync that reports has left everything in sync.                        *)

SaysTheSame(i, sid) ==
  /\ i \in WithMarker /\ remote[i].sid = sid
  /\ remote[i].text = catalogue[sid].text
  /\ Kinds[remote[i].state] = catalogue[sid].kind
  /\ Project # None => remote[i].project = Project

\* The operation that is left for an entry is still the one that it needs.
StillRight(op, sid) ==
  /\ op.want = Wanted(catalogue, sid) /\ op.want.state # 0
  /\ op.at # 0 => /\ op.at \in WithMarker /\ remote[op.at].sid = sid
                  /\ op.set = Drift(remote[op.at], op.want)

Covered(s, sid) ==
  \/ sid \in DOMAIN syncs[s].ops /\ StillRight(syncs[s].ops[sid], sid)
  \/ sid \notin DOMAIN syncs[s].ops /\ \E i \in WithMarker : SaysTheSame(i, sid)

Aligned ==
  \A s \in Syncer : Held(s) /\ syncs[s].quiet =>
    \A sid \in Ids : /\ catalogue[sid] # None => Covered(s, sid)
                     /\ sid \in DOMAIN syncs[s].ops => catalogue[sid] # None

\* An issue with no drift says what the entry says.
LEMMA NoDrift ==
  ASSUME NEW sid \in Ids, NEW i \in WithMarker, remote[i].sid = sid,
         StateOf(catalogue[sid].kind) # 0,
         \/ Drift(remote[i], Wanted(catalogue, sid)) = {}
         \/ /\ remote[i].text = catalogue[sid].text
            /\ remote[i].state = StateOf(catalogue[sid].kind)
            /\ Project # None => remote[i].project = Project
  PROVE  SaysTheSame(i, sid)
<1>1. /\ remote[i].text = catalogue[sid].text
      /\ remote[i].state = StateOf(catalogue[sid].kind)
      /\ Project # None => remote[i].project = Project
  BY DEF Drift, Wanted, Fields
<1>2. Kinds[remote[i].state] = catalogue[sid].kind
  BY <1>1, StateIs
<1>3. QED BY <1>1, <1>2 DEF SaysTheSame

\* What a sync plans covers every entry of the catalogue.
LEMMA PlanCovers ==
  ASSUME LinearTyped, NEW page \in SUBSET WithMarker, Plannable(page),
         NEW sid \in Ids, catalogue[sid] # None
  PROVE  \/ sid \in DOMAIN Plan(page) /\ StillRight(Plan(page)[sid], sid)
         \/ sid \notin DOMAIN Plan(page) /\ \E i \in WithMarker : SaysTheSame(i, sid)
<1> DEFINE op == Operation(page, sid)
<1>1. StateOf(catalogue[sid].kind) # 0 /\ op.want = Wanted(catalogue, sid)
  BY OperationIs DEF Plannable
<1>2. op.want.state # 0
  BY <1>1 DEF Wanted
<1>3. CASE op.set = {}
  <2>1. /\ op.at \in WithMarker /\ remote[op.at].sid = sid
        /\ Drift(remote[op.at], Wanted(catalogue, sid)) = {}
    BY <1>3, OperationIs
  <2>2. SaysTheSame(op.at, sid)
    BY <1>1, <2>1, NoDrift
  <2>3. sid \notin DOMAIN Plan(page)
    BY <1>3, PlanIs
  <2>4. QED BY <2>1, <2>2, <2>3
<1>4. CASE op.set # {}
  <2>1. sid \in DOMAIN Plan(page) /\ Plan(page)[sid] = op
    BY <1>4, PlanIs
  <2>2. op.at # 0 => /\ op.at \in WithMarker /\ remote[op.at].sid = sid
                     /\ op.set = Drift(remote[op.at], op.want)
    BY <1>1, OperationIs
  <2>3. QED BY <1>1, <1>2, <2>1, <2>2 DEF StillRight
<1>5. QED BY <1>3, <1>4

\* A mutation brings its entry in step and leaves the others covered.
LEMMA MutationCovers ==
  ASSUME LinearTyped, Aligned, NEW s \in Syncer, NEW done \in Ids, AppliesOne(s, done),
         syncs'[s] # None, syncs'[s].quiet,
         NEW sid \in Ids, catalogue[sid] # None
  PROVE  Covered(s, sid)'
<1> DEFINE op == syncs[s].ops[done]
<1>1. /\ Held(s) /\ syncs[s].quiet /\ done \in DOMAIN syncs[s].ops
      /\ DOMAIN syncs'[s].ops = DOMAIN syncs[s].ops \ {done}
      /\ \A x \in DOMAIN syncs'[s].ops : syncs'[s].ops[x] = syncs[s].ops[x]
      /\ catalogue' = catalogue
  BY AppliedIs DEF AppliesOne
<1>2. Covered(s, sid)
  BY <1>1 DEF Aligned
<1>3. remote \in Seq(RemoteIssue \cup {None}) /\ None \notin RemoteIssue /\ None \notin Ids
  BY LinearConstantsOK DEF LinearTyped
<1>4. CASE sid = done
  <2>1. /\ StillRight(op, sid) /\ StateOf(catalogue[sid].kind) # 0
        /\ op.want.text = catalogue[sid].text /\ op.want.state = StateOf(catalogue[sid].kind)
    BY <1>1, <1>2, <1>4 DEF Covered, StillRight, Wanted
  <2>2. ASSUME NEW i \in WithMarker', remote'[i].sid = sid,
               /\ remote'[i].text = catalogue[sid].text
               /\ remote'[i].state = StateOf(catalogue[sid].kind)
               /\ Project # None => remote'[i].project = Project
        PROVE  Covered(s, sid)'
    <3>1. Kinds[remote'[i].state] = catalogue[sid].kind
      BY <2>1, <2>2, StateIs
    <3>2. SaysTheSame(i, sid)'
      BY <1>1, <2>2, <3>1 DEF SaysTheSame
    <3>3. QED BY <1>1, <1>4, <3>2 DEF Covered
  <2>3. CASE op.at = 0
    <3> DEFINE i == Len(remote) + 1
    <3>1. /\ i \in DOMAIN remote' /\ remote'[i] \in RemoteIssue
          /\ remote'[i] = [sid |-> sid, text |-> op.want.text, state |-> op.want.state,
                            project |-> Project]
      BY <1>4, <2>3, MutatedIs
    <3>2. /\ remote'[i].sid = sid /\ remote'[i].text = op.want.text
          /\ remote'[i].state = op.want.state /\ remote'[i].project = Project
      BY <3>1
    <3>3. i \in WithMarker'
      BY <1>3, <3>1, <3>2 DEF WithMarker
    <3>4. QED BY <2>1, <2>2, <3>2, <3>3
  <2>4. CASE op.at # 0
    <3> DEFINE i == op.at
    <3>1. /\ i \in WithMarker /\ remote[i].sid = sid /\ op.set = Drift(remote[i], op.want)
          /\ op.want.project = Project
      BY <2>1, <2>4 DEF StillRight, Wanted
    <3>2. i \in DOMAIN remote
      BY <3>1 DEF WithMarker
    <3>3. /\ DOMAIN remote' = DOMAIN remote
          /\ remote'[i] \in RemoteIssue /\ remote'[i].sid = sid
          /\ remote'[i].text = IF "text" \in op.set THEN op.want.text ELSE remote[i].text
          /\ remote'[i].state = IF "state" \in op.set THEN op.want.state ELSE remote[i].state
          /\ remote'[i].project = IF "project" \in op.set THEN Project ELSE remote[i].project
      BY <1>4, <2>4, <3>1, <3>2, MutatedIs
    <3>4. /\ remote'[i].text = op.want.text /\ remote'[i].state = op.want.state
          /\ Project # None => remote'[i].project = Project
      BY <3>1, <3>3 DEF Drift, Fields
    <3>5. i \in WithMarker'
      BY <1>3, <3>2, <3>3 DEF WithMarker
    <3>6. QED BY <2>1, <2>2, <3>3, <3>4, <3>5
  <2>5. QED BY <2>3, <2>4
<1>5. CASE sid # done
  <2>1. \A i \in WithMarker : remote[i].sid = sid => i \in WithMarker' /\ remote'[i] = remote[i]
    <3>1. CASE op.at = 0
      BY <3>1, MutatedIs DEF WithMarker
    <3>2. CASE op.at # 0
      <4>1. op.at \in WithMarker => remote[op.at].sid # sid
        <5>1. Covered(s, done)
          BY <1>1 DEF Aligned
        <5>2. QED BY <1>1, <1>5, <3>2, <5>1 DEF Covered, StillRight
      <4>2. QED BY <3>2, <4>1, MutatedIs DEF WithMarker
    <3>3. QED BY <3>1, <3>2
  <2>2. CASE sid \in DOMAIN syncs[s].ops /\ StillRight(syncs[s].ops[sid], sid)
    <3>1. sid \in DOMAIN syncs'[s].ops /\ syncs'[s].ops[sid] = syncs[s].ops[sid]
      BY <1>1, <1>5, <2>2
    <3>2. StillRight(syncs[s].ops[sid], sid)'
      BY <1>1, <2>1, <2>2, <3>1 DEF StillRight, Wanted
    <3>3. QED BY <3>1, <3>2 DEF Covered
  <2>3. CASE sid \notin DOMAIN syncs[s].ops /\ \E i \in WithMarker : SaysTheSame(i, sid)
    <3>1. PICK i \in WithMarker : SaysTheSame(i, sid)
      BY <2>3
    <3>2. i \in WithMarker' /\ remote'[i] = remote[i]
      BY <2>1, <3>1 DEF SaysTheSame
    <3>3. SaysTheSame(i, sid)'
      BY <1>1, <3>1, <3>2 DEF SaysTheSame
    <3>4. QED BY <1>1, <2>3, <3>2, <3>3 DEF Covered
  <2>4. QED BY <1>2, <2>2, <2>3 DEF Covered
<1>6. QED BY <1>4, <1>5

LEMMA AlignedStep == LinearTyped /\ Aligned /\ [LinearNext]_linearVars => Aligned'
<1> SUFFICES ASSUME LinearTyped, Aligned, [LinearNext]_linearVars
             PROVE  Aligned'
  OBVIOUS
<1>1. CASE UNCHANGED <<catalogue, remote, syncs>>
  BY <1>1 DEF Aligned, Held, Covered, StillRight, SaysTheSame, Wanted, WithMarker
<1>2. CASE syncs' = Disturbed(None)
  BY <1>2, OthersDisturbed, LinearConstantsOK DEF Aligned, Held
<1>3. ASSUME NEW s \in Syncer, ApplyNext(s)
      PROVE  Aligned'
  <2>1. PICK done \in Ids : AppliesOne(s, done)
    BY <1>3, Applies
  <2> SUFFICES ASSUME NEW r \in Syncer, Held(r)', syncs'[r].quiet, NEW sid \in Ids
               PROVE  /\ catalogue'[sid] # None => Covered(r, sid)'
                      /\ sid \in DOMAIN syncs'[r].ops => catalogue'[sid] # None
    BY DEF Aligned
  <2>2. r = s
    BY <2>1, AppliedIs, OthersDisturbed DEF Held
  <2>3. catalogue' = catalogue
    BY <2>1 DEF AppliesOne
  <2>4. syncs'[s] # None /\ syncs'[s].quiet
    BY <2>2 DEF Held
  <2>5. catalogue[sid] # None => Covered(s, sid)'
    BY <2>1, <2>4, MutationCovers
  <2>6. /\ Held(s) /\ syncs[s].quiet
        /\ DOMAIN syncs'[s].ops \subseteq DOMAIN syncs[s].ops
    BY <2>1, <2>4, AppliedIs DEF AppliesOne
  <2>7. sid \in DOMAIN syncs'[s].ops => catalogue[sid] # None
    BY <2>6 DEF Aligned
  <2>8. QED BY <2>2, <2>3, <2>5, <2>7
<1>4. ASSUME NEW s \in Syncer,
             \/ Authorise(s) \/ Refresh(s) \/ Save(s) \/ (\E apply \in BOOLEAN : ReadAndPlan(s, apply))
             \/ EndsShort(s) \/ Report(s)
      PROVE  Aligned'
  <2>1. PICK to \in SyncState \cup {None} :
           /\ Proceeds(s, to)
           /\ \/ to = None \/ to.step # "applying"
              \/ \E page \in SUBSET WithMarker :
                   /\ Cardinality(page) = Min({PageSize, Cardinality(WithMarker)})
                   /\ Plannable(page) /\ to.step = "applying" /\ to.ops = Plan(page)
    BY <1>4, Proceeding
  <2>2. /\ syncs'[s] = to /\ \A r \in Syncer \ {s} : syncs'[r] = syncs[r]
        /\ catalogue' = catalogue /\ remote' = remote
    BY <2>1 DEF Proceeds, LinearTyped
  <2> SUFFICES ASSUME NEW r \in Syncer, Held(r)', syncs'[r].quiet, NEW sid \in Ids
               PROVE  /\ catalogue'[sid] # None => Covered(r, sid)'
                      /\ sid \in DOMAIN syncs'[r].ops => catalogue'[sid] # None
    BY DEF Aligned
  <2>3. CASE r # s
    <3>1. Held(r) /\ syncs'[r] = syncs[r]
      BY <2>2, <2>3 DEF Held
    <3>2. QED BY <2>2, <3>1 DEF Aligned, Covered, StillRight, SaysTheSame, Wanted, WithMarker
  <2>4. CASE r = s
    <3>1. PICK page \in SUBSET WithMarker : Plannable(page) /\ syncs'[s].ops = Plan(page)
      BY <2>1, <2>2, <2>4 DEF Held
    <3>2. sid \in DOMAIN Plan(page) => catalogue[sid] # None
      BY <3>1, PlanIs
    <3>3. catalogue[sid] # None =>
            \/ sid \in DOMAIN Plan(page) /\ StillRight(Plan(page)[sid], sid)
            \/ sid \notin DOMAIN Plan(page) /\ \E i \in WithMarker : SaysTheSame(i, sid)
      BY <3>1, PlanCovers
    <3>4. QED BY <2>2, <2>4, <3>1, <3>2, <3>3
               DEF Covered, StillRight, SaysTheSame, Wanted, WithMarker
  <2>5. QED BY <2>3, <2>4
<1>5. QED BY <1>1, <1>2, <1>3, <1>4
          DEF LinearNext, linearVars, Login, TokenExpires, StartTriage, EditCatalogue, EditRemote

\* For any catalogue, team and number of commands: a sync that reports with nobody else
\* at work has brought every entry in step (build_sync_plan, LinearSyncService.sync).
THEOREM OneSyncIsEnough == LinearSpec => []ReportedMeansInSync
<1>1. LinearInit => Aligned
  BY DEF LinearInit, Aligned, Held
<1>2. LinearTyped /\ Aligned => ReportedMeansInSync
  <2> SUFFICES ASSUME LinearTyped, Aligned, NEW s \in Syncer, Held(s), DOMAIN syncs[s].ops = {},
                      syncs[s].quiet, NEW sid \in Ids, catalogue[sid] # None
               PROVE  \E i \in WithMarker : SaysTheSame(i, sid)
    BY DEF ReportedMeansInSync, Held, SaysTheSame
  <2>1. QED BY DEF Aligned, Covered
<1>3. QED BY <1>1, <1>2, LinearStart, LinearTypes, AlignedStep, PTL DEF LinearSpec

-------------------------------------------------------------------------------
(* No sync id has two issues.                                              *)

\* One sync at a time, of a team whose marked issues fit in a page.
OneSyncInAPage == MaxRemote <= PageSize /\ \A s, r \in Syncer : s = r

\* What is about to be created is not there.
CreatesNew ==
  \A s \in Syncer : Held(s) =>
    \A sid \in DOMAIN syncs[s].ops : syncs[s].ops[sid].at = 0 =>
      \A i \in WithMarker : remote[i].sid # sid

LEMMA WholePage ==
  ASSUME LinearTyped, MaxRemote <= PageSize, NEW page \in SUBSET WithMarker,
         Cardinality(page) = Min({PageSize, Cardinality(WithMarker)})
  PROVE  page = WithMarker
<1>1. Len(remote) \in Nat /\ DOMAIN remote = 1 .. Len(remote) /\ PageSize \in Nat /\ MaxRemote \in Nat
  BY LinearConstantsOK DEF LinearTyped
<1> DEFINE n == Len(remote)
<1>2. IsFiniteSet(1 .. n) /\ Cardinality(1 .. n) = n
  <2>1. n \in Int /\ n \in Nat
    BY <1>1
  <2> HIDE DEF n
  <2>2. IsFiniteSet(1 .. n) /\ Cardinality(1 .. n) = IF 1 > n THEN 0 ELSE n - 1 + 1
    BY <2>1, FS_Interval
  <2>3. QED BY <2>1, <2>2
<1>3. WithMarker \subseteq 1 .. n
  BY <1>1 DEF WithMarker
<1>4. IsFiniteSet(WithMarker) /\ Cardinality(WithMarker) \in Nat /\ Cardinality(WithMarker) <= n
  BY <1>2, <1>3, FS_Subset, FS_CardinalityType
<1>5. Cardinality(WithMarker) <= PageSize
  BY <1>1, <1>4 DEF LinearTyped
<1>6. Min({PageSize, Cardinality(WithMarker)}) = Cardinality(WithMarker)
  <2>1. {PageSize, Cardinality(WithMarker)} \in SUBSET Nat
    BY <1>1, <1>4
  <2>2. LET m == Min({PageSize, Cardinality(WithMarker)}) IN
        /\ m \in {PageSize, Cardinality(WithMarker)}
        /\ m <= PageSize /\ m <= Cardinality(WithMarker)
    BY <2>1, NatMin
  <2>3. QED BY <1>1, <1>4, <1>5, <2>2
<1>7. QED BY <1>4, <1>6, FS_Subset

LEMMA TwiceStep ==
  OneSyncInAPage /\ LinearTyped /\ CreatesNew /\ NeverTwice /\ [LinearNext]_linearVars =>
    CreatesNew' /\ NeverTwice'
<1> SUFFICES ASSUME OneSyncInAPage, LinearTyped, CreatesNew, NeverTwice, [LinearNext]_linearVars
             PROVE  CreatesNew' /\ NeverTwice'
  OBVIOUS
<1>1. CASE UNCHANGED <<remote, syncs>>
  BY <1>1 DEF CreatesNew, NeverTwice, Held, WithMarker
<1>2. ASSUME syncs' = Disturbed(None),
             \A j \in WithMarker' : j \in WithMarker /\ remote'[j].sid = remote[j].sid
      PROVE  CreatesNew' /\ NeverTwice'
  <2>1. NeverTwice'
    BY <1>2 DEF NeverTwice
  <2>2. \A s \in Syncer : syncs'[s] # None =>
          /\ syncs[s] # None /\ syncs'[s].step = syncs[s].step /\ syncs'[s].ops = syncs[s].ops
    BY <1>2, OthersDisturbed
  <2>3. CreatesNew'
    BY <1>2, <2>2 DEF CreatesNew, Held
  <2>4. QED BY <2>1, <2>3
<1>3. ASSUME NEW s \in Syncer, ApplyNext(s)
      PROVE  CreatesNew' /\ NeverTwice'
  <2>1. PICK done \in Ids : AppliesOne(s, done)
    BY <1>3, Applies
  <2> DEFINE op == syncs[s].ops[done]
  <2>2. Held(s) /\ done \in DOMAIN syncs[s].ops
    BY <2>1 DEF AppliesOne
  <2>3. \A i \in WithMarker' : \/ i \in WithMarker /\ remote'[i].sid = remote[i].sid
                               \/ op.at = 0 /\ i = Len(remote) + 1 /\ remote'[i].sid = done
    <3>1. CASE op.at = 0
      <4>1. /\ DOMAIN remote' = DOMAIN remote \cup {Len(remote) + 1}
            /\ \A i \in DOMAIN remote : remote'[i] = remote[i]
            /\ remote'[Len(remote) + 1] =
                 [sid |-> done, text |-> op.want.text, state |-> op.want.state, project |-> Project]
        BY <2>1, <3>1, MutatedIs
      <4>2. remote'[Len(remote) + 1].sid = done
        BY <4>1
      <4>3. QED BY <3>1, <4>1, <4>2 DEF WithMarker
    <3>2. CASE op.at # 0
      <4>1. /\ DOMAIN remote' = DOMAIN remote
            /\ \A j \in DOMAIN remote : j # op.at => remote'[j] = remote[j]
            /\ op.at \in DOMAIN remote => remote'[op.at].sid = remote[op.at].sid
            /\ remote[op.at] # None
        BY <2>1, <3>2, MutatedIs DEF AppliesOne
      <4>2. QED BY <4>1 DEF WithMarker
    <3>3. QED BY <3>1, <3>2
  <2>4. op.at = 0 => \A i \in WithMarker : remote[i].sid # done
    BY <2>2 DEF CreatesNew
  <2>5. NeverTwice'
    BY <2>3, <2>4 DEF NeverTwice
  <2>6. CreatesNew'
    <3> SUFFICES ASSUME NEW r \in Syncer, Held(r)', NEW sid \in DOMAIN syncs'[r].ops,
                        syncs'[r].ops[sid].at = 0, NEW i \in WithMarker'
                 PROVE  remote'[i].sid # sid
      BY DEF CreatesNew
    <3>1. r = s
      BY DEF OneSyncInAPage
    <3>2. sid # done /\ sid \in DOMAIN syncs[s].ops /\ syncs[s].ops[sid].at = 0
      BY <2>1, <3>1, AppliedIs DEF Held
    <3>3. \A x \in WithMarker : remote[x].sid # sid
      BY <2>2, <3>2 DEF CreatesNew
    <3>4. QED BY <2>3, <3>2, <3>3
  <2>7. QED BY <2>5, <2>6
<1>4. ASSUME NEW s \in Syncer,
             \/ Authorise(s) \/ Refresh(s) \/ Save(s) \/ (\E apply \in BOOLEAN : ReadAndPlan(s, apply))
             \/ EndsShort(s) \/ Report(s)
      PROVE  CreatesNew' /\ NeverTwice'
  <2>1. PICK to \in SyncState \cup {None} :
           /\ Proceeds(s, to)
           /\ \/ to = None \/ to.step # "applying"
              \/ \E page \in SUBSET WithMarker :
                   /\ Cardinality(page) = Min({PageSize, Cardinality(WithMarker)})
                   /\ Plannable(page) /\ to.step = "applying" /\ to.ops = Plan(page)
    BY <1>4, Proceeding
  <2>2. syncs'[s] = to /\ remote' = remote
    BY <2>1 DEF Proceeds, LinearTyped
  <2>3. NeverTwice' /\ WithMarker' = WithMarker
    BY <2>2 DEF NeverTwice, WithMarker
  <2>4. CreatesNew'
    <3> SUFFICES ASSUME NEW r \in Syncer, Held(r)', NEW sid \in DOMAIN syncs'[r].ops,
                        syncs'[r].ops[sid].at = 0, NEW i \in WithMarker
                 PROVE  remote[i].sid # sid
      BY <2>2, <2>3 DEF CreatesNew
    <3>1. r = s
      BY DEF OneSyncInAPage
    <3>2. PICK page \in SUBSET WithMarker :
            /\ Cardinality(page) = Min({PageSize, Cardinality(WithMarker)})
            /\ Plannable(page) /\ syncs'[s].ops = Plan(page)
      BY <2>1, <2>2, <3>1 DEF Held
    <3>3. page = WithMarker
      BY <3>2, WholePage DEF OneSyncInAPage
    <3>4. sid \in Ids /\ catalogue[sid] # None /\ Operation(page, sid).at = 0
      <4>1. Plan(page) \in Pending
        BY <3>2, PlanIs
      <4>2. sid \in Ids
        BY <3>1, <3>2, <4>1, PendingIs
      <4>3. QED BY <3>1, <3>2, <4>2, PlanIs
    <3>5. Match(page, sid) = {}
      BY <3>2, <3>4, OperationIs
    <3>6. QED BY <3>3, <3>5 DEF Match
  <2>5. QED BY <2>3, <2>4
<1>5. ASSUME NEW i \in DOMAIN remote, EditRemote(i)
      PROVE  CreatesNew' /\ NeverTwice'
  BY <1>2, <1>5, EditedRemote DEF EditRemote
<1>6. ASSUME NEW sid \in Ids, EditCatalogue(sid)
      PROVE  CreatesNew' /\ NeverTwice'
  BY <1>2, <1>6 DEF EditCatalogue, WithMarker
<1>7. QED BY <1>1, <1>3, <1>4, <1>5, <1>6
          DEF LinearNext, linearVars, Login, TokenExpires, StartTriage

\* Whatever answers are lost and whatever people edit: with one sync at a time, and the
\* marked issues in a page, a sync id never has two issues (extract_sync_id,
\* build_sync_plan; SYNC_BOOTSTRAP_QUERY reads the first 250).
THEOREM NoSecondIssue == OneSyncInAPage => (LinearSpec => []NeverTwice)
<1> SUFFICES ASSUME OneSyncInAPage
             PROVE  LinearSpec => []NeverTwice
  OBVIOUS
<1>1. LinearInit => CreatesNew /\ NeverTwice
  BY DEF LinearInit, CreatesNew, NeverTwice, Held, WithMarker
<1>2. LinearTyped /\ CreatesNew /\ NeverTwice /\ [LinearNext]_linearVars => CreatesNew' /\ NeverTwice'
  BY TwiceStep
<1>3. QED BY <1>1, <1>2, LinearStart, LinearTypes, PTL DEF LinearSpec

-------------------------------------------------------------------------------
(* The views of the markets.                                               *)

Board == [Brief -> [state : {"open", "closed", "inactive"}, rating : Ratings \cup {None}]]
Buckets == {"priority", "review_fallback", "watchlist", "fallback_only", "no_prediction"}
Open == {m \in OnBoard(TRUE) : board[m].state # "closed"}

LEMMA RatingIs ==
  ASSUME board \in Board, NEW m \in Brief
  PROVE  /\ IsOpportunity(m) \in BOOLEAN
         /\ ActionScore(m) \in 0 .. 100
         /\ board[m].rating = None \/ board[m].rating.yes \in Nat
<1>1. board[m].rating \in Ratings \cup {None}
  BY DEF Board
<1>2. CASE board[m].rating = None
  BY <1>2 DEF IsOpportunity, ActionScore
<1>3. CASE board[m].rating # None
  <2>1. board[m].rating \in [opportunity : BOOLEAN, action : 0 .. 100, evidence : BOOLEAN,
                             review : BOOLEAN, yes : 0 .. 100]
    BY <1>1, <1>3, BriefConstantsOK
  <2>2. QED BY <1>3, <2>1 DEF IsOpportunity, ActionScore
<1>4. QED BY <1>2, <1>3

LEMMA BucketIs ==
  ASSUME board \in Board, NEW m \in Brief
  PROVE  /\ BucketOf(m) \in Buckets
         /\ BucketOf(m) = "watchlist" => ~IsOpportunity(m)
BY RatingIs DEF BucketOf, Buckets, IsOpportunity

LEMMA ModeIs == ASSUME NEW m PROVE ModeOf(m) \in {"evidence_backed", "fallback_only", "no_prediction"}
BY DEF ModeOf

\* What a view takes from the overview.
LEMMA OverviewIs ==
  /\ DOMAIN Overview = OnBoard(TRUE)
  /\ \A m \in OnBoard(TRUE) :
       /\ Overview[m].rank = PriorityRank(m) /\ Overview[m].bucket = BucketOf(m)
       /\ Overview[m].mode = ModeOf(m) /\ Overview[m].opportunity = IsOpportunity(m)
BY DEF Overview

LEMMA ItemsAre ==
  /\ DOMAIN OpenItems(Overview) = Open
  /\ \A m \in Open : OpenItems(Overview)[m] = Overview[m]
BY OverviewIs DEF OpenItems, Open

LEMMA SnapshotIs ==
  /\ DOMAIN DiffSnapshot = Open
  /\ \A m \in Open :
       /\ DiffSnapshot[m].rank = PriorityRank(m) /\ DiffSnapshot[m].bucket = BucketOf(m)
       /\ DiffSnapshot[m].opportunity = IsOpportunity(m)
       /\ DiffSnapshot[m].yes = IF board[m].rating = None THEN None ELSE board[m].rating.yes
<1>1. DOMAIN DiffSnapshot = Open
  BY OverviewIs DEF DiffSnapshot, Open
<1>2. ASSUME NEW m \in Open
      PROVE  DiffSnapshot[m] = SnapshotItem(m, Overview[m])
  BY OverviewIs DEF DiffSnapshot, Open
<1>3. \A m \in Open : m \in OnBoard(TRUE)
  BY DEF Open
<1>4. ASSUME NEW m, NEW item
      PROVE  /\ SnapshotItem(m, item).rank = item.rank /\ SnapshotItem(m, item).bucket = item.bucket
             /\ SnapshotItem(m, item).opportunity = item.opportunity
             /\ SnapshotItem(m, item).yes = IF board[m].rating = None THEN None ELSE board[m].rating.yes
  BY DEF SnapshotItem
<1>5. ASSUME NEW m \in Open
      PROVE  /\ DiffSnapshot[m].rank = PriorityRank(m) /\ DiffSnapshot[m].bucket = BucketOf(m)
             /\ DiffSnapshot[m].opportunity = IsOpportunity(m)
             /\ DiffSnapshot[m].yes = IF board[m].rating = None THEN None ELSE board[m].rating.yes
  <2>1. /\ DiffSnapshot[m] = SnapshotItem(m, Overview[m])
        /\ Overview[m].rank = PriorityRank(m) /\ Overview[m].bucket = BucketOf(m)
        /\ Overview[m].opportunity = IsOpportunity(m)
    BY <1>2, <1>3, OverviewIs
  <2>2. /\ DiffSnapshot[m].rank = Overview[m].rank /\ DiffSnapshot[m].bucket = Overview[m].bucket
        /\ DiffSnapshot[m].yes = IF board[m].rating = None THEN None ELSE board[m].rating.yes
    BY <1>4, <2>1
  <2>3. DiffSnapshot[m].opportunity = Overview[m].opportunity
    BY <1>4, <2>1
  <2>4. DiffSnapshot[m].opportunity = IsOpportunity(m)
    BY ONLY <2>1, <2>3, Zenon
  <2>5. QED BY ONLY <2>1, <2>2, <2>4, Zenon
<1>6. QED BY <1>1, <1>5

LEMMA RankIs ==
  ASSUME NEW m
  PROVE  PriorityRank(m) \in Nat
<1>1. IsFiniteSet({n \in OnBoard(TRUE) : Before(n, m)})
  BY BriefConstantsOK, FS_Subset DEF OnBoard
<1>2. QED BY <1>1, FS_CardinalityType DEF PriorityRank

\* An opportunity stands before what is none, whatever their scores.
LEMMA OpportunityFirst ==
  ASSUME board \in Board, NEW m \in OnBoard(TRUE), NEW n \in Brief, IsOpportunity(m), ~IsOpportunity(n)
  PROVE  PriorityRank(m) < PriorityRank(n)
<1> DEFINE A == {k \in OnBoard(TRUE) : Before(k, m)}
           B == {k \in OnBoard(TRUE) : Before(k, n)}
<1>1. \A k \in Brief : IsOpportunity(k) => Before(k, n)
  BY DEF Before
<1>2. \A k \in Brief : Before(k, m) => IsOpportunity(k)
  BY DEF Before
<1>3. ~Before(m, m)
  <2>1. m \in Nat /\ ActionScore(m) \in 0 .. 100
    BY RatingIs, BriefConstantsOK DEF OnBoard
  <2>2. QED BY <2>1 DEF Before
<1>4. A \subseteq B /\ m \in B /\ m \notin A
  BY <1>1, <1>2, <1>3 DEF OnBoard
<1>5. IsFiniteSet(B)
  BY BriefConstantsOK, FS_Subset DEF OnBoard
<1> HIDE DEF A, B
<1>6. A \subseteq B \ {m} /\ IsFiniteSet(B \ {m}) /\ Cardinality(B \ {m}) = Cardinality(B) - 1
  BY <1>4, <1>5, FS_RemoveElement
<1>7. Cardinality(A) <= Cardinality(B \ {m}) /\ Cardinality(B) \in Nat /\ Cardinality(A) \in Nat
  BY <1>5, <1>6, FS_Subset, FS_CardinalityType
<1>8. PriorityRank(m) = 1 + Cardinality(A) /\ PriorityRank(n) = 1 + Cardinality(B)
  BY DEF PriorityRank, A, B
<1>9. QED BY <1>6, <1>7, <1>8

LEMMA FirstIsHead ==
  ASSUME NEW list, IsFiniteSet(list), NEW limit \in Nat, NEW items, NEW ranked,
         \A m \in list : items[m].rank \in Nat /\ items[m].rank = ranked[m].rank
  PROVE  HeadOf(FirstOf(list, limit, items), list, limit, ranked)
<1> DEFINE ahead(m) == {n \in list : items[n].rank < items[m].rank}
           first == FirstOf(list, limit, items)
<1>1. first = {m \in list : Cardinality(ahead(m)) < limit}
  BY DEF FirstOf
<1>2. ASSUME NEW m \in list
      PROVE  /\ IsFiniteSet(ahead(m)) /\ Cardinality(ahead(m)) \in Nat /\ m \notin ahead(m)
             /\ ahead(m) \subseteq list
  BY FS_Subset, FS_CardinalityType
<1>3. ASSUME NEW m \in first, NEW n \in list \ first
      PROVE  ranked[m].rank < ranked[n].rank
  <2> SUFFICES ASSUME items[n].rank <= items[m].rank PROVE FALSE
    BY <1>1
  <2>1. ahead(n) \subseteq ahead(m)
    BY <1>1
  <2>2. Cardinality(ahead(n)) <= Cardinality(ahead(m))
    BY <1>1, <1>2, <2>1, FS_Subset
  <2> HIDE DEF ahead, first
  <2>3. QED BY <1>1, <1>2, <2>2
<1>4. ASSUME Cardinality(list) <= limit, NEW m \in list
      PROVE  m \in first
  <2>1. ahead(m) \subseteq list \ {m} /\ IsFiniteSet(list \ {m})
        /\ Cardinality(list \ {m}) = Cardinality(list) - 1 /\ Cardinality(list) \in Nat
    BY <1>2, FS_RemoveElement, FS_CardinalityType
  <2>2. Cardinality(ahead(m)) <= Cardinality(list \ {m})
    BY <2>1, FS_Subset
  <2> HIDE DEF ahead, first
  <2>3. QED BY <1>1, <1>2, <1>4, <2>1, <2>2
<1>5. first \subseteq list
  BY <1>1
<1>6. QED BY <1>3, <1>4, <1>5 DEF HeadOf

LEMMA ApartCount ==
  ASSUME NEW S, NEW T, IsFiniteSet(S), IsFiniteSet(T), S \cap T = {}
  PROVE  IsFiniteSet(S \cup T) /\ Cardinality(S \cup T) = Cardinality(S) + Cardinality(T)
<1>1. Cardinality(S \cap T) = 0
  BY FS_EmptySet
<1>2. Cardinality(S) \in Nat /\ Cardinality(T) \in Nat
  BY FS_CardinalityType
<1>3. IsFiniteSet(S \cup T) /\ Cardinality(S \cup T) = Cardinality(S) + Cardinality(T) - Cardinality(S \cap T)
  BY FS_Union
<1>4. QED BY <1>1, <1>2, <1>3

LEMMA ViewsMeet ==
  ASSUME board \in Board
  PROVE  ViewsAgree
<1> DEFINE items == DiffSnapshot
           cut == OpenItems(Overview)
           best == {m \in Open : IsOpportunity(m)}
           watched == {m \in Open : BucketOf(m) = "watchlist"}
<1>1. Top(items) = best
  BY SnapshotIs DEF Top
<1>2. {m \in DOMAIN items : items[m].bucket = "watchlist"} = watched
  BY SnapshotIs
<1>3. /\ {m \in Export("top_opportunities") : board[m].state # "closed"} = best
      /\ {m \in Export("watchlist") : board[m].state # "closed"} = watched
  BY OverviewIs DEF Export, Open
<1>4. \A m \in Open : m \in OnBoard(TRUE) /\ m \in Brief
  BY DEF Open, OnBoard
<1>5. /\ {m \in DOMAIN cut : cut[m].opportunity} = best
      /\ {m \in DOMAIN cut : cut[m].bucket = "watchlist"} = watched
      /\ \A m \in Open : cut[m].rank \in Nat /\ cut[m].rank = items[m].rank
  <2>1. DOMAIN cut = Open
    BY ItemsAre
  <2>2. ASSUME NEW m \in Open
        PROVE  cut[m].bucket = BucketOf(m) /\ cut[m].rank = PriorityRank(m)
    BY <1>4, ItemsAre, OverviewIs
  <2>3. \A m \in Open : cut[m].opportunity = IsOpportunity(m)
    <3> SUFFICES ASSUME NEW m \in Open PROVE cut[m].opportunity = IsOpportunity(m)
      OBVIOUS
    <3>1. cut[m] = Overview[m]
      BY ItemsAre
    <3>2. Overview[m].opportunity = IsOpportunity(m)
      BY <1>4, OverviewIs
    <3>3. cut[m].opportunity = Overview[m].opportunity
      BY ONLY <3>1, Zenon
    <3>4. QED BY ONLY <3>2, <3>3, Zenon
  <2>4. \A m \in Open : cut[m].rank \in Nat /\ cut[m].rank = items[m].rank
    BY <2>2, SnapshotIs, RankIs
  <2> HIDE DEF cut
  <2>5. {m \in DOMAIN cut : cut[m].opportunity} = best
    BY ONLY <2>1, <2>3, Zenon
  <2>6. {m \in DOMAIN cut : cut[m].bucket = "watchlist"} = watched
    BY <2>1, <2>2
  <2>7. QED BY <2>4, <2>5, <2>6
<1>6. IsFiniteSet(Open) /\ IsFiniteSet(best) /\ IsFiniteSet(watched)
  BY BriefConstantsOK, FS_Subset DEF Open, OnBoard
<1>7. TopLimit \in Nat /\ WatchLimit \in Nat
  BY BriefConstantsOK
<1>8. Briefing.top = FirstOf(best, TopLimit, cut) /\ Briefing.watchlist = FirstOf(watched, WatchLimit, cut)
  BY <1>5 DEF Briefing
<1>9. best \subseteq Open /\ watched \subseteq Open
  OBVIOUS
<1>10. \A m \in best, n \in watched : items[m].rank < items[n].rank
  <2> SUFFICES ASSUME NEW m \in best, NEW n \in watched PROVE items[m].rank < items[n].rank
    OBVIOUS
  <2>1. items[m].rank = PriorityRank(m) /\ items[n].rank = PriorityRank(n)
    BY SnapshotIs
  <2>2. m \in OnBoard(TRUE) /\ n \in Brief /\ IsOpportunity(m)
    BY <1>4
  <2>3. ~IsOpportunity(n)
    BY <1>4, BucketIs
  <2>4. PriorityRank(m) < PriorityRank(n)
    BY <2>2, <2>3, OpportunityFirst
  <2>5. QED BY <2>1, <2>4
<1>11. Briefing.backed + Briefing.fallback + Briefing.unrated = Briefing.total
  <2> DEFINE of(mode) == {m \in Open : ModeOf(m) = mode}
  <2>1. /\ Briefing.backed = OfMode(cut, "evidence_backed") /\ Briefing.fallback = OfMode(cut, "fallback_only")
        /\ Briefing.unrated = OfMode(cut, "no_prediction") /\ Briefing.total = Cardinality(DOMAIN cut)
    BY DEF Briefing
  <2>2. ASSUME NEW mode PROVE OfMode(cut, mode) = Cardinality(of(mode))
    <3>1. {m \in DOMAIN cut : cut[m].mode = mode} = of(mode)
      BY <1>4, ItemsAre, OverviewIs
    <3>2. QED BY <3>1 DEF OfMode
  <2> DEFINE A == of("evidence_backed")
             B == of("fallback_only")
             C == of("no_prediction")
  <2>3. IsFiniteSet(A) /\ IsFiniteSet(B) /\ IsFiniteSet(C)
    BY <1>6, FS_Subset
  <2>4. Open = (A \cup B) \cup C /\ A \cap B = {} /\ (A \cup B) \cap C = {}
    BY ModeIs
  <2>5. DOMAIN cut = Open
    BY ItemsAre
  <2> HIDE DEF A, B, C, cut
  <2>6. Cardinality(A \cup B) = Cardinality(A) + Cardinality(B) /\ IsFiniteSet(A \cup B)
    BY <2>3, <2>4, ApartCount
  <2>7. Cardinality((A \cup B) \cup C) = Cardinality(A \cup B) + Cardinality(C)
    BY <2>3, <2>4, <2>6, ApartCount
  <2>8. QED BY <2>1, <2>2, <2>4, <2>5, <2>6, <2>7 DEF A, B, C
<1> HIDE DEF items, cut, best, watched
<1>12. /\ HeadOf(FirstOf(best, TopLimit, cut), best, TopLimit, items)
       /\ HeadOf(FirstOf(watched, WatchLimit, cut), watched, WatchLimit, items)
  BY <1>5, <1>6, <1>7, <1>9, FirstIsHead
<1>13. QED
  BY <1>1, <1>2, <1>3, <1>8, <1>10, <1>11, <1>12 DEF ViewsAgree, items
Boarded == board \in Board

LEMMA BoardStart == BriefInit => Boarded
BY DEF BriefInit, Board, Boarded

LEMMA BoardKept == Boarded /\ [BriefNext]_briefVars => Boarded'
<1> SUFFICES ASSUME board \in Board, [BriefNext]_briefVars PROVE board' \in Board
  BY DEF Boarded
<1>1. ASSUME NEW m \in Brief, Scored(m) PROVE board' \in Board
  BY <1>1 DEF Scored, Board
<1>2. ASSUME NEW m \in Brief, Resolved(m) PROVE board' \in Board
  BY <1>2 DEF Resolved, Board
<1>3. ASSUME UNCHANGED board PROVE board' \in Board
  BY <1>3
<1>4. QED
  BY <1>1, <1>2, <1>3 DEF BriefNext, BeginDiff, WriteSnapshot, WriteDiff, DiffDies, briefVars

\* The overview, the briefing, the exports and the snapshots of the diffs
\* tell of the same markets in the same order
\* (build_markets_overview, build_operational_briefing, export_market_overview,
\* build_market_diff_snapshot), for any number of markets.
THEOREM OneBoard == BriefSpec => []ViewsAgree
<1>1. BriefInit => Boarded
  BY BoardStart
<1>2. Boarded /\ [BriefNext]_briefVars => Boarded'
  BY BoardKept
<1>3. Boarded => ViewsAgree
  BY ViewsMeet DEF Boarded
<1>4. QED BY <1>1, <1>2, <1>3, PTL DEF BriefSpec

-------------------------------------------------------------------------------
(* The chain of diffs.                                                     *)

Files == (UNION {[S -> DiffItem] : S \in SUBSET Brief}) \cup {None}
Progress == [run : Nat, previous : Nat \cup {None}, found : Files, built : Files]

LEMMA NoneIsFile == None \in Files
BY DEF Files

\* What a published diff says of the snapshot files.
Founded(files, e) ==
  /\ e.current \in DOMAIN files
  /\ e.diff.ready =>
       /\ e.previous \in DOMAIN files
       /\ e.diff.entered = EnteredOf(files[e.previous], files[e.current])
       /\ e.diff.exited = ExitedOf(files[e.previous], files[e.current])

\* What a command under way knows of them.
Informed(files, n, k) ==
  k # None =>
    /\ k.run \in 1 .. n
    /\ k.found # None => k.previous \in DOMAIN files /\ files[k.previous] = k.found
    /\ k.built # None => k.run \in DOMAIN files /\ files[k.run] = k.built
    /\ k.built = None => k.run \notin DOMAIN files

Chain ==
  /\ board \in Board
  /\ begun \in 0 .. MaxDiffs
  /\ DOMAIN snapshots \subseteq 1 .. begun
  /\ \A r \in DOMAIN snapshots : snapshots[r] \in Files
  /\ Len(diffs) \in Nat /\ diffs = [i \in 1 .. Len(diffs) |-> diffs[i]]
  /\ \A i \in 1 .. Len(diffs) : Founded(snapshots, diffs[i])
  /\ differs \in [Differ -> Progress \cup {None}]
  /\ \A d \in Differ : Informed(snapshots, begun, differs[d])
  /\ \A d, e \in Differ :
       d # e /\ differs[d] # None /\ differs[e] # None => differs[d].run # differs[e].run

LEMMA NewestIs ==
  ASSUME NEW n \in Nat, NEW T \in SUBSET (1 .. n), T # {}
  PROVE  Max(T) \in T
<1> DEFINE U == {n - k : k \in T}
<1>1. PICK m \in U : \A k \in U : m <= k
  <2>1. \A k \in T : n - k \in Nat
    OBVIOUS
  <2>2. U \in SUBSET Nat
    BY <2>1
  <2>3. U # {}
    OBVIOUS
  <2> HIDE DEF U
  <2>4. QED BY <2>2, <2>3, NatMin
<1>2. n - m \in T /\ \A y \in T : n - m >= y
  <2>1. PICK k \in T : m = n - k
    OBVIOUS
  <2>2. \A y \in T : m <= n - y
    BY <1>1
  <2>3. QED BY <2>1, <2>2
<1>3. QED BY <1>2 DEF Max

LEMMA AppendAny ==
  ASSUME NEW q, Len(q) \in Nat, q = [i \in 1 .. Len(q) |-> q[i]], NEW e
  PROVE  /\ Len(Append(q, e)) = Len(q) + 1
         /\ Append(q, e) = [i \in 1 .. Len(q) + 1 |-> Append(q, e)[i]]
         /\ \A i \in 1 .. Len(q) : Append(q, e)[i] = q[i]
         /\ Append(q, e)[Len(q) + 1] = e
<1> DEFINE n == Len(q)
           X == {q[i] : i \in 1 .. n} \cup {e}
<1>1. q \in [1 .. n -> X]
  OBVIOUS
<1>2. q \in Seq(X)
  <2> HIDE DEF X
  <2>1. QED BY <1>1, SeqDef
<1>3. e \in X
  OBVIOUS
<1> HIDE DEF X
<1>4. /\ Append(q, e) \in Seq(X) /\ Len(Append(q, e)) = Len(q) + 1
      /\ \A i \in DOMAIN q : Append(q, e)[i] = q[i]
      /\ Append(q, e)[Len(q) + 1] = e
  BY <1>2, <1>3, AppendIs
<1>5. Append(q, e) = [i \in 1 .. Len(Append(q, e)) |-> Append(q, e)[i]]
  <2>1. Append(q, e) \in Seq(X)
    BY <1>4
  <2>2. ASSUME NEW p, p \in Seq(X) PROVE p = [i \in 1 .. Len(p) |-> p[i]]
    <3>1. Len(p) \in Nat /\ p \in [1 .. Len(p) -> X]
      BY ONLY <2>2, ElementOfSeq, LenProperties
    <3>2. QED BY ONLY <3>1
  <2>3. QED BY <2>1, <2>2
<1>6. QED BY <1>4, <1>5

\* A snapshot of a new run leaves what is known of the others.
LEMMA MoreFiles ==
  ASSUME NEW files, NEW run, NEW more, DOMAIN more = DOMAIN files \cup {run},
         \A r \in DOMAIN files : more[r] = files[r]
  PROVE  /\ \A e : Founded(files, e) => Founded(more, e)
         /\ \A n, k : Informed(files, n, k) /\ k.run # run => Informed(more, n, k)
<1>2. ASSUME NEW e, Founded(files, e) PROVE Founded(more, e)
  <2>1. e.current \in DOMAIN more /\ more[e.current] = files[e.current]
    BY <1>2 DEF Founded
  <2>2. ASSUME e.diff.ready
        PROVE  /\ e.previous \in DOMAIN more
               /\ e.diff.entered = EnteredOf(more[e.previous], more[e.current])
               /\ e.diff.exited = ExitedOf(more[e.previous], more[e.current])
    BY <1>2, <2>1, <2>2 DEF Founded
  <2>3. QED BY <2>1, <2>2 DEF Founded
<1>3. ASSUME NEW n, NEW k, Informed(files, n, k), k.run # run PROVE Informed(more, n, k)
  BY <1>3 DEF Informed
<1>4. QED BY <1>2, <1>3

LEMMA SnapshotTyped ==
  ASSUME board \in Board
  PROVE  DiffSnapshot \in Files /\ DiffSnapshot # None
<1>1. ASSUME NEW m \in Open PROVE DiffSnapshot[m] \in DiffItem
  <2> DEFINE item == Overview[m]
             yes == IF board[m].rating = None THEN None ELSE board[m].rating.yes
  <2>1. m \in OnBoard(TRUE) /\ m \in Brief
    BY DEF Open, OnBoard
  <2>2. DiffSnapshot[m] = SnapshotItem(m, item)
    BY <2>1, OverviewIs DEF DiffSnapshot, Open
  <2>3. item.rank \in Nat /\ item.bucket \in Buckets
    BY <2>1, OverviewIs, RankIs, BucketIs
  <2>4. item.opportunity \in BOOLEAN
    <3>1. item.opportunity = IsOpportunity(m) /\ IsOpportunity(m) \in BOOLEAN
      BY <2>1, OverviewIs, RatingIs
    <3>2. QED BY ONLY <3>1, Zenon
  <2>5. yes \in Nat \cup {None}
    BY <2>1, RatingIs
  <2> HIDE DEF item
  <2>6. SnapshotItem(m, item) \in DiffItem
    BY <2>3, <2>4, <2>5 DEF SnapshotItem, DiffItem, Buckets
  <2>7. QED BY <2>2, <2>6
<1>2. DiffSnapshot = [m \in Open |-> DiffSnapshot[m]]
  BY OverviewIs DEF DiffSnapshot, Open
<1>3. Open \in SUBSET Brief
  BY DEF Open, OnBoard
<1> HIDE DEF Open
<1>4. DiffSnapshot \in [Open -> DiffItem]
  BY <1>1, <1>2
<1>5. QED BY <1>3, <1>4, BriefConstantsOK DEF Files

LEMMA ChainInit == BriefInit => Chain
<1> SUFFICES ASSUME BriefInit PROVE Chain
  OBVIOUS
<1>1. board \in Board /\ begun \in 0 .. MaxDiffs
  BY BoardStart, BriefConstantsOK DEF Boarded, BriefInit
<1>2. DOMAIN snapshots = {} /\ Len(diffs) = 0 /\ diffs = <<>>
  BY DEF BriefInit
<1>3. diffs = [i \in 1 .. Len(diffs) |-> diffs[i]]
  BY <1>2
<1>4. \A d \in Differ : differs[d] = None
  BY DEF BriefInit
<1>5. differs \in [Differ -> Progress \cup {None}]
  BY DEF BriefInit
<1>6. QED BY <1>1, <1>2, <1>3, <1>4, <1>5 DEF Chain, Informed

\* What only changes the board leaves the files and the commands alone.
LEMMA BoardSteps ==
  ASSUME Chain, NEW m \in Brief, Scored(m) \/ Resolved(m)
  PROVE  Chain'
<1>1. UNCHANGED <<begun, snapshots, diffs, differs>>
  BY DEF Scored, Resolved
<1>2. board' \in Board
  BY DEF Scored, Resolved, Chain, Board
<1>3. QED BY <1>1, <1>2 DEF Chain

LEMMA BeginStep ==
  ASSUME Chain, NEW d \in Differ, BeginDiff(d)
  PROVE  Chain'
<1> DEFINE p == PreviousSnapshot
           found == IF p = None THEN None ELSE snapshots[p]
           k == [run |-> begun + 1, previous |-> IF found = None THEN None ELSE p,
                 found |-> found, built |-> None]
<1>1. /\ begun' = begun + 1 /\ UNCHANGED <<board, snapshots, diffs>>
      /\ differs' = [differs EXCEPT ![d] = k]
  BY DEF BeginDiff
<1>2. begun \in Nat /\ MaxDiffs \in Nat /\ begun + 1 \in 0 .. MaxDiffs
  BY BriefConstantsOK DEF Chain, BeginDiff
<1>3. found # None => p \in DOMAIN snapshots
  BY <1>2, NewestIs DEF PreviousSnapshot, Chain
<1>4. found \in Files /\ (found # None => p \in Nat)
  BY <1>2, <1>3, NoneIsFile DEF Chain
<1>5. begun + 1 \notin DOMAIN snapshots /\ DOMAIN snapshots \subseteq 1 .. begun + 1
  BY <1>2 DEF Chain
<1>6. found # None => snapshots[p] = found
  OBVIOUS
<1> HIDE DEF p, found
<1>7. k \in Progress
  BY <1>2, <1>4, NoneIsFile DEF Progress
<1>8. differs' \in [Differ -> Progress \cup {None}]
  BY <1>1, <1>7 DEF Chain
<1>9. Informed(snapshots, begun + 1, k)
  BY <1>2, <1>3, <1>5, <1>6 DEF Informed
<1>10. k.run = begun + 1
  OBVIOUS
<1> HIDE DEF k
<1>11. differs'[d] = k /\ \A e \in Differ : e # d => differs'[e] = differs[e]
  BY <1>1 DEF Chain
<1>12. \A e \in Differ : Informed(snapshots, begun + 1, differs'[e])
  <2>1. \A e \in Differ : Informed(snapshots, begun + 1, differs[e])
    BY <1>2 DEF Chain, Informed
  <2>2. QED BY <1>9, <1>11, <2>1
<1>13. \A e \in Differ : e # d /\ differs[e] # None => differs[e].run # k.run
  BY <1>2, <1>10 DEF Chain, Informed
<1>14. \A e, g \in Differ :
         e # g /\ differs'[e] # None /\ differs'[g] # None => differs'[e].run # differs'[g].run
  BY <1>11, <1>13 DEF Chain
<1>15. QED BY <1>1, <1>2, <1>5, <1>8, <1>12, <1>14 DEF Chain

\* A command that saves its snapshot, or a torn one, and goes on knowing k, or dies.
LEMMA SaveStep ==
  ASSUME Chain, NEW d \in Differ, differs[d] # None, differs[d].built = None,
         NEW items \in Files, SavedSnapshot(differs[d].run, items),
         NEW k \in Progress \cup {None}, differs' = [differs EXCEPT ![d] = k],
         k # None => k = [differs[d] EXCEPT !.built = items] /\ items # None,
         UNCHANGED <<board, begun, diffs>>
  PROVE  Chain'
<1> DEFINE run == differs[d].run
<1>1. /\ run \in 1 .. begun /\ run \notin DOMAIN snapshots
      /\ differs[d].found # None =>
           differs[d].previous \in DOMAIN snapshots /\ snapshots[differs[d].previous] = differs[d].found
  BY DEF Chain, Informed
<1>2. snapshots' = [r \in DOMAIN snapshots \cup {run} |-> IF r = run THEN items ELSE snapshots[r]]
  BY DEF SavedSnapshot
<1>3. differs[d] \in Progress
  BY DEF Chain
<1> HIDE DEF run
<1>4. /\ DOMAIN snapshots' = DOMAIN snapshots \cup {run} /\ snapshots'[run] = items
      /\ \A r \in DOMAIN snapshots : snapshots'[r] = snapshots[r]
      /\ \A e : Founded(snapshots, e) => Founded(snapshots', e)
      /\ \A n, g : Informed(snapshots, n, g) /\ g.run # run => Informed(snapshots', n, g)
  <2> DEFINE more == snapshots'
  <2>1. /\ DOMAIN more = DOMAIN snapshots \cup {run} /\ more[run] = items
        /\ \A r \in DOMAIN snapshots : more[r] = snapshots[r]
    BY <1>1, <1>2
  <2> HIDE DEF more
  <2>2. /\ \A e : Founded(snapshots, e) => Founded(more, e)
        /\ \A n, g : Informed(snapshots, n, g) /\ g.run # run => Informed(more, n, g)
    BY ONLY <2>1, MoreFiles
  <2>3. QED BY <2>1, <2>2 DEF more
<1>5. Informed(snapshots', begun, k)
  <2> SUFFICES ASSUME k # None PROVE Informed(snapshots', begun, k)
    BY DEF Informed
  <2>1. k.run = run /\ k.previous = differs[d].previous /\ k.found = differs[d].found /\ k.built = items
    BY <1>3 DEF Progress, run
  <2>2. QED BY <1>1, <1>4, <2>1 DEF Informed
<1>6. k # None => k.run = run
  BY <1>3 DEF Progress, run
<1>7. differs'[d] = k /\ \A e \in Differ : e # d => differs'[e] = differs[e]
  BY DEF Chain
<1>8. \A e \in Differ : Informed(snapshots', begun, differs'[e])
  <2> SUFFICES ASSUME NEW e \in Differ, e # d PROVE Informed(snapshots', begun, differs[e])
    BY <1>5, <1>7
  <2>1. Informed(snapshots, begun, differs[e]) /\ (differs[e] # None => differs[e].run # run)
    BY DEF Chain, run
  <2>2. CASE differs[e] = None
    BY <2>2 DEF Informed
  <2>3. QED BY <1>4, <2>1, <2>2
<1>9. \A e, g \in Differ :
        e # g /\ differs'[e] # None /\ differs'[g] # None => differs'[e].run # differs'[g].run
  BY <1>6, <1>7 DEF Chain, run
<1>10. \A i \in 1 .. Len(diffs) : Founded(snapshots', diffs[i])
  BY <1>4 DEF Chain
<1>11. DOMAIN snapshots' \subseteq 1 .. begun /\ \A r \in DOMAIN snapshots' : snapshots'[r] \in Files
  BY <1>1, <1>4 DEF Chain
<1>12. differs' \in [Differ -> Progress \cup {None}]
  BY DEF Chain
<1>13. QED BY <1>8, <1>9, <1>10, <1>11, <1>12 DEF Chain

LEMMA WriteSnapshotStep ==
  ASSUME Chain, NEW d \in Differ, WriteSnapshot(d)
  PROVE  Chain'
<1> DEFINE k == [differs[d] EXCEPT !.built = DiffSnapshot]
<1>1. DiffSnapshot \in Files /\ DiffSnapshot # None
  BY SnapshotTyped DEF Chain
<1>2. differs[d] # None /\ differs[d].built = None /\ SavedSnapshot(differs[d].run, DiffSnapshot)
  BY DEF WriteSnapshot
<1>3. UNCHANGED <<board, begun, diffs>>
  BY DEF WriteSnapshot
<1>4. differs' = [differs EXCEPT ![d] = k]
  BY DEF WriteSnapshot, Chain
<1>5. k \in Progress
  BY <1>1, <1>2 DEF Chain, Progress
<1> HIDE DEF k
<1>6. k = [differs[d] EXCEPT !.built = DiffSnapshot]
  BY DEF k
<1>7. QED BY <1>1, <1>2, <1>3, <1>4, <1>5, <1>6, SaveStep

LEMMA ForgetStep ==
  ASSUME Chain, NEW d \in Differ, differs' = [differs EXCEPT ![d] = None],
         UNCHANGED <<board, begun, snapshots>>,
         Len(diffs') \in Nat, diffs' = [i \in 1 .. Len(diffs') |-> diffs'[i]],
         \A i \in 1 .. Len(diffs') : Founded(snapshots, diffs'[i])
  PROVE  Chain'
<1>1. differs'[d] = None /\ \A e \in Differ : e # d => differs'[e] = differs[e]
  BY DEF Chain
<1>2. \A e \in Differ : Informed(snapshots, begun, differs'[e])
  BY <1>1 DEF Chain, Informed
<1>3. \A e, g \in Differ :
        e # g /\ differs'[e] # None /\ differs'[g] # None => differs'[e].run # differs'[g].run
  BY <1>1 DEF Chain
<1>4. differs' \in [Differ -> Progress \cup {None}]
  BY DEF Chain
<1>5. QED BY <1>2, <1>3, <1>4 DEF Chain

LEMMA WriteDiffStep ==
  ASSUME Chain, NEW d \in Differ, WriteDiff(d)
  PROVE  Chain'
<1> DEFINE k == differs[d]
           told == DiffOf(k.found, k.built)
           e == [current |-> k.run, previous |-> k.previous, diff |-> told]
<1>1. k # None /\ k.built # None /\ Informed(snapshots, begun, k)
  BY DEF WriteDiff, Chain
<1>2. /\ told.ready = (k.found # None)
      /\ k.found # None => told.entered = EnteredOf(k.found, k.built)
                           /\ told.exited = ExitedOf(k.found, k.built)
  BY DEF DiffOf
<1>3. /\ diffs' = Append(diffs, e) /\ differs' = [differs EXCEPT ![d] = None]
      /\ UNCHANGED <<board, begun, snapshots>>
  BY DEF WriteDiff
<1>4. e.current = k.run /\ e.previous = k.previous /\ e.diff = told
  OBVIOUS
<1> HIDE DEF k, told, e
<1>5. k.run \in DOMAIN snapshots /\ snapshots[k.run] = k.built
  BY <1>1 DEF Informed
<1>6. k.found # None => k.previous \in DOMAIN snapshots /\ snapshots[k.previous] = k.found
  BY <1>1 DEF Informed
<1>7. Founded(snapshots, e)
  <2>1. e.diff.ready => k.found # None
    BY <1>2, <1>4, Zenon
  <2>2. e.current \in DOMAIN snapshots
    BY <1>4, <1>5
  <2>3. ASSUME k.found # None
        PROVE  /\ e.previous \in DOMAIN snapshots
               /\ e.diff.entered = EnteredOf(snapshots[e.previous], snapshots[e.current])
               /\ e.diff.exited = ExitedOf(snapshots[e.previous], snapshots[e.current])
    BY <1>2, <1>4, <1>5, <1>6, <2>3
  <2>4. QED BY <2>1, <2>2, <2>3, Zenon DEF Founded
<1>8. /\ Len(diffs) \in Nat /\ diffs = [i \in 1 .. Len(diffs) |-> diffs[i]]
      /\ \A i \in 1 .. Len(diffs) : Founded(snapshots, diffs[i])
  BY DEF Chain
<1>9. /\ Len(diffs') = Len(diffs) + 1
      /\ diffs' = [i \in 1 .. Len(diffs) + 1 |-> diffs'[i]]
      /\ \A i \in 1 .. Len(diffs) : diffs'[i] = diffs[i]
      /\ diffs'[Len(diffs) + 1] = e
  BY <1>3, <1>8, AppendAny
<1>10. \A i \in 1 .. Len(diffs') : Founded(snapshots, diffs'[i])
  <2>1. \A i \in 1 .. Len(diffs) + 1 : i \in 1 .. Len(diffs) \/ i = Len(diffs) + 1
    BY <1>8
  <2>2. QED BY <1>7, <1>8, <1>9, <2>1
<1>11. Len(diffs') \in Nat /\ diffs' = [i \in 1 .. Len(diffs') |-> diffs'[i]]
  BY <1>8, <1>9
<1>12. QED BY <1>3, <1>10, <1>11, ForgetStep

LEMMA DiesStep ==
  ASSUME Chain, NEW d \in Differ, DiffDies(d)
  PROVE  Chain'
<1>1. differs[d] # None /\ differs' = [differs EXCEPT ![d] = None] /\ UNCHANGED <<board, begun, diffs>>
  BY DEF DiffDies
<1>2. CASE UNCHANGED snapshots
  <2>1. /\ Len(diffs') \in Nat /\ diffs' = [i \in 1 .. Len(diffs') |-> diffs'[i]]
        /\ \A i \in 1 .. Len(diffs') : Founded(snapshots, diffs'[i])
    BY <1>1 DEF Chain
  <2>2. QED BY <1>1, <1>2, <2>1, ForgetStep
<1>3. CASE differs[d].built = None /\ SavedSnapshot(differs[d].run, None)
  BY <1>1, <1>3, NoneIsFile, SaveStep
<1>4. QED BY <1>2, <1>3 DEF DiffDies

LEMMA ChainNext == Chain /\ [BriefNext]_briefVars => Chain'
<1> SUFFICES ASSUME Chain, [BriefNext]_briefVars PROVE Chain'
  OBVIOUS
<1>1. CASE UNCHANGED briefVars
  BY <1>1 DEF Chain, briefVars
<1>2. CASE BriefNext
  BY <1>2, BoardSteps, BeginStep, WriteSnapshotStep, WriteDiffStep, DiesStep DEF BriefNext
<1>3. QED BY <1>1, <1>2

LEMMA EveryNumber ==
  ASSUME NEW P \in SUBSET Nat, 0 \in P, \A n \in P : n + 1 \in P
  PROVE  P = Nat
<1> SUFFICES ASSUME Nat \ P # {} PROVE FALSE
  OBVIOUS
<1>1. PICK m \in Nat \ P : \A k \in Nat \ P : m <= k
  BY NatMin
<1>2. m - 1 \in Nat /\ m - 1 \in P
  BY <1>1
<1>3. QED BY <1>1, <1>2

\* What the reader knows after diff i, when he knew before after the one before it.
TakenUp(i, before) ==
  IF i = 0 THEN [run |-> 0, top |-> {}]
  ELSE IF diffs[i].diff.ready /\ diffs[i].previous = before.run
  THEN [run |-> diffs[i].current,
        top |-> (before.top \ diffs[i].diff.exited) \cup diffs[i].diff.entered]
  ELSE [run |-> diffs[i].current, top |-> Top(snapshots[diffs[i].current])]

\* What there was to know.
Truth(i) ==
  IF i = 0 THEN [run |-> 0, top |-> {}]
  ELSE [run |-> diffs[i].current, top |-> Top(snapshots[diffs[i].current])]

Reads(f) == f = [i \in 0 .. Len(diffs) |-> TakenUp(i, f[i - 1])]

LEMMA TruthTakenUp ==
  ASSUME Chain, NEW i \in 1 .. Len(diffs), NEW before, before = Truth(i - 1)
  PROVE  TakenUp(i, before) = Truth(i)
<1> DEFINE e == diffs[i]
<1>1. Len(diffs) \in Nat /\ Founded(snapshots, e) /\ DOMAIN snapshots \subseteq 1 .. begun
      /\ \A j \in 1 .. Len(diffs) : Founded(snapshots, diffs[j])
  BY DEF Chain
<1>2. i # 0 /\ i - 1 \in 0 .. Len(diffs)
  BY <1>1
<1>3. Truth(i) = [run |-> e.current, top |-> Top(snapshots[e.current])]
  BY <1>2 DEF Truth
<1>4. CASE e.diff.ready /\ e.previous = before.run
  <2>1. e.previous \in 1 .. begun
    BY <1>1, <1>4 DEF Founded
  <2>2. i - 1 # 0
    BY <2>1, <1>4 DEF Truth
  <2>3. before.top = Top(snapshots[e.previous])
    BY <2>2, <1>4 DEF Truth
  <2>4. /\ e.diff.entered = Top(snapshots[e.current]) \ Top(snapshots[e.previous])
        /\ e.diff.exited = Top(snapshots[e.previous]) \ Top(snapshots[e.current])
    BY <1>1, <1>4 DEF Founded, EnteredOf, ExitedOf
  <2>5. (before.top \ e.diff.exited) \cup e.diff.entered = Top(snapshots[e.current])
    BY <2>3, <2>4
  <2>6. TakenUp(i, before) = [run |-> e.current, top |-> (before.top \ e.diff.exited) \cup e.diff.entered]
    BY <1>2, <1>4 DEF TakenUp
  <2>7. QED BY <1>3, <2>5, <2>6
<1>5. CASE ~(e.diff.ready /\ e.previous = before.run)
  BY <1>2, <1>3, <1>5 DEF TakenUp
<1>6. QED BY <1>4, <1>5

LEMMA ReaderKnows ==
  ASSUME Chain
  PROVE  Followed = Truth(Len(diffs))
<1> DEFINE n == Len(diffs)
           f == CHOOSE f : Reads(f)
           g == [i \in 0 .. n |-> Truth(i)]
<1>1. n \in Nat
  BY DEF Chain
<1>2. Reads(g)
  <2>1. \A i \in 1 .. n : g[i - 1] = Truth(i - 1)
    BY <1>1
  <2>2. ASSUME NEW i \in 0 .. n PROVE g[i] = TakenUp(i, g[i - 1])
    <3>1. CASE i = 0
      BY <1>1, <3>1 DEF TakenUp, Truth
    <3>2. CASE i \in 1 .. n
      BY <2>1, <3>2, TruthTakenUp
    <3>3. QED BY <1>1, <3>1, <3>2
  <2>3. g = [i \in 0 .. n |-> g[i]]
    OBVIOUS
  <2> HIDE DEF g
  <2>4. g = [i \in 0 .. n |-> TakenUp(i, g[i - 1])]
    BY <2>2, <2>3
  <2>5. QED BY <2>4 DEF Reads
<1>3. Reads(f)
  BY <1>2
<1>4. Followed = f[n]
  BY DEF Followed, Reads, TakenUp
<1> HIDE DEF f, g
<1>5. \A i \in 0 .. n : f[i] = TakenUp(i, f[i - 1])
  <2>1. f = [i \in 0 .. n |-> TakenUp(i, f[i - 1])]
    BY <1>3 DEF Reads
  <2> DEFINE h == [i \in 0 .. n |-> TakenUp(i, f[i - 1])]
  <2>2. \A i \in 0 .. n : h[i] = TakenUp(i, f[i - 1])
    OBVIOUS
  <2>3. f = h
    BY <2>1
  <2> HIDE DEF h
  <2>4. QED BY ONLY <2>2, <2>3
<1> HIDE DEF n
<1> DEFINE P == {k \in Nat : k <= n => f[k] = Truth(k)}
<1>6. 0 \in P
  <2>1. TakenUp(0, f[0 - 1]) = Truth(0)
    BY DEF TakenUp, Truth
  <2>2. 0 \in 0 .. n
    BY <1>1
  <2>3. f[0] = TakenUp(0, f[0 - 1])
    BY ONLY <1>5, <2>2
  <2>4. QED BY <2>1, <2>3
<1>7. ASSUME NEW k \in P PROVE k + 1 \in P
  <2> SUFFICES ASSUME k + 1 <= n PROVE f[k + 1] = Truth(k + 1)
    BY <1>1
  <2>1. k + 1 \in 1 .. n /\ k + 1 \in 0 .. n /\ (k + 1) - 1 = k /\ k <= n
    BY <1>1
  <2>2. f[k + 1] = TakenUp(k + 1, f[(k + 1) - 1])
    BY <1>5, <2>1
  <2>3. f[(k + 1) - 1] = Truth((k + 1) - 1)
    BY <2>1
  <2>4. TakenUp(k + 1, f[(k + 1) - 1]) = Truth(k + 1)
    BY <2>1, <2>3, TruthTakenUp DEF n
  <2>5. QED BY <2>2, <2>4
<1>8. P = Nat
  <2> HIDE DEF P
  <2>1. P \in SUBSET Nat
    BY DEF P
  <2>2. QED BY <1>6, <1>7, <2>1, EveryNumber
<1>9. f[n] = Truth(n)
  BY <1>1, <1>8
<1>10. QED BY <1>4, <1>9 DEF n

\* Who follows the published diffs knows the top opportunities of the last one
\* (build_market_diff_payload, generate_market_diff.main), for any number of
\* commands, however they overlap, die or tear their snapshot.
THEOREM FollowedIsTrue == BriefSpec => []DiffsCompose
<1>1. Chain => DiffsCompose
  <2> SUFFICES ASSUME Chain, diffs # <<>>
               PROVE  Followed.top = Top(snapshots[Last(diffs).current])
    BY DEF DiffsCompose
  <2>1. Len(diffs) \in Nat /\ diffs = [i \in 1 .. Len(diffs) |-> diffs[i]]
    BY DEF Chain
  <2>2. Len(diffs) # 0
    <3> SUFFICES ASSUME Len(diffs) = 0 PROVE FALSE
      OBVIOUS
    <3>1. DOMAIN diffs = {}
      BY <2>1
    <3>2. diffs = <<>>
      BY <2>1, <3>1
    <3>3. QED BY <3>2
  <2>3. Followed = [run |-> diffs[Len(diffs)].current, top |-> Top(snapshots[diffs[Len(diffs)].current])]
    BY <2>2, ReaderKnows DEF Truth
  <2>4. QED BY <2>3 DEF Last
<1>2. QED BY <1>1, ChainInit, ChainNext, PTL DEF BriefSpec

\* Types of the board, the files and the commands (generate_market_diff.main).
THEOREM BriefTypes == BriefSpec => []BriefTypeOK
<1>1. Chain => BriefTypeOK
  <2> SUFFICES ASSUME Chain PROVE BriefTypeOK
    OBVIOUS
  <2>1. /\ board \in [Brief -> [state : {"open", "closed", "inactive"}, rating : Ratings \cup {None}]]
        /\ begun \in 0 .. MaxDiffs /\ DOMAIN snapshots \subseteq 1 .. begun
    BY DEF Chain, Board
  <2>2. ASSUME NEW r \in DOMAIN snapshots, snapshots[r] # None
        PROVE  \E S \in SUBSET Brief : snapshots[r] \in [S -> DiffItem]
    BY <2>2 DEF Chain, Files
  <2>3. \A i \in DOMAIN diffs : diffs[i].current \in DOMAIN snapshots
    BY DEF Chain, Founded
  <2>4. \A d \in Differ : differs[d] # None => differs[d].run \in 1 .. begun
    BY DEF Chain, Informed
  <2>5. QED BY <2>1, <2>2, <2>3, <2>4 DEF BriefTypeOK
<1>2. QED BY <1>1, ChainInit, ChainNext, PTL DEF BriefSpec
===============================================================================
