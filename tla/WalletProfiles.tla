----------------------------- MODULE WalletProfiles -----------------------------
(***************************************************************************)
(* The profiles saved from wallet analyses, and the copy wallets they      *)
(* activate.  A request reads the row, computes its columns and commits;   *)
(* its UPDATE holds only the columns that differ from what it had read, so *)
(* requests that overlap mix their columns in one row.                     *)
(***************************************************************************)
EXTENDS NoValue, Integers, Sequences, SequencesExt

CONSTANTS
  ProfileAddress,   \* wallets
  Client,           \* requests on the profiles
  Links,            \* what a link resolves to: sequences of [title, open]
  Edits,            \* notes people write
  ChosenStatuses,   \* statuses people give
  MaxJobs, MaxCandidates

ASSUME ProfileConstantsOK ==
  /\ MaxJobs \in Nat /\ MaxCandidates \in Nat /\ None \notin Edits
  /\ ChosenStatuses \subseteq {"candidate", "watching", "demo_follow", "paused", "rejected"}

VARIABLES
  jobs,         \* titles of the markets analysed
  candidates,   \* wallets that analyses have found: [job, wallet, score]
  profiles,     \* wallet_profiles: None or a row
  copies,       \* copy_wallets: None, or whether the wallet is enabled
  editing       \* what each client has read and wants to write, or None

profileVars == <<jobs, candidates, profiles, copies, editing>>

Statuses == {"candidate", "watching", "demo_follow", "paused", "rejected"}

\* Mutant: the whole row is written.
ColumnsWrittenWhole(row, old, new) == new
\* SQLAlchemy: the columns of new that differ from old are written over row.
ColumnsWritten(row, old, new) == [k \in DOMAIN row |-> IF new[k] = old[k] THEN row[k] ELSE new[k]]

-------------------------------------------------------------------------------
(* Analyses and the wallets they find.                                     *)

\* The first open market of an event, or the first one.
PrimaryMarket(markets) ==
  LET open == SelectSeq(markets, LAMBDA m : m.open)
  IN  Head(IF open = <<>> THEN markets ELSE open)

CreateJob(markets) ==
  /\ markets # <<>> /\ Len(jobs) < MaxJobs
  /\ jobs' = Append(jobs, PrimaryMarket(markets).title)
  /\ UNCHANGED <<candidates, profiles, copies, editing>>

\* The runner (module AnalysisRunner) stores a candidate.
FindCandidate(j, w, score) ==
  /\ Len(candidates) < MaxCandidates
  /\ candidates' = Append(candidates, [job |-> j, wallet |-> w, score |-> score])
  /\ UNCHANGED <<jobs, profiles, copies, editing>>

-------------------------------------------------------------------------------
(* Wallet profiles.                                                        *)

StoredOr(old, new) == IF new = None THEN old ELSE new

Fresh == [status |-> None, score |-> None, from |-> None, notes |-> None]

\* Mutant: the notes are those of the payload.
SavedBare(read, fields, notes) ==
  [status |-> fields.status, score |-> fields.score, from |-> fields.from, notes |-> notes]
\* create_or_update_wallet_profile: notes are kept unless the payload has some.
Saved(read, fields, notes) ==
  LET old == IF read = None THEN Fresh ELSE read
  IN  [status |-> fields.status, score |-> fields.score, from |-> fields.from,
       notes |-> StoredOr(old.notes, notes)]
\* asked: the notes that the request wants the profile to have, if it says so.
Begins(c, w, row, asked, follows) ==
  /\ editing[c] = None
  /\ editing' = [editing EXCEPT ![c] =
       [wallet |-> w, read |-> profiles[w], row |-> row, asked |-> asked,
        follows |-> follows, copy |-> copies[w]]]
  /\ UNCHANGED <<jobs, candidates, profiles, copies>>

BeginSave(c, i) ==
  LET found == candidates[i]
      fields == [status |-> "candidate", score |-> found.score, from |-> jobs[found.job]]
  IN  Begins(c, found.wallet, Saved(profiles[found.wallet], fields, None), {}, FALSE)

BeginPost(c, w, status, notes) ==
  LET fields == [status |-> status, score |-> None, from |-> None]
  IN  Begins(c, w, Saved(profiles[w], fields, notes), {notes} \ {None}, FALSE)

\* PATCH writes the fields that the request has: a null note clears the notes.
BeginPatchStatus(c, w, status) ==
  /\ profiles[w] # None
  /\ Begins(c, w, [profiles[w] EXCEPT !.status = status], {}, FALSE)

BeginPatchNotes(c, w, notes) ==
  /\ profiles[w] # None
  /\ Begins(c, w, [profiles[w] EXCEPT !.notes = notes], {notes}, FALSE)

\* Activating demo follow enables the copy wallet, or creates it.
BeginFollow(c, w) ==
  /\ profiles[w] # None
  /\ Begins(c, w, [profiles[w] EXCEPT !.status = "demo_follow"], {}, TRUE)

\* The insert of a profile or of a copy wallet that is there by now fails, and
\* so does reading back a copy wallet that is gone: nothing is written.
Refused(e) ==
  \/ e.read = None /\ profiles[e.wallet] # None
  \/ e.follows /\ (e.copy = None) # (copies[e.wallet] = None)

CommitEdit(c) ==
  LET e == editing[c]
      w == e.wallet
  IN  /\ e # None
      /\ editing' = [editing EXCEPT ![c] = None]
      /\ IF Refused(e) THEN UNCHANGED <<profiles, copies>>
         ELSE /\ profiles' = [profiles EXCEPT ![w] =
                   IF e.read = None THEN e.row ELSE ColumnsWritten(@, e.read, e.row)]
              /\ copies' = [copies EXCEPT ![w] = IF e.follows /\ e.copy # TRUE THEN TRUE ELSE @]
      /\ UNCHANGED <<jobs, candidates>>

\* Copy trading disables or deletes its wallets without looking at the profiles.
ChangeCopy(w, enabled) ==
  /\ copies[w] # None /\ copies[w] # enabled
  /\ copies' = [copies EXCEPT ![w] = enabled]
  /\ UNCHANGED <<jobs, candidates, profiles, editing>>

-------------------------------------------------------------------------------
ProfileInit ==
  /\ jobs = <<>>
  /\ candidates = <<>>
  /\ profiles = [w \in ProfileAddress |-> None]
  /\ copies = [w \in ProfileAddress |-> None]
  /\ editing = [c \in Client |-> None]

ClientStep(c) ==
  \/ \E i \in DOMAIN candidates : BeginSave(c, i)
  \/ \E w \in ProfileAddress, status \in ChosenStatuses, n \in Edits \cup {None} : BeginPost(c, w, status, n)
  \/ \E w \in ProfileAddress, status \in ChosenStatuses : BeginPatchStatus(c, w, status)
  \/ \E w \in ProfileAddress, n \in Edits \cup {None} : BeginPatchNotes(c, w, n)
  \/ \E w \in ProfileAddress : BeginFollow(c, w)
  \/ CommitEdit(c)

ProfileNext ==
  \/ \E markets \in Links : CreateJob(markets)
  \/ \E j \in DOMAIN jobs, w \in ProfileAddress : FindCandidate(j, w, Len(candidates))
  \/ \E c \in Client : ClientStep(c)
  \/ \E w \in ProfileAddress, enabled \in {FALSE, None} : ChangeCopy(w, enabled)

ProfileSpec == ProfileInit /\ [][ProfileNext]_profileVars

-------------------------------------------------------------------------------
ProfileTypeOK ==
  /\ \A w \in ProfileAddress :
       /\ profiles[w] # None => profiles[w].status \in Statuses
       /\ copies[w] \in {None, TRUE, FALSE}
  /\ Len(jobs) <= MaxJobs /\ Len(candidates) <= MaxCandidates

\* The notes of a profile change only to what a request asked for, even if it
\* commits over changes it has not seen: no candidate that is saved again, and
\* no activation, undoes what somebody wrote.  (create_or_update_wallet_profile,
\* update_wallet_profile, follow_wallet_profile_in_demo)
NotesSurvive ==
  [][\A w \in ProfileAddress :
       (profiles[w] # None /\ profiles'[w].notes # profiles[w].notes) =>
         \E c \in Client : /\ editing[c] # None /\ editing'[c] = None
                           /\ editing[c].wallet = w
                           /\ profiles'[w].notes \in editing[c].asked]_profileVars
===============================================================================
