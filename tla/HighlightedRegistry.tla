----------------------------- MODULE HighlightedRegistry -----------------------------
(***************************************************************************)
(* The global registry of highlighted wallets.  An upsert reads the row,   *)
(* computes its columns and commits; its UPDATE holds only the columns     *)
(* that differ from what it had read, so upserts that overlap mix their    *)
(* columns in one row.                                                     *)
(***************************************************************************)
EXTENDS NoValue, Integers

CONSTANTS
  Address,     \* wallets
  Poster,      \* requests that upsert profiles
  Payloads     \* what they carry: [win, closed, pnl, capital, gone]

Numbers == Int \cup {None}
ProfileRow == [win : Numbers, closed : Numbers, pnl : Numbers, capital : Numbers,
               qualifies : BOOLEAN, gone : BOOLEAN]

ASSUME RegistryConstantsOK ==
  /\ Payloads \subseteq [win : Numbers, closed : Numbers, pnl : Numbers, capital : Numbers,
                         gone : BOOLEAN]
  /\ None \notin ProfileRow

VARIABLES
  highlighted,  \* highlighted_wallet_profiles: None or a row
  posting       \* what each poster has read and wants to write, or None

registryVars == <<highlighted, posting>>

\* SQLAlchemy: the columns of new that differ from old are written over row.
Written(row, old, new) == [k \in DOMAIN row |-> IF new[k] = old[k] THEN row[k] ELSE new[k]]

MinWinRate == 80
MinClosed == 50
MinCapital == 100

\* Win rates in hundredths: up to one they are fractions, up to a hundred they
\* are percentages, anything else is no win rate.  The result is in percent.
WinRate(raw) ==
  CASE raw = None -> None
    [] raw # None /\ raw \in 0 .. 100 -> raw
    [] raw # None /\ raw \in 101 .. 10000 -> raw \div 100
    [] OTHER -> None

AtLeast(value, bound) == value # None /\ value >= bound

MeetsRule(win, closed, pnl, capital) ==
  /\ AtLeast(win, MinWinRate)
  /\ AtLeast(closed, MinClosed)
  /\ pnl # None \/ AtLeast(capital, MinCapital)

Qualifies(payload) == MeetsRule(WinRate(payload.win), payload.closed, payload.pnl, payload.capital)

Blank == [win |-> None, closed |-> None, pnl |-> None, capital |-> None,
          qualifies |-> FALSE, gone |-> FALSE]

Stored(old, new) == IF new = None THEN old ELSE new
Larger(old, new) == IF old = None \/ AtLeast(new, old) THEN new ELSE old

\* Mutant: only a profile that qualified until now is marked.
MarkedOnce(read, payload) == (read # None /\ read.qualifies /\ ~Qualifies(payload)) \/ payload.gone
Marked(read, payload) == (read # None /\ ~Qualifies(payload)) \/ payload.gone

Upserted(read, payload) ==
  LET old == IF read = None THEN Blank ELSE read
  IN  [win |-> IF payload.win = None THEN old.win ELSE WinRate(payload.win),
       closed |-> Stored(old.closed, payload.closed),
       pnl |-> Stored(old.pnl, payload.pnl),
       capital |-> IF payload.capital = None THEN old.capital ELSE Larger(old.capital, payload.capital),
       qualifies |-> Qualifies(payload),
       gone |-> Marked(read, payload)]

\* A new profile that does not qualify is refused.
BeginUpsert(p, w, payload) ==
  /\ posting[p] = None
  /\ highlighted[w] # None \/ Qualifies(payload)
  /\ posting' = [posting EXCEPT ![p] =
       [wallet |-> w, read |-> highlighted[w], row |-> Upserted(highlighted[w], payload)]]
  /\ UNCHANGED highlighted

\* A second insert of the same wallet breaks the unique key and fails.
CommitUpsert(p) ==
  LET q == posting[p]
      w == q.wallet
  IN  /\ q # None
      /\ highlighted' =
           CASE q.read # None -> [highlighted EXCEPT ![w] = Written(@, q.read, q.row)]
             [] q.read = None /\ highlighted[w] = None -> [highlighted EXCEPT ![w] = q.row]
             [] OTHER -> highlighted
      /\ posting' = [posting EXCEPT ![p] = None]
-------------------------------------------------------------------------------
RegistryInit ==
  /\ highlighted = [w \in Address |-> None]
  /\ posting = [p \in Poster |-> None]

RegistryNext ==
  \/ \E p \in Poster, w \in Address, payload \in Payloads : BeginUpsert(p, w, payload)
  \/ \E p \in Poster : CommitUpsert(p)

RegistrySpec == RegistryInit /\ [][RegistryNext]_registryVars
-------------------------------------------------------------------------------
RegistryTypeOK ==
  /\ highlighted \in [Address -> ProfileRow \cup {None}]
  /\ posting \in [Poster -> [wallet : Address, read : ProfileRow \cup {None},
                             row : ProfileRow] \cup {None}]

MarkedRow(row) ==
  ~MeetsRule(row.win, row.closed, row.pnl, row.capital) => row.gone /\ ~row.qualifies

\* docs/profiles-plan.md: a stored profile whose numbers fall below the rule is
\* marked, however the upserts that left those numbers followed each other.
\* (upsert_highlighted_profile)
BelowTheRuleIsMarked == \A w \in Address : highlighted[w] # None => MarkedRow(highlighted[w])

\* However many posts overlap on a profile, the mark and the numbers are in step again
\* as soon as one post commits over the row it had read, whatever mixture of earlier
\* posts that row was: the post reckons with the stored numbers it does not replace.
\* (upsert_highlighted_profile)
UndisturbedPostsMark ==
  [][\A p \in Poster :
       posting[p] # None /\ posting'[p] = None =>
         LET w == posting[p].wallet
         IN  highlighted[w] = posting[p].read => highlighted'[w] # None /\ MarkedRow(highlighted'[w])]_registryVars
===============================================================================
