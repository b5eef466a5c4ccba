------------------------------ MODULE CopyLedger ------------------------------
(***************************************************************************)
(* What the copy-trading back end promises about its demo book, whatever   *)
(* the order in which scans, settlements, reconciliations, crashes and     *)
(* wallet edits happen:                                                    *)
(*   - a public trade of a followed wallet is decided at most once;        *)
(*   - the demo position it may produce is created together with that      *)
(*     decision, never later and never a second time;                      *)
(*   - a finished position stays finished;                                 *)
(*   - all of this goes away only when the user stops following the wallet.*)
(* One Record step is one database commit: it may decide many trades and   *)
(* finish many positions at once.                                          *)
(***************************************************************************)
CONSTANTS
  Wallet,   \* the public wallets a user may follow
  Key       \* the identities (dedupe keys) of public trades

SourceTrade == Wallet \X Key

VARIABLES
  followed,  \* wallets being followed
  decided,   \* source trades that were detected and decided
  live,      \* source trades whose demo position is not finished yet
  done       \* source trades whose demo position is closed or cancelled

vars == <<followed, decided, live, done>>

TypeOK ==
  /\ followed \in SUBSET Wallet
  /\ decided \in SUBSET SourceTrade
  /\ live \in SUBSET decided
  /\ done \in SUBSET decided
  /\ live \cap done = {}
  /\ \A x \in decided : x[1] \in followed

Init ==
  /\ followed = {}
  /\ decided = {}
  /\ live = {}
  /\ done = {}

OthersThan(w, S) == {x \in S : x[1] # w}

Follow(w) ==
  /\ w \notin followed
  /\ followed' = followed \cup {w}
  /\ UNCHANGED <<decided, live, done>>

Unfollow(w) ==
  /\ w \in followed
  /\ followed' = followed \ {w}
  /\ decided' = OthersThan(w, decided)
  /\ live' = OthersThan(w, live)
  /\ done' = OthersThan(w, done)

\* A commit only adds decisions, opens positions only for the trades it
\* decides, and never reopens or forgets a position.
Record ==
  /\ decided' \in SUBSET (followed \X Key)
  /\ decided \subseteq decided'
  /\ live' \in SUBSET decided'
  /\ done' \in SUBSET decided'
  /\ live' \cap done' = {}
  /\ done \subseteq done'
  /\ live \subseteq live' \cup done'
  /\ ((live' \cup done') \ (live \cup done)) \cap decided = {}
  /\ UNCHANGED followed

Next ==
  \/ \E w \in Wallet : Follow(w) \/ Unfollow(w)
  \/ Record

Spec == Init /\ [][Next]_vars
===============================================================================
