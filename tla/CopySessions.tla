----------------------------- MODULE CopySessions -----------------------------
(***************************************************************************)
(* Several database sessions writing the demo book of one followed wallet  *)
(* at the same time: the watcher's cycle, scans and settlements asked over *)
(* HTTP, and the reconciliation command, each in its own transaction.      *)
(* CopyEngine says what one operation does to the tables; this module      *)
(* keeps of it what sessions can disturb in one another: when a row is     *)
(* read, when it is written and what the transaction holds in between.     *)
(* All trades are of one token and pass the copy rules.                    *)
(*                                                                         *)
(* The database is PostgreSQL at READ COMMITTED: a query sees what is      *)
(* committed and the session's own writes; an INSERT of a key another      *)
(* transaction inserted, and an UPDATE of a row it wrote, wait for its     *)
(* end; a cycle of waits is broken by failing one of the waiting           *)
(* statements.  The ORM keeps a loaded row until the operation is done     *)
(* with it and an UPDATE sets only the columns that differ from it.        *)
(***************************************************************************)
EXTENDS NoValue, Naturals, Sequences, SequencesExt

CONSTANTS
  Session,    \* threads and processes that run operations
  Buy, Sell,  \* the public trades of the wallet
  Position    \* numbers for positions, in the order of their opened_at

Trade == Buy \cup Sell
LiveStatus == {"open", "waiting_resolution"}

ASSUME ConstantsOK ==
  /\ Position \subseteq Nat
  /\ Buy \cap Sell = {} /\ None \notin Trade \cup Position \cup Session
  /\ "payout" \notin Trade \cup {None}

VARIABLES
  feed,        \* the public trades so far, newest first
  outcome,     \* the market: "active", "expired" or "resolved"
  trades,      \* committed detected trades
  rows,        \* committed positions
  kind,        \* what each session is running, "idle" when nothing
  pc,          \* the statement it is about to execute
  batch,       \* trades its scan still has to handle
  queue,       \* positions its settlement or reconciliation still has to handle
  mem,         \* positions as its ORM session loaded them
  target,      \* the position it is about to update
  goal,        \* ... and what it wants that row to become
  added,       \* trades it inserted and has not committed
  dirty,       \* positions it wrote and has not committed
  walletLock   \* the session whose transaction has updated the wallet's row

world == <<feed, outcome>>
tables == <<trades, rows>>
locals == <<kind, pc, batch, queue, mem, target, goal>>
writes == <<added, dirty, walletLock>>
vars == <<world, tables, locals, writes>>

Row ==
  [trade: Buy, status: LiveStatus \cup {"closed"}, exit: Sell \cup {"payout", None},
   closing: Sell \cup {None}, closed: BOOLEAN]
NoRows == [p \in {} |-> None]
Over(f, g) == [p \in DOMAIN f \cup DOMAIN g |-> IF p \in DOMAIN g THEN g[p] ELSE f[p]]

-------------------------------------------------------------------------------
Init ==
  /\ feed = <<>> /\ outcome = "active"
  /\ trades = {} /\ rows = NoRows
  /\ kind = [s \in Session |-> "idle"] /\ pc = [s \in Session |-> "begin"]
  /\ batch = [s \in Session |-> <<>>] /\ queue = [s \in Session |-> {}]
  /\ mem = [s \in Session |-> NoRows]
  /\ target = [s \in Session |-> None] /\ goal = [s \in Session |-> None]
  /\ added = [s \in Session |-> {}] /\ dirty = [s \in Session |-> NoRows]
  /\ walletLock = None

Publish(t) ==
  /\ ~Contains(feed, t)
  /\ feed' = <<t>> \o feed
  /\ UNCHANGED <<outcome, tables, locals, writes>>

MarketMoves ==
  /\ \/ outcome = "active" /\ outcome' \in {"expired", "resolved"}
     \/ outcome = "expired" /\ outcome' = "resolved"
  /\ UNCHANGED <<feed, tables, locals, writes>>

\* What a query of session s sees.
Seen(s) == Over(rows, dirty[s])
Open(s) == {p \in DOMAIN Seen(s) : Seen(s)[p].status = "open"}
Live(s) == {p \in DOMAIN Seen(s) : Seen(s)[p].status \in LiveStatus}

Goto(s, where) == pc' = [pc EXCEPT ![s] = where]

Begin(s, what, first) ==
  /\ kind[s] = "idle"
  /\ kind' = [kind EXCEPT ![s] = what]
  /\ Goto(s, first)
  /\ UNCHANGED <<world, tables, queue, mem, target, goal, writes>>

\* The public API answers at once or fails; a failed scan only touches the wallet.
BeginScan(s) ==
  \E what \in {"cycle", "scan"} :
    \/ Begin(s, what, "next") /\ batch' = [batch EXCEPT ![s] = feed]
    \/ Begin(s, what, "touch") /\ UNCHANGED batch

BeginOther(s) ==
  /\ \E what \in {"settlement", "reconciliation"} : Begin(s, what, "load")
  /\ UNCHANGED batch

-------------------------------------------------------------------------------
(* A scan.                                                                 *)

Skip(s) == batch' = [batch EXCEPT ![s] = Tail(@)]

\* create_detected_trade asks whether the trade is stored ...
Look(s) ==
  /\ pc[s] = "next" /\ batch[s] # <<>>
  /\ IF Head(batch[s]) \in trades \cup added[s]
     THEN Skip(s) /\ UNCHANGED pc
     ELSE Goto(s, "insert") /\ UNCHANGED batch
  /\ UNCHANGED <<world, tables, kind, queue, mem, target, goal, writes>>

InsertWaits(s, r) == Head(batch[s]) \in added[r]

\* Mutant: no unique constraint on (wallet, dedupe key).
InsertUnchecked(s) ==
  /\ pc[s] = "insert"
  /\ added' = [added EXCEPT ![s] = @ \cup {Head(batch[s])}]
  /\ Goto(s, IF Head(batch[s]) \in Sell THEN "match" ELSE "order")
  /\ UNCHANGED <<world, tables, kind, batch, queue, mem, target, goal, dirty, walletLock>>

\* ... and inserts it, once no other transaction is inserting the same key.
Insert(s) ==
  /\ pc[s] = "insert"
  /\ \A r \in Session \ {s} : ~InsertWaits(s, r)
  /\ Head(batch[s]) \notin trades
  /\ added' = [added EXCEPT ![s] = @ \cup {Head(batch[s])}]
  /\ Goto(s, IF Head(batch[s]) \in Sell THEN "match" ELSE "order")
  /\ UNCHANGED <<world, tables, kind, batch, queue, mem, target, goal, dirty, walletLock>>

Sold(row, sale) ==
  [row EXCEPT !.status = "closed", !.exit = sale, !.closing = sale, !.closed = TRUE]

Aim(s, p, row, new) ==
  /\ mem' = [mem EXCEPT ![s] = Over(@, [q \in {p} |-> row])]
  /\ target' = [target EXCEPT ![s] = p]
  /\ goal' = [goal EXCEPT ![s] = new]

\* The newest open position is read before the order is written.
Match(s) ==
  /\ pc[s] = "match"
  /\ Goto(s, "order")
  /\ IF Open(s) = {} THEN UNCHANGED <<mem, target, goal>>
     ELSE \E p \in Open(s) :
            /\ \A q \in Open(s) : q <= p
            /\ Aim(s, p, Seen(s)[p], Sold(Seen(s)[p], Head(batch[s])))
  /\ UNCHANGED <<world, tables, kind, batch, queue, writes>>

WalletFree(s) == walletLock \in {None, s}
TakeWallet(s) == WalletFree(s) /\ walletLock' = s

Fresh == {p \in Position : p \notin DOMAIN rows /\ \A s \in Session : p \notin DOMAIN dirty[s]}
Opened(t) == [trade |-> t, status |-> "open", exit |-> None, closing |-> None, closed |-> FALSE]

\* The flush of the order (or of the event of an unmatched sale) also writes the
\* wallet's last_trade_at.  A BUY's position is inserted along with it.
Order(s) ==
  LET t == Head(batch[s]) IN
  /\ pc[s] = "order"
  /\ TakeWallet(s)
  /\ IF t \in Buy
     THEN \E p \in Fresh : dirty' = [dirty EXCEPT ![s] = Over(@, [q \in {p} |-> Opened(t)])]
     ELSE UNCHANGED dirty
  /\ IF target[s] = None
     THEN Skip(s) /\ Goto(s, "next")
     ELSE Goto(s, "write") /\ UNCHANGED batch
  /\ UNCHANGED <<world, tables, kind, queue, mem, target, goal, added>>

EndBatch(s) ==
  /\ pc[s] = "next" /\ batch[s] = <<>>
  /\ Goto(s, "touch")
  /\ UNCHANGED <<world, tables, kind, batch, queue, mem, target, goal, writes>>

\* touch_wallet_scan; a cycle goes on to settle when a settlement is due.
Touch(s) ==
  /\ pc[s] = "touch"
  /\ TakeWallet(s)
  /\ \/ Goto(s, "ready")
     \/ kind[s] = "cycle" /\ Goto(s, "load")
  /\ UNCHANGED <<world, tables, kind, batch, queue, mem, target, goal, added, dirty>>

-------------------------------------------------------------------------------
(* Settlement and reconciliation.                                          *)

Load(s) ==
  LET S == IF kind[s] = "reconciliation" THEN Open(s) ELSE Live(s) IN
  /\ pc[s] = "load"
  /\ queue' = [queue EXCEPT ![s] = S]
  /\ mem' = [mem EXCEPT ![s] = [p \in S |-> Seen(s)[p]]]
  /\ Goto(s, "decide")
  /\ UNCHANGED <<world, tables, kind, batch, target, goal, writes>>

\* The market's tables may lag: an expired market may still look active.
Settled(row) ==
  IF outcome = "resolved"
  THEN {[row EXCEPT !.status = "closed", !.exit = "payout", !.closed = TRUE]}
  ELSE {[row EXCEPT !.status = "open", !.closed = FALSE]}
         \cup IF outcome = "expired"
              THEN {[row EXCEPT !.status = "waiting_resolution", !.closed = FALSE]}
              ELSE {}

\* Sales stored by now and published after the position's trade.
Before(t, u) == \E i, j \in DOMAIN feed : i > j /\ feed[i] = t /\ feed[j] = u
LaterSales(s, row) == {t \in Sell \cap (trades \cup added[s]) : Before(row.trade, t)}

\* Positions are handled in the order of their opened_at.
Oldest(s) == {p \in queue[s] : \A q \in queue[s] : p <= q}

\* The decision is taken on the row as it was loaded.
Decide(s) ==
  /\ pc[s] = "decide"
  /\ \E p \in Oldest(s) :
       LET row == mem[s][p] IN
       \E new \in IF kind[s] = "reconciliation"
                 THEN {Sold(row, t) : t \in LaterSales(s, row)}
                 ELSE Settled(row) :
         Aim(s, p, row, new)
  /\ Goto(s, "write")
  /\ UNCHANGED <<world, tables, kind, batch, queue, writes>>

Drop(s, p) ==
  /\ queue' = [queue EXCEPT ![s] = @ \ {p}]
  /\ target' = [target EXCEPT ![s] = None]
  /\ goal' = [goal EXCEPT ![s] = None]

\* No sale, or none after the position was opened.
LeavePosition(s) ==
  /\ pc[s] = "decide" /\ kind[s] = "reconciliation"
  /\ \E p \in Oldest(s) : Drop(s, p)
  /\ UNCHANGED <<world, tables, kind, pc, batch, mem, writes>>

\* The columns that differ from the loaded row, over the row as it is now.
Updated(s, now) ==
  LET p == target[s] IN
  [c \in DOMAIN now |-> IF goal[s][c] # mem[s][p][c] THEN goal[s][c] ELSE now[c]]

WriteWaits(s, r) == target[s] \in DOMAIN dirty[r]

Write(s) ==
  LET p == target[s] IN
  /\ pc[s] = "write"
  /\ \/ /\ \A r \in Session \ {s} : ~WriteWaits(s, r)
        /\ dirty' = [dirty EXCEPT
             ![s] = Over(@, [q \in {p} |-> Updated(s, Seen(s)[p])])]
     \* Nothing differs; another UPDATE (of its source label) may lock the row or not.
     \/ goal[s] = mem[s][p] /\ UNCHANGED dirty
  /\ IF batch[s] # <<>>
     THEN /\ Skip(s) /\ Goto(s, "next")
          /\ target' = [target EXCEPT ![s] = None] /\ goal' = [goal EXCEPT ![s] = None]
          /\ UNCHANGED queue
     ELSE Drop(s, p) /\ Goto(s, "decide") /\ UNCHANGED batch
  /\ UNCHANGED <<world, tables, kind, mem, added, walletLock>>

EndQueue(s) ==
  /\ pc[s] = "decide" /\ queue[s] = {}
  /\ Goto(s, "ready")
  /\ UNCHANGED <<world, tables, kind, batch, queue, mem, target, goal, writes>>

-------------------------------------------------------------------------------
(* Ends of a transaction.                                                  *)

\* Mutant: the transaction is left open.
FinishedUnreleased(s) ==
  /\ kind' = [kind EXCEPT ![s] = "idle"] /\ Goto(s, "begin")
  /\ batch' = [batch EXCEPT ![s] = <<>>] /\ queue' = [queue EXCEPT ![s] = {}]
  /\ mem' = [mem EXCEPT ![s] = NoRows]
  /\ target' = [target EXCEPT ![s] = None] /\ goal' = [goal EXCEPT ![s] = None]
  /\ added' = [added EXCEPT ![s] = {}] /\ dirty' = [dirty EXCEPT ![s] = NoRows]
  /\ UNCHANGED <<walletLock, world>>

Finished(s) ==
  /\ kind' = [kind EXCEPT ![s] = "idle"] /\ Goto(s, "begin")
  /\ batch' = [batch EXCEPT ![s] = <<>>] /\ queue' = [queue EXCEPT ![s] = {}]
  /\ mem' = [mem EXCEPT ![s] = NoRows]
  /\ target' = [target EXCEPT ![s] = None] /\ goal' = [goal EXCEPT ![s] = None]
  /\ added' = [added EXCEPT ![s] = {}] /\ dirty' = [dirty EXCEPT ![s] = NoRows]
  /\ walletLock' = IF walletLock = s THEN None ELSE walletLock
  /\ UNCHANGED world

Commit(s) ==
  /\ pc[s] = "ready"
  /\ trades' = trades \cup added[s]
  /\ rows' = Seen(s)
  /\ Finished(s)

\* The unique constraint on (wallet, dedupe key) fails the insert; the flush rolls
\* the whole transaction back.
DuplicateKey(s) ==
  /\ pc[s] = "insert"
  /\ Head(batch[s]) \in trades
  /\ Finished(s)
  /\ UNCHANGED tables

WaitsFor(s, r) ==
  /\ r # s
  /\ \/ pc[s] = "insert" /\ InsertWaits(s, r)
     \/ pc[s] \in {"order", "touch"} /\ walletLock = r
     \/ pc[s] = "write" /\ WriteWaits(s, r)
Deadlocked(s) ==
  \E S \in SUBSET Session :
    /\ s \in S
    /\ \A x \in S : \E y \in S : WaitsFor(x, y)

\* The savepoint of a settlement loses one position only.
DeadlockVictim(s) ==
  /\ Deadlocked(s)
  /\ UNCHANGED tables
  /\ IF pc[s] = "write" /\ batch[s] = <<>> /\ kind[s] # "reconciliation"
     THEN Drop(s, target[s]) /\ Goto(s, "decide") /\ UNCHANGED <<world, kind, batch, mem, writes>>
     ELSE Finished(s)

\* The connection or the process is lost.
Crash(s) ==
  /\ kind[s] # "idle"
  /\ Finished(s)
  /\ UNCHANGED tables

-------------------------------------------------------------------------------
Step(s) ==
  \/ Look(s) \/ Insert(s) \/ Match(s) \/ Order(s) \/ EndBatch(s) \/ Touch(s)
  \/ Load(s) \/ Decide(s) \/ LeavePosition(s) \/ Write(s) \/ EndQueue(s)
  \/ Commit(s) \/ DuplicateKey(s) \/ DeadlockVictim(s)

Next ==
  \/ \E t \in Trade : Publish(t)
  \/ MarketMoves
  \/ \E s \in Session : BeginScan(s) \/ BeginOther(s) \/ Step(s) \/ Crash(s)

Spec == Init /\ [][Next]_vars

\* A session goes on; the database serves waiting statements in turn.
FairSpec == Spec /\ \A s \in Session : SF_vars(Step(s))

-------------------------------------------------------------------------------
(* Properties.                                                             *)

Rows(f) == DOMAIN f \subseteq Position /\ \A p \in DOMAIN f : f[p] \in Row

\* Every variable holds values of its kind.
TypeOK ==
  /\ feed \in Seq(Trade) /\ outcome \in {"active", "expired", "resolved"}
  /\ trades \subseteq Trade /\ Rows(rows)
  /\ kind \in [Session -> {"idle", "cycle", "scan", "settlement", "reconciliation"}]
  /\ pc \in [Session -> {"begin", "next", "insert", "match", "order", "touch",
                         "load", "decide", "write", "ready"}]
  /\ \A s \in Session :
       /\ batch[s] \in Seq(Trade) /\ queue[s] \subseteq Position
       /\ Rows(mem[s]) /\ Rows(dirty[s])
       /\ target[s] \in Position \cup {None} /\ goal[s] \in Row \cup {None}
       /\ added[s] \subseteq Trade
  /\ walletLock \in Session \cup {None}

\* However many sessions find the same trade new, one stores it, and every stored
\* BUY has exactly one position; a position names only stored sales.
OnePositionPerTrade ==
  /\ \A p, q \in DOMAIN rows : rows[p].trade = rows[q].trade => p = q
  /\ Buy \cap trades = {rows[p].trade : p \in DOMAIN rows}
  /\ \A p \in DOMAIN rows : rows[p].closing # None => rows[p].closing \in trades

\* Every operation ends, committed or rolled back, whatever the others hold.
SessionsEnd == \A s \in Session : kind[s] # "idle" ~> kind[s] = "idle"

\* docs/copy-trading-plan.md: closed positions keep their final PnL.  The code lets a
\* session that loaded the position earlier overwrite it.
ClosedKeepsPnl ==
  [][\A p \in DOMAIN rows : rows[p].status = "closed" => rows'[p] = rows[p]]_rows
===============================================================================
