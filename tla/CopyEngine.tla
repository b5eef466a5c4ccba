------------------------------ MODULE CopyEngine ------------------------------
(***************************************************************************)
(* The demo copy-trading engine: followed wallets, the trades detected in  *)
(* their public feeds, the simulated orders and the demo positions, with   *)
(* the four operations that write them: a watcher cycle (scan every        *)
(* eligible wallet, then settle), a scan of one wallet or of all of them   *)
(* on request, a settlement run and the exit reconciliation command.  Each *)
(* operation is one database transaction taken trade by trade or position  *)
(* by position; their writes do not mix (CopySessions lets them), but an   *)
(* operation may have read its clock before others wrote and committed.    *)
(* Users edit wallets and the outside world moves in between its steps.    *)
(*                                                                         *)
(* `db' holds the committed rows, `work' what the running operation sees:  *)
(* the same rows plus its own uncommitted writes.                          *)
(***************************************************************************)
EXTENDS NoValue, Naturals, Sequences, FiniteSets

CONSTANTS
  Wallet, Market, Asset, Outcome, Tx,  \* public wallets, condition ids, token ids, labels, hashes
  Settings,     \* the configurations a user may give a wallet
  Content,      \* what a public trade may say
  TokenSide,    \* the side ("yes", "no" or None) of a token in its market
  FullPrice,    \* the payout of a winning token (1.00)
  FetchLimit,   \* trades asked from the public API per scan
  BatchLimit,   \* positions per settlement or reconciliation run
  SettleEvery,  \* seconds between two settlements of the watcher
  Reports,      \* what resolution sources may report
  OrderId,      \* identities for orders; finite, it bounds the order table
  MaxTime, MaxTrades                   \* bounds of the clock and of each feed

Sides == {"buy", "sell"}
Resolution == {"yes", "no", "cancelled", "invalid", "unknown"}
LiveStatus == {"open", "waiting_resolution", "unknown_resolution"}
FinalStatus == {"closed", "cancelled"}

SettingsType ==
  [enabled: BOOLEAN, mode: {"demo", "real"}, buys: BOOLEAN, sells: BOOLEAN,
   window: Nat \cup {None}]
ContentType ==
  [side: Sides \cup {None}, market: Market \cup {None}, asset: Asset \cup {None},
   outcome: Outcome \cup {None}, price: Nat, dated: BOOLEAN]

ASSUME ConstantsOK ==
  /\ None \notin Nat \cup OrderId \cup Wallet \cup Market \cup Asset \cup Outcome \cup Tx
  /\ None \notin Sides \cup Resolution \cup LiveStatus \cup FinalStatus
  /\ Settings \subseteq SettingsType
  /\ Content \subseteq ContentType /\ Reports \subseteq Resolution
  /\ TokenSide \in [Asset -> {"yes", "no", None}]
  /\ FullPrice \in Nat /\ FetchLimit \in Nat /\ BatchLimit \in Nat
  /\ SettleEvery \in Nat /\ MaxTime \in Nat /\ MaxTrades \in Nat
  /\ IsFiniteSet(OrderId)

VARIABLES
  now,         \* the clock
  feed,        \* public trades of each wallet, newest first
  market,      \* what the local tables and Gamma say of each market
  wallets,     \* committed rows of copy_wallets
  db,          \* committed trades, orders and positions
  work,        \* the same, as the running operation sees them
  run,         \* "idle" or the operation that is running
  phase,       \* where it stands: "scan", "settle", "reconcile" or "commit"
  at,          \* the operation's reference time
  seen,        \* wallet rows as loaded when the operation began
  todo,        \* wallets it still has to scan
  cur,         \* the wallet being scanned
  batch,       \* trades of that wallet still to be handled
  queue,       \* positions still to be settled or reconciled
  locked,      \* wallets whose rows the open transaction has locked
  gone,        \* wallets deleted since the operation loaded them
  lastSettle   \* the watcher's _last_settlement_run_at

env == <<now, feed, market>>
opvars == <<run, phase, at, seen, todo, cur, batch, queue, locked, gone>>
vars == <<env, wallets, db, work, opvars, lastSettle>>

-------------------------------------------------------------------------------
(* Rows.  A position is named by its opening order: the engine creates the *)
(* two together.                                                           *)

FieldsKey ==
  (Market \cup {None}) \X (Asset \cup {None}) \X (Sides \cup {None}) \X Nat \X (Nat \cup {None})
DedupeKey == Tx \cup FieldsKey

\* The transaction hash when the feed gives one, else the trade's fields joined
\* (all but the outcome label).
KeyOf(tx, c, ts) ==
  IF tx # None THEN tx ELSE <<c.market, c.asset, c.side, c.price, ts>>

PublicTrade ==
  [key: DedupeKey, ts: Nat \cup {None}, side: Sides \cup {None},
   market: Market \cup {None}, asset: Asset \cup {None},
   outcome: Outcome \cup {None}, price: Nat]
TradeRow ==
  [wallet: Wallet, key: DedupeKey, ts: Nat \cup {None}, side: Sides,
   market: Market \cup {None}, asset: Asset \cup {None},
   outcome: Outcome \cup {None}, price: Nat]
OrderRow ==
  [wallet: Wallet, key: DedupeKey \cup {None}, action: Sides,
   status: {"simulated", "skipped", "blocked"}]
PositionRow ==
  [wallet: Wallet, key: DedupeKey, market: Market \cup {None},
   asset: Asset \cup {None}, outcome: Outcome \cup {None}, entry: Nat,
   opened: Nat, status: LiveStatus \cup FinalStatus, exit: Nat \cup {None},
   closing: OrderId \cup {None}, closed: Nat \cup {None}]

Book(trades, orders, positions) ==
  [trades |-> trades, orders |-> orders, positions |-> positions]
NoRows == [x \in {} |-> None]
EmptyBook == Book({}, NoRows, NoRows)

Put(f, k, v) == [x \in DOMAIN f \cup {k} |-> IF x = k THEN v ELSE f[x]]

Row(w, t) ==
  [wallet |-> w, key |-> t.key, ts |-> t.ts, side |-> t.side, market |-> t.market,
   asset |-> t.asset, outcome |-> t.outcome, price |-> t.price]

WithTrade(d, w, t) == Book(d.trades \cup {Row(w, t)}, d.orders, d.positions)

HasRoom(d) == OrderId \ DOMAIN d.orders # {}
FreshId(d) == CHOOSE o \in OrderId \ DOMAIN d.orders : TRUE

WithOrder(d, o, w, key, action, status) ==
  Book(d.trades,
       Put(d.orders, o, [wallet |-> w, key |-> key, action |-> action, status |-> status]),
       d.positions)

WithOpened(d, p, w, t, time) ==
  Book(d.trades, d.orders,
       Put(d.positions, p,
           [wallet |-> w, key |-> t.key, market |-> t.market, asset |-> t.asset,
            outcome |-> t.outcome, entry |-> t.price, opened |-> time,
            status |-> "open", exit |-> None, closing |-> None, closed |-> None]))

WithPosition(d, p, row) == Book(d.trades, d.orders, Put(d.positions, p, row))

\* Mutant: the closing time is not set.
SoldWithoutTime(row, order, price, time) ==
  [row EXCEPT !.status = "closed", !.exit = price, !.closing = order]

SoldRow(row, order, price, time) ==
  [row EXCEPT !.status = "closed", !.exit = price, !.closing = order, !.closed = time]

WithClosed(d, p, order, price, time) ==
  WithPosition(d, p, SoldRow(d.positions[p], order, price, time))

\* Everything the foreign keys of copy_wallets cascade to.
WithoutWallet(d, w) ==
  Book({t \in d.trades : t.wallet # w},
       [o \in {x \in DOMAIN d.orders : d.orders[x].wallet # w} |-> d.orders[o]],
       [p \in {x \in DOMAIN d.positions : d.positions[x].wallet # w} |-> d.positions[p]])

\* Mutant: the status filter of the settlement query is gone.
AnyPosition(d) == DOMAIN d.positions

Live(d) == {p \in DOMAIN d.positions : d.positions[p].status \in LiveStatus}
Open(d) == {p \in DOMAIN d.positions : d.positions[p].status = "open"}

-------------------------------------------------------------------------------
(* The outside world and the users.                                        *)

Init ==
  /\ now = 0
  /\ feed = [w \in Wallet |-> <<>>]
  /\ market = [m \in Market |-> [outcome |-> None, closed |-> FALSE]]
  /\ wallets = NoRows
  /\ db = EmptyBook /\ work = EmptyBook
  /\ run = "idle" /\ phase = "commit" /\ at = 0
  /\ seen = NoRows /\ todo = {} /\ cur = None /\ batch = <<>> /\ queue = {}
  /\ locked = {} /\ gone = {}
  /\ lastSettle = None

Tick ==
  /\ now < MaxTime
  /\ now' = now + 1
  /\ UNCHANGED <<feed, market, wallets, db, work, opvars, lastSettle>>

\* The followed trader trades: the public API lists it first from now on.
\* Fills of one transaction share its hash.
Publish(w, c, tx) ==
  LET ts == IF c.dated THEN now ELSE None IN
  /\ Len(feed[w]) < MaxTrades
  /\ feed' = [feed EXCEPT ![w] =
       <<[key |-> KeyOf(tx, c, ts), ts |-> ts, side |-> c.side, market |-> c.market,
          asset |-> c.asset, outcome |-> c.outcome, price |-> c.price]>> \o @]
  /\ UNCHANGED <<now, market, wallets, db, work, opvars, lastSettle>>

CloseMarket(m) ==
  /\ ~market[m].closed
  /\ market' = [market EXCEPT ![m].closed = TRUE]
  /\ UNCHANGED <<now, feed, wallets, db, work, opvars, lastSettle>>

\* A resolution source reports; "unknown" may still be replaced.
ReportOutcome(m, o) ==
  /\ market[m].outcome \in {None, "unknown"} \ {o}
  /\ market' = [market EXCEPT ![m].outcome = o]
  /\ UNCHANGED <<now, feed, wallets, db, work, opvars, lastSettle>>

\* The unique constraint on proxy_wallet admits one row per public wallet.
CreateWallet(w, s) ==
  /\ w \notin DOMAIN wallets
  /\ s.enabled
  /\ wallets' = Put(wallets, w, [created |-> now, set |-> s])
  /\ UNCHANGED <<env, db, work, opvars, lastSettle>>

UpdateWallet(w, s) ==
  /\ w \in DOMAIN wallets \ locked
  /\ s # wallets[w].set
  /\ wallets' = [wallets EXCEPT ![w].set = s]
  /\ UNCHANGED <<env, db, work, opvars, lastSettle>>

\* The delete waits for row locks of the open transaction; once committed,
\* its cascades are visible to that transaction too (READ COMMITTED).
DeleteWallet(w) ==
  /\ w \in DOMAIN wallets \ locked
  /\ wallets' = [x \in DOMAIN wallets \ {w} |-> wallets[x]]
  /\ db' = WithoutWallet(db, w)
  /\ work' = WithoutWallet(work, w)
  /\ gone' = IF run = "idle" THEN gone ELSE gone \cup {w}
  /\ UNCHANGED <<env, run, phase, at, seen, todo, cur, batch, queue, locked, lastSettle>>

-------------------------------------------------------------------------------
(* Starting and ending an operation.                                       *)

InCycle == run \in {"cycle", "request"}

Eligible == {w \in DOMAIN wallets : wallets[w].set.enabled /\ wallets[w].set.mode = "demo"}

\* The oldest positions of S, at most BatchLimit of them.
OldestBatches(d, S) ==
  {Q \in SUBSET S :
     /\ Cardinality(Q) = IF Cardinality(S) <= BatchLimit THEN Cardinality(S) ELSE BatchLimit
     /\ \A p \in Q, q \in S \ Q : d.positions[p].opened <= d.positions[q].opened}

\* Sessions overlap: the operation may have read its clock long ago, and others may
\* have opened positions and committed them since.
Begin(kind, first, targets) ==
  /\ run = "idle"
  /\ run' = kind /\ phase' = first
  /\ at' \in 0 .. now
  /\ seen' = wallets /\ todo' = targets
  /\ UNCHANGED <<env, wallets, db, work, cur, batch, locked, gone, lastSettle>>

BeginCycle ==
  /\ Begin("cycle", "scan", Eligible)
  /\ UNCHANGED queue

\* POST /watcher/run-once runs the same cycle in the session of the request.
BeginRequestedCycle ==
  /\ Begin("request", "scan", Eligible)
  /\ UNCHANGED queue

\* POST /wallets/{id}/scan does not look at enabled or mode.
BeginWalletScan(w) ==
  /\ w \in DOMAIN wallets
  /\ Begin("scan", "scan", {w})
  /\ UNCHANGED queue

BeginTick ==
  /\ Begin("scan", "scan", Eligible)
  /\ UNCHANGED queue

BeginSettlement ==
  /\ Begin("settlement", "settle", {})
  /\ queue' \in OldestBatches(db, Live(db))

BeginReconciliation ==
  /\ Begin("reconciliation", "reconcile", {})
  /\ queue' \in OldestBatches(db, Open(db))

Finished ==
  /\ run' = "idle" /\ phase' = "commit" /\ at' = 0
  /\ seen' = NoRows /\ todo' = {} /\ cur' = None /\ batch' = <<>> /\ queue' = {}
  /\ locked' = {} /\ gone' = {}
  /\ UNCHANGED <<env, wallets>>

Commit ==
  /\ run # "idle" /\ phase = "commit"
  /\ db' = work
  /\ Finished
  /\ UNCHANGED <<work, lastSettle>>

\* The next write would be for a row that was deleted with its wallet.
Poisoned ==
  \/ cur \in gone
  \/ run = "settlement" /\ ~(queue \subseteq DOMAIN work.positions)

\* A database error, or a write for a row that no longer exists, ends the session:
\* the whole operation is rolled back.
Abort ==
  /\ run # "idle"
  /\ work' = db
  /\ Finished
  /\ UNCHANGED <<db, lastSettle>>

\* The process dies or is redeployed; the watcher's memory is lost.
Restart ==
  /\ run # "idle" \/ lastSettle # None
  /\ lastSettle' = None
  /\ work' = db
  /\ Finished
  /\ UNCHANGED db

-------------------------------------------------------------------------------
(* Scanning a wallet.                                                      *)

\* Mutant: the other end of the feed.
Earliest(s) == SubSeq(s, IF Len(s) <= FetchLimit THEN 1 ELSE Len(s) - FetchLimit + 1, Len(s))

Newest(s) == SubSeq(s, 1, IF Len(s) <= FetchLimit THEN Len(s) ELSE FetchLimit)

\* A cycle keeps its clock; a request reads its own for each wallet, before the fetch.
StartWallet(w) ==
  /\ (InCycle \/ run = "scan") /\ phase = "scan"
  /\ cur = None
  /\ w \in todo
  /\ at' \in IF InCycle THEN {at} ELSE at .. now
  /\ todo' = todo \ {w}

Fetch(w) ==
  /\ StartWallet(w)
  /\ cur' = w
  /\ batch' = Newest(feed[w])
  /\ UNCHANGED <<env, wallets, db, work, run, phase, seen, queue, locked, gone, lastSettle>>

\* The public API fails: an event and last_scan_at are all that is written.
FetchFails(w) ==
  /\ StartWallet(w)
  /\ w \notin gone
  /\ locked' = locked \cup {w}
  /\ UNCHANGED <<env, wallets, db, work, run, phase, seen, cur, batch, queue, gone, lastSettle>>

\* The cycle budget or the priorities leave the remaining wallets for later.
DeferRest ==
  /\ InCycle /\ phase = "scan" /\ cur = None /\ todo # {}
  /\ todo' = {}
  /\ UNCHANGED <<env, wallets, db, work, run, phase, at, seen, cur, batch, queue,
                 locked, gone, lastSettle>>

\* Mutant: one second of tolerance.
LongBeforeTracking(t) == t.ts # None /\ t.ts + 1 < seen[cur].created

BeforeTracking(t) == t.ts # None /\ t.ts < seen[cur].created
Detected(d, w, key) == \E t \in d.trades : t.wallet = w /\ t.key = key
TooLate(t) ==
  LET window == seen[cur].set.window IN
  t.ts # None /\ window # None /\ at > t.ts + window

\* evaluate_demo_trade; a too late BUY never gets this far.
Verdict(side, price) ==
  LET s == seen[cur].set IN
  IF s.mode = "real" THEN "blocked"
  ELSE IF /\ side \in Sides
          /\ side = "buy" => s.buys
          /\ side = "sell" => s.sells
          /\ price > 0
       THEN "simulated"
       ELSE "skipped"

\* find_matching_open_demo_position: newest open position on the same token,
\* else newest with the same outcome label.
MatchingOpen(d, w, t) ==
  LET same == {p \in Open(d) : d.positions[p].wallet = w /\ d.positions[p].market = t.market}
      exact == {p \in same : d.positions[p].asset = t.asset}
      label == {p \in same : t.outcome # None /\ d.positions[p].outcome = t.outcome}
      newest(S) == {p \in S : \A q \in S : d.positions[q].opened <= d.positions[p].opened}
  IN  IF exact # {} THEN newest(exact) ELSE newest(label)

\* One trade of the batch, in the order the API returned them.
Handling(t) ==
  /\ phase = "scan" /\ cur # None /\ batch # <<>>
  /\ cur \notin gone
  /\ t = Head(batch)
  /\ batch' = Tail(batch)
  /\ UNCHANGED <<env, wallets, db, run, phase, at, seen, todo, cur, queue, gone, lastSettle>>

\* Nothing is written for it.
IgnoreTrade(t) ==
  /\ Handling(t)
  /\ \/ BeforeTracking(t)
     \/ t.side \in Sides /\ Detected(work, cur, t.key)
  /\ UNCHANGED <<work, locked>>

\* A trade whose side is not understood leaves an order and no trade row.
RecordSideless(t) ==
  /\ Handling(t)
  /\ ~BeforeTracking(t)
  /\ t.side = None
  /\ HasRoom(work)
  /\ work' = WithOrder(work, FreshId(work), cur, None, "buy", Verdict(None, t.price))
  /\ locked' = locked \cup {cur}

\* Mutant: the dedupe key is not looked up.
AnyTrade(t) ==
  /\ Handling(t)
  /\ ~BeforeTracking(t)
  /\ t.side \in Sides
  /\ locked' = locked \cup {cur}

NewTrade(t) ==
  /\ Handling(t)
  /\ ~BeforeTracking(t)
  /\ t.side \in Sides
  /\ ~Detected(work, cur, t.key)
  /\ locked' = locked \cup {cur}

\* A sale with no open position, or a purchase outside the copy window.
DetectOnly(t) ==
  /\ NewTrade(t)
  /\ IF t.side = "sell" THEN MatchingOpen(work, cur, t) = {} ELSE TooLate(t)
  /\ work' = WithTrade(work, cur, t)

RefuseTrade(t) ==
  LET verdict == Verdict(t.side, t.price) IN
  /\ NewTrade(t)
  /\ IF t.side = "sell" THEN MatchingOpen(work, cur, t) # {} ELSE ~TooLate(t)
  /\ verdict # "simulated"
  /\ HasRoom(work)
  /\ work' = WithOrder(WithTrade(work, cur, t), FreshId(work), cur, t.key, t.side, verdict)

CopyBuy(t) ==
  /\ NewTrade(t)
  /\ t.side = "buy"
  /\ ~TooLate(t)
  /\ Verdict("buy", t.price) = "simulated"
  /\ HasRoom(work)
  /\ LET o == FreshId(work) IN
     work' = WithOpened(
               WithOrder(WithTrade(work, cur, t), o, cur, t.key, "buy", "simulated"),
               o, cur, t, at)

CopySell(t, p) ==
  /\ NewTrade(t)
  /\ t.side = "sell"
  /\ p \in MatchingOpen(work, cur, t)
  /\ Verdict("sell", t.price) = "simulated"
  /\ HasRoom(work)
  /\ LET o == FreshId(work) IN
     work' = WithClosed(
               WithOrder(WithTrade(work, cur, t), o, cur, t.key, "sell", "simulated"),
               p, o, t.price, at)

\* touch_wallet_scan, once the batch is done.
EndWallet ==
  /\ phase = "scan" /\ cur # None /\ batch = <<>>
  /\ cur \notin gone
  /\ cur' = None
  /\ locked' = locked \cup {cur}
  /\ UNCHANGED <<env, wallets, db, work, run, phase, at, seen, todo, batch, queue, gone, lastSettle>>

\* An exception that is not the database's (a timestamp out of range, say) ends
\* this wallet of a cycle only; what was written for it stays in the transaction.
ScanBreaksOff ==
  /\ phase = "scan" /\ InCycle /\ cur # None
  /\ cur \notin gone
  /\ cur' = None /\ batch' = <<>>
  /\ UNCHANGED <<env, wallets, db, work, run, phase, at, seen, todo, queue, locked, gone, lastSettle>>

\* Between two wallets, or when the settlement's client cannot be made, an error
\* that is not the database's ends the cycle.  The watcher's own session is rolled
\* back (Abort); the route does not hear of it and commits what there is.
RequestBreaksOff ==
  /\ run = "request" /\ phase = "scan" /\ cur = None
  /\ db' = work
  /\ Finished
  /\ UNCHANGED <<work, lastSettle>>

\* Mutant: the interval never comes round.
FirstSettlement == lastSettle = None

SettlementDue == lastSettle = None \/ at >= lastSettle + SettleEvery

EndScan ==
  /\ phase = "scan" /\ cur = None /\ todo = {}
  /\ IF InCycle /\ SettlementDue
     THEN phase' = "settle" /\ queue' \in OldestBatches(work, Live(work))
     ELSE phase' = "commit" /\ UNCHANGED queue
  /\ UNCHANGED <<env, wallets, db, work, run, at, seen, todo, cur, batch, locked, gone, lastSettle>>

-------------------------------------------------------------------------------
(* Settling positions whose market resolved.                               *)

\* The label decides; otherwise the token's side in its market.
PositionSide(row) ==
  IF row.outcome \in {"yes", "no"} THEN row.outcome
  ELSE IF row.asset \in Asset THEN TokenSide[row.asset] ELSE None

\* What settlement makes of a live position, given the market's local outcome
\* and whether it looked closed or expired.
Settled(row, outcome, looksClosed) ==
  LET ends(status, price) ==
        [row EXCEPT !.status = status, !.exit = price, !.closed = at]
      stays(status) == [row EXCEPT !.status = status, !.closed = None]
      side == PositionSide(row)
  IN  CASE outcome \in {"yes", "no"} /\ side # None ->
             ends("closed", IF side = outcome THEN FullPrice ELSE 0)
        [] outcome \in {"yes", "no"} /\ side = None -> stays("unknown_resolution")
        [] outcome \in {"cancelled", "invalid"} -> ends("cancelled", row.entry)
        [] outcome = "unknown" -> stays("unknown_resolution")
        [] OTHER -> IF looksClosed THEN stays("waiting_resolution") ELSE stays("open")

MarketOf(row) ==
  IF row.market \in Market THEN market[row.market] ELSE [outcome |-> None, closed |-> FALSE]

Working(p) ==
  /\ p \in queue
  /\ queue' = queue \ {p}
  /\ UNCHANGED <<env, wallets, db, run, phase, at, seen, todo, cur, batch, gone, lastSettle>>

\* The local tables may lag and Gamma may not answer: a closed market can
\* still look open.
SettlePosition(p) ==
  /\ phase = "settle" /\ p \in DOMAIN work.positions
  /\ Working(p)
  /\ LET row == work.positions[p]
         m == MarketOf(row)
     IN  \E looksClosed \in {m.closed, FALSE} :
           LET new == Settled(row, m.outcome, looksClosed) IN
           /\ work' = WithPosition(work, p, new)
           /\ locked' = IF new = row THEN locked ELSE locked \cup {row.wallet}

\* An exception inside the savepoint leaves this position as it was.
SettlePositionFails(p) ==
  /\ phase = "settle" /\ p \in DOMAIN work.positions
  /\ Working(p)
  /\ UNCHANGED <<work, locked>>

\* The row vanished with its wallet, and as it was loaded the market leaves it as it
\* is: nothing is written and nothing notices.
SettleVanished(p) ==
  /\ phase = "settle" /\ p \notin DOMAIN work.positions
  /\ Working(p)
  /\ UNCHANGED <<work, locked>>

\* ... or there is something to write: the savepoint fails, then the refresh, and the
\* run stops there; what it did stays.
SettlementStops ==
  /\ phase = "settle" /\ InCycle
  /\ \E p \in queue : p \notin DOMAIN work.positions
  /\ phase' = "commit" /\ queue' = {}
  /\ UNCHANGED <<env, wallets, db, work, run, at, seen, todo, cur, batch, locked, gone, lastSettle>>

EndSettlement ==
  /\ phase = "settle" /\ queue = {}
  /\ phase' = "commit"
  /\ lastSettle' = IF InCycle THEN at ELSE lastSettle
  /\ UNCHANGED <<env, wallets, db, work, run, at, seen, todo, cur, batch, queue, locked, gone>>

-------------------------------------------------------------------------------
(* Reconciling open positions with sales detected after they were opened.  *)

\* Mutant: sales are not compared with the opening time.
AnySales(d, row) ==
  {t \in d.trades : t.wallet = row.wallet /\ t.side = "sell" /\ t.ts # None
                      /\ row.market # None /\ t.market = row.market}

\* Mutant: a sale in the very second of the opening is missed.
StrictlyLaterSales(d, row) ==
  {t \in d.trades :
     /\ t.wallet = row.wallet /\ t.side = "sell" /\ t.ts # None /\ t.ts > row.opened
     /\ row.market # None /\ t.market = row.market
     /\ t.asset = row.asset}

\* The earliest such sale of the same token, else of the same outcome label.
LaterSales(d, row) ==
  LET sales == {t \in d.trades :
                  /\ t.wallet = row.wallet /\ t.side = "sell"
                  /\ row.market # None /\ t.market = row.market
                  /\ t.ts # None /\ t.ts >= row.opened}
      exact == {t \in sales :
                  \/ row.asset # None /\ t.asset = row.asset
                  \/ row.asset = None /\ row.outcome # None /\ t.outcome = row.outcome
                  \/ row.asset = None /\ row.outcome = None
                     /\ (t.asset = None \/ t.outcome = None)}
      label == {t \in sales : row.outcome # None /\ t.outcome = row.outcome}
      first(S) == {t \in S : \A u \in S : t.ts <= u.ts}
  IN  IF exact # {} THEN first(exact) ELSE first(label)

ReconcilePosition(p, t) ==
  /\ phase = "reconcile" /\ p \in DOMAIN work.positions
  /\ t \in LaterSales(work, work.positions[p])
  /\ t.price > 0
  /\ HasRoom(work)
  /\ Working(p)
  /\ LET o == FreshId(work) IN
     work' = WithClosed(WithOrder(work, o, t.wallet, t.key, "sell", "simulated"),
                        p, o, t.price, t.ts)
  /\ locked' = locked \cup {t.wallet}

\* The sales of a position that vanished have vanished too.
LeavePosition(p) ==
  /\ phase = "reconcile"
  /\ p \in DOMAIN work.positions =>
       \/ LaterSales(work, work.positions[p]) = {}
       \/ \E t \in LaterSales(work, work.positions[p]) : t.price = 0
  /\ Working(p)
  /\ UNCHANGED <<work, locked>>

EndReconciliation ==
  /\ phase = "reconcile" /\ queue = {}
  /\ phase' = "commit"
  /\ UNCHANGED <<env, wallets, db, work, run, at, seen, todo, cur, batch, queue,
                 locked, gone, lastSettle>>

-------------------------------------------------------------------------------
Environment ==
  \/ Tick
  \/ \E w \in Wallet, c \in Content, tx \in Tx \cup {None} : Publish(w, c, tx)
  \/ \E m \in Market : CloseMarket(m) \/ \E o \in Reports : ReportOutcome(m, o)

User ==
  \E w \in Wallet :
    \/ \E s \in Settings : CreateWallet(w, s) \/ UpdateWallet(w, s)
    \/ DeleteWallet(w)
    \/ BeginWalletScan(w)

HandleTrade ==
  /\ batch # <<>>
  /\ LET t == Head(batch) IN
     \/ IgnoreTrade(t) \/ RecordSideless(t) \/ DetectOnly(t) \/ RefuseTrade(t) \/ CopyBuy(t)
     \/ \E p \in DOMAIN work.positions : CopySell(t, p)

Scan ==
  \/ \E w \in todo : Fetch(w) \/ FetchFails(w)
  \/ HandleTrade
  \/ DeferRest \/ ScanBreaksOff \/ RequestBreaksOff \/ EndWallet \/ EndScan

Settle ==
  \/ \E p \in queue : SettlePosition(p) \/ SettlePositionFails(p) \/ SettleVanished(p)
  \/ SettlementStops \/ EndSettlement

Reconcile ==
  \/ \E p \in queue : LeavePosition(p) \/ \E t \in work.trades : ReconcilePosition(p, t)
  \/ EndReconciliation

Next ==
  \/ Environment \/ User
  \/ BeginCycle \/ BeginRequestedCycle \/ BeginTick \/ BeginSettlement \/ BeginReconciliation
  \/ Scan \/ Settle \/ Reconcile
  \/ Commit \/ Abort \/ Restart

Spec == Init /\ [][Next]_vars

\* A step in which something failed: none that would have been taken anyway.
Faults ==
  /\ \/ Abort \/ Restart \/ DeferRest \/ ScanBreaksOff \/ RequestBreaksOff
     \/ \E w \in Wallet : FetchFails(w)
     \/ \E p \in DOMAIN work.positions : SettlePositionFails(p)
  /\ ~(Commit \/ EndWallet \/ \E p \in queue : SettlePosition(p))
  /\ ~(Abort /\ Poisoned)

\* The watcher thread keeps running cycles, not all of them with a late clock (each
\* reads a later one), and a started operation goes on; from
\* some point on nothing fails.  Users and the outside world owe nothing.
Liveness ==
  /\ SF_vars(BeginCycle /\ at' = now) /\ WF_vars(Scan) /\ WF_vars(Settle) /\ WF_vars(Reconcile)
  /\ WF_vars(Commit) /\ WF_vars(Abort /\ Poisoned)
  /\ <>[][~Faults]_vars

FairSpec == Spec /\ Liveness

-------------------------------------------------------------------------------
(* Properties.                                                             *)

Tables(d) ==
  /\ d.trades \subseteq TradeRow
  /\ DOMAIN d.orders \subseteq OrderId
  /\ \A o \in DOMAIN d.orders : d.orders[o] \in OrderRow
  /\ DOMAIN d.positions \subseteq DOMAIN d.orders
  /\ \A p \in DOMAIN d.positions : d.positions[p] \in PositionRow

\* Every variable holds values of its kind.
TypeOK ==
  /\ now \in 0 .. MaxTime
  /\ feed \in [Wallet -> Seq(PublicTrade)]
  /\ market \in [Market -> [outcome: Resolution \cup {None}, closed: BOOLEAN]]
  /\ DOMAIN wallets \subseteq Wallet
  /\ \A w \in DOMAIN wallets : wallets[w] \in [created: Nat, set: SettingsType]
  /\ Tables(db) /\ Tables(work)
  /\ run \in {"idle", "cycle", "request", "scan", "settlement", "reconciliation"}
  /\ phase \in {"scan", "settle", "reconcile", "commit"}
  /\ at \in Nat
  /\ DOMAIN seen \subseteq Wallet
  /\ \A w \in DOMAIN seen : seen[w] \in [created: Nat, set: SettingsType]
  /\ todo \subseteq DOMAIN seen
  /\ cur \in DOMAIN seen \cup {None}
  /\ batch \in Seq(PublicTrade)
  /\ queue \subseteq OrderId
  /\ locked \subseteq Wallet /\ gone \subseteq Wallet
  /\ lastSettle \in Nat \cup {None}

\* The feed is read again on every scan, yet no trade of a wallet is stored twice
\* (create_detected_trade) ...
EachTradeOnce(d) ==
  \A s, t \in d.trades : s.wallet = t.wallet /\ s.key = t.key => s = t
\* ... and none opens two positions; each position has its simulated BUY order
\* and the trade it copies (open_demo_position).
CopiedFromItsTrade(d) ==
  /\ \A p \in DOMAIN d.positions :
       LET row == d.positions[p] IN
       /\ d.orders[p].wallet = row.wallet /\ d.orders[p].key = row.key
       /\ d.orders[p].action = "buy" /\ d.orders[p].status = "simulated"
       /\ Detected(d, row.wallet, row.key)
  /\ \A p, q \in DOMAIN d.positions :
       /\ d.positions[p].wallet = d.positions[q].wallet
       /\ d.positions[p].key = d.positions[q].key
       => p = q

\* A position has a final price and a closing time exactly when it is closed or
\* cancelled, however often settlement moves it between open, waiting and unknown.
ExitIffFinal(d) ==
  \A p \in DOMAIN d.positions :
    LET row == d.positions[p] IN
    /\ row.status \in FinalStatus <=> row.exit # None
    /\ row.status \in FinalStatus <=> row.closed # None
ExitExactlyWhenFinal == ExitIffFinal(db)

\* A closing order is a simulated SELL of the same wallet, it closes one position
\* only, and a position it names is closed.
ClosedByOwnSale(d) ==
  /\ \A p \in DOMAIN d.positions :
       LET row == d.positions[p] IN
       row.closing # None =>
         /\ row.status = "closed"
         /\ row.closing \in DOMAIN d.orders
         /\ d.orders[row.closing].wallet = row.wallet
         /\ d.orders[row.closing].action = "sell"
         /\ d.orders[row.closing].status = "simulated"
  /\ \A p, q \in DOMAIN d.positions :
       d.positions[p].closing # None /\ d.positions[p].closing = d.positions[q].closing
       => p = q
SalesCloseOnePosition == ClosedByOwnSale(db)

\* What makes the above inductive: it holds of the uncommitted tables too, positions
\* waiting to be settled or reconciled are not finished yet (nothing else may finish
\* them), and between operations nothing uncommitted is left.
Sound(d) ==
  Tables(d) /\ EachTradeOnce(d) /\ CopiedFromItsTrade(d) /\ ExitIffFinal(d) /\ ClosedByOwnSale(d)
QueueUnfinished ==
  /\ phase = "settle" => queue \cap DOMAIN work.positions \subseteq Live(work)
  /\ phase = "reconcile" => queue \cap DOMAIN work.positions \subseteq Open(work)
AtRest == run = "idle" => phase = "commit" /\ cur = None /\ work = db
BookInv == Sound(db) /\ Sound(work) /\ QueueUnfinished /\ AtRest

\* The sales a user means by "sold since": same wallet and market, same token or
\* label, dated at the opening or later.
SalesSince(d, row) ==
  {t \in d.trades :
     /\ t.side = "sell" /\ t.wallet = row.wallet
     /\ row.market # None /\ t.market = row.market
     /\ \/ row.asset # None /\ t.asset = row.asset
        \/ row.outcome # None /\ t.outcome = row.outcome
     /\ t.ts # None /\ t.ts >= row.opened}
Older(p, d) == {q \in Open(d) \ {p} : d.positions[q].opened <= d.positions[p].opened}

\* A reconciliation closes a position only with a sale of its own wallet and market
\* made since it was opened, at that sale's price and time ...
ClosedBySale(row, d, new) ==
  \E t \in d.trades :
    /\ t.side = "sell" /\ t.wallet = row.wallet /\ t.market = row.market
    /\ new.status = "closed" /\ new.exit = t.price /\ new.closed = t.ts
    /\ row.opened <= new.closed
\* ... and unless wallets went away under it, it leaves no position open that was sold
\* since, whatever order its trades were read in: the sales have no price, or as many
\* older positions as one run takes came first (reconcile_open_demo_positions).
ReconciliationIsExact ==
  [][run = "reconciliation" /\ Commit =>
       \A p \in Open(db) :
         LET row == db.positions[p]
             new == db'.positions[p]
             sales == SalesSince(db, row)
         IN  \/ new # row /\ ClosedBySale(row, db, new)
             \/ new = row /\ (sales # {} /\ gone = {} =>
                               \/ \E t \in sales : t.price = 0
                               \/ Cardinality(Older(p, db)) >= BatchLimit)]_vars

\* Committed rows belong to a wallet that is followed, although wallets are deleted
\* and followed again under a running operation; and no position copies a dated
\* trade older than the moment its wallet was followed.
OwnersFollowed ==
  /\ \A t \in db.trades : t.wallet \in DOMAIN wallets
  /\ \A o \in DOMAIN db.orders : db.orders[o].wallet \in DOMAIN wallets
  /\ \A t \in db.trades :
       t.ts # None => t.ts >= wallets[t.wallet].created

\* The engine keeps the promises of the ledger.
Sources(rows) == {<<r.wallet, r.key>> : r \in rows}
Rows(d, statuses) == {d.positions[p] : p \in {q \in DOMAIN d.positions :
                                               d.positions[q].status \in statuses}}
Ledger == INSTANCE CopyLedger WITH
  Key <- DedupeKey, followed <- DOMAIN wallets, decided <- Sources(db.trades),
  live <- Sources(Rows(db, LiveStatus)), done <- Sources(Rows(db, FinalStatus))
KeepsLedger == Ledger!Spec

\* docs/copy-trading-plan.md: a duplicate creates neither a trade nor an order again.
\* A trade without side has no row to be recognised by.
OrdersNotRepeated ==
  Cardinality({o \in DOMAIN db.orders : db.orders[o].key = None})
    <= Cardinality({x \in Wallet \X (1 .. MaxTrades) :
                      x[2] <= Len(feed[x[1]]) /\ feed[x[1]][x[2]].side = None})

\* A trade that stays among those a scan reads, of a wallet that stays eligible, is
\* detected in the end.
Readable(w, k) ==
  /\ w \in Eligible
  /\ \E i \in 1 .. Len(feed[w]) :
       LET t == feed[w][i] IN
       /\ i <= FetchLimit
       /\ t.key = k
       /\ t.side \in Sides
       /\ t.ts = None \/ t.ts >= wallets[w].created
TradesDetected ==
  \A w \in Wallet, tx \in Tx :
    Readable(w, tx) ~> Detected(db, w, tx) \/ ~Readable(w, tx)

\* A position of a resolved market that settlement can place is finished in the end,
\* unless as many other live positions as one run takes keep it out.
Settleable(p) ==
  /\ p \in Live(db)
  /\ LET row == db.positions[p]
         o == MarketOf(row).outcome
     IN  \/ o \in {"yes", "no"} /\ PositionSide(row) # None
         \/ o \in {"cancelled", "invalid"}
  /\ Cardinality(Live(db)) <= BatchLimit
ResolvedPositionsFinish ==
  \A p \in OrderId : Settleable(p) ~> ~Settleable(p)
===============================================================================
