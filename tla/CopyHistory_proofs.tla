-------------------------- MODULE CopyHistory_proofs ---------------------------
(***************************************************************************)
(* Proofs about owners in CopyEngine: rows outlive no wallet and predate   *)
(* no following, a reconciliation closes what was sold and nothing else,   *)
(* and the engine implements CopyLedger.  They rest on the invariant of    *)
(* CopyEngine_proofs.                                                      *)
(***************************************************************************)
EXTENDS CopyEngine_proofs, FiniteSetTheorems, WellFoundedInduction

\* Rows of d belong to followed wallets, trades to the time they have been followed.
Owned(d) ==
  /\ \A t \in d.trades :
       /\ t.wallet \in DOMAIN wallets
       /\ t.ts # None => t.ts >= wallets[t.wallet].created
  /\ \A o \in DOMAIN d.orders : d.orders[o].wallet \in DOMAIN wallets

\* The wallets an operation has loaded, but for those that are gone, are still the same
\* followings.
History ==
  /\ Owned(db) /\ Owned(work)
  /\ run = "idle" => gone = {}
  /\ run # "idle" =>
       \A w \in DOMAIN seen \ gone :
         w \in DOMAIN wallets /\ wallets[w].created = seen[w].created

LEMMA HistoryInit == Init => History
<1>1. DOMAIN NoRows = {}
  BY DEF NoRows
<1>2. /\ EmptyBook.trades = {} /\ DOMAIN EmptyBook.orders = {}
      /\ DOMAIN EmptyBook.positions = {}
  BY <1>1 DEF EmptyBook, Book
<1> HIDE DEF EmptyBook
<1>3. QED BY <1>2 DEF Init, History, Owned

LEMMA AtWork ==
  ASSUME Inv, phase # "commit" \/ cur # None
  PROVE  run # "idle"
BY DEF Inv, BookInv, AtRest

\* A step of an operation, which writes only `work'.
LEMMA OperationStep ==
  ASSUME History, run # "idle", run' = run,
         UNCHANGED <<wallets, db, seen, gone>>, Owned(work')
  PROVE  History'
<1>1. Owned(work)' /\ Owned(db)'
  BY DEF Owned, History
<1>2. QED BY <1>1 DEF History

\* ... and not even that.
LEMMA QuietStep ==
  ASSUME History, run # "idle", run' = run, UNCHANGED <<wallets, db, work, seen, gone>>
  PROVE  History'
<1>1. Owned(work')
  BY DEF History, Owned
<1>2. QED BY <1>1, OperationStep

-------------------------------------------------------------------------------
(* The outside world, the users, beginnings and ends.                      *)

LEMMA OutsideHistory ==
  ASSUME History, Environment
  PROVE  History'
<1>1. UNCHANGED <<wallets, db, work, opvars>>
  BY DEF Environment, Tick, Publish, CloseMarket, ReportOutcome
<1>2. QED BY <1>1 DEF opvars, History, Owned

LEMMA WalletHistory ==
  ASSUME Inv, History, NEW w \in Wallet, NEW s \in Settings, CreateWallet(w, s) \/ UpdateWallet(w, s)
  PROVE  History'
<1>1. UNCHANGED <<now, db, work, opvars>>
  BY DEF CreateWallet, UpdateWallet, env
<1>2. CASE CreateWallet(w, s)
  <2>1. /\ w \notin DOMAIN wallets /\ DOMAIN wallets' = DOMAIN wallets \cup {w}
        /\ \A x \in DOMAIN wallets : wallets'[x] = wallets[x]
    BY <1>2 DEF CreateWallet, Put
  <2>2. Owned(db)' /\ Owned(work)'
    BY <1>1, <2>1 DEF History, Owned
  <2>3. QED BY <1>1, <2>1, <2>2 DEF opvars, History
<1>3. CASE UpdateWallet(w, s)
  <2>1. DOMAIN wallets' = DOMAIN wallets
    BY <1>3 DEF UpdateWallet
  <2>2. \A x \in DOMAIN wallets : wallets'[x].created = wallets[x].created
    <3>1. \A x \in DOMAIN wallets : wallets[x] \in [created: Nat, set: SettingsType]
      BY DEF Inv, TypeOK
    <3>2. QED BY <1>3, <3>1 DEF UpdateWallet
  <2>3. Owned(db)' /\ Owned(work)'
    BY <1>1, <2>1, <2>2 DEF History, Owned
  <2>4. QED BY <1>1, <2>1, <2>2, <2>3 DEF opvars, History
<1>4. QED BY <1>2, <1>3

\* What is left when the rows of wallet w are gone.
LEMMA WithoutWalletRows ==
  ASSUME NEW d, NEW w
  PROVE  /\ WithoutWallet(d, w).trades = {t \in d.trades : t.wallet # w}
         /\ \A o \in DOMAIN WithoutWallet(d, w).orders :
              /\ o \in DOMAIN d.orders /\ d.orders[o].wallet # w
              /\ WithoutWallet(d, w).orders[o] = d.orders[o]
         /\ \A p \in DOMAIN WithoutWallet(d, w).positions :
              /\ p \in DOMAIN d.positions
              /\ WithoutWallet(d, w).positions[p] = d.positions[p]
BY DEF WithoutWallet, Book

LEMMA DeleteHistory ==
  ASSUME Inv, History, NEW w \in Wallet, DeleteWallet(w)
  PROVE  History'
<1>1. /\ DOMAIN wallets' = DOMAIN wallets \ {w}
      /\ \A x \in DOMAIN wallets \ {w} : wallets'[x] = wallets[x]
      /\ db' = WithoutWallet(db, w) /\ work' = WithoutWallet(work, w)
      /\ gone' = IF run = "idle" THEN gone ELSE gone \cup {w}
      /\ UNCHANGED <<now, run, at, seen>>
  BY DEF DeleteWallet, env
<1>3. Owned(db)' /\ Owned(work)'
  <2>1. Owned(db)'
    BY <1>1, WithoutWalletRows DEF History, Owned
  <2>2. Owned(work)'
    BY <1>1, WithoutWalletRows DEF History, Owned
  <2>3. QED BY <2>1, <2>2
<1>5. run # "idle" => \A x \in DOMAIN seen \ gone' :
        x \in DOMAIN wallets' /\ wallets'[x].created = seen[x].created
  BY <1>1 DEF History
<1>6. QED BY <1>1, <1>3, <1>5 DEF History

LEMMA BeginHistory ==
  ASSUME Inv, History,
         \/ BeginCycle \/ BeginRequestedCycle \/ BeginTick \/ BeginSettlement \/ BeginReconciliation
         \/ \E w \in Wallet : BeginWalletScan(w)
  PROVE  History'
<1>1. PICK kind, first, targets : Begin(kind, first, targets)
  BY DEF BeginCycle, BeginRequestedCycle, BeginTick, BeginSettlement, BeginReconciliation,
         BeginWalletScan
<1>2. /\ run = "idle" /\ seen' = wallets
      /\ UNCHANGED <<wallets, db, work, gone>>
  BY <1>1 DEF Begin
<1>3. gone = {}
  BY <1>2 DEF History
<1>4. QED BY <1>2, <1>3 DEF History, Owned

LEMMA EndHistory ==
  ASSUME Inv, History, Commit \/ RequestBreaksOff \/ Abort \/ Restart
  PROVE  History'
<1>1. /\ work' = db' /\ (db' = db \/ db' = work)
      /\ run' = "idle" /\ gone' = {} /\ UNCHANGED wallets
  BY DEF Commit, RequestBreaksOff, Abort, Restart, Finished
<1>2. QED BY <1>1 DEF History, Owned

-------------------------------------------------------------------------------
(* The scan.                                                               *)

\* A handled trade is one its wallet made while it was followed.
LEMMA HandledIsOwned ==
  ASSUME Inv, History, NEW t, Handling(t), ~BeforeTracking(t)
  PROVE  /\ run # "idle" /\ cur \in DOMAIN wallets
         /\ t.ts # None => t.ts >= wallets[cur].created
<1>1. cur # None /\ cur \in DOMAIN seen /\ cur \notin gone
  BY DEF Handling, Inv, TypeOK
<1>2. run # "idle"
  BY <1>1, AtWork
<1>3. cur \in DOMAIN wallets /\ wallets[cur].created = seen[cur].created
  BY <1>1, <1>2 DEF History
<1>4. t.ts # None => t.ts \in Nat
  BY HandledTypes DEF PublicTrade
<1>5. seen[cur].created \in Nat
  BY <1>1 DEF Inv, TypeOK
<1>6. QED BY <1>2, <1>3, <1>4, <1>5 DEF BeforeTracking

LEMMA TradeOwned ==
  ASSUME NEW d, Owned(d), NEW w \in DOMAIN wallets, NEW t,
         t.ts # None => t.ts >= wallets[w].created
  PROVE  /\ Owned(WithTrade(d, w, t))
         /\ WithTrade(d, w, t).positions = d.positions
BY DEF WithTrade, Book, Row, Owned

LEMMA OrderOwned ==
  ASSUME NEW d, Owned(d), NEW w \in DOMAIN wallets, NEW o, NEW k, NEW a, NEW s
  PROVE  /\ Owned(WithOrder(d, o, w, k, a, s))
         /\ WithOrder(d, o, w, k, a, s).positions = d.positions
<1> DEFINE e == WithOrder(d, o, w, k, a, s)
           row == [wallet |-> w, key |-> k, action |-> a, status |-> s]
<1>1. e.trades = d.trades /\ e.orders = Put(d.orders, o, row) /\ e.positions = d.positions
  BY DEF WithOrder, Book
<1>2. \A x \in DOMAIN e.orders : e.orders[x] \in {row} \cup {d.orders[y] : y \in DOMAIN d.orders}
  BY <1>1 DEF Put
<1> HIDE DEF e
<1>3. QED BY <1>1, <1>2 DEF Owned, e

LEMMA OwnedOfParts ==
  ASSUME NEW d, Owned(d), NEW positions
  PROVE  Owned(Book(d.trades, d.orders, positions))
BY DEF Book, Owned

LEMMA HandleHistory ==
  ASSUME Inv, History, HandleTrade
  PROVE  History'
<1> DEFINE t == Head(batch)
<1>1. \/ IgnoreTrade(t) \/ RecordSideless(t) \/ DetectOnly(t) \/ RefuseTrade(t) \/ CopyBuy(t)
      \/ \E p \in DOMAIN work.positions : CopySell(t, p)
  BY DEF HandleTrade
<1> HIDE DEF t
<1>2. Handling(t)
  BY <1>1 DEF IgnoreTrade, RecordSideless, DetectOnly, RefuseTrade, CopyBuy, CopySell, NewTrade
<1>3. run # "idle"
  BY <1>2, AtWork DEF Handling
<1>4. run' = run /\ UNCHANGED <<wallets, db, seen, gone>>
  BY <1>2 DEF Handling
<1>5. Owned(work)
  BY DEF History
<1>6. CASE IgnoreTrade(t)
  BY <1>3, <1>4, <1>6, QuietStep DEF IgnoreTrade
<1>7. CASE ~IgnoreTrade(t)
  <2> DEFINE d == WithTrade(work, cur, t)
  <2> DEFINE o == FreshId(work)
  <2> DEFINE e(action) == WithOrder(d, o, cur, t.key, action, "simulated")
  <2>1. cur \in DOMAIN wallets /\ (t.ts # None => t.ts >= wallets[cur].created)
    BY <1>1, <1>2, <1>7, HandledIsOwned
       DEF RecordSideless, DetectOnly, RefuseTrade, CopyBuy, CopySell, NewTrade
  <2>2. Owned(d)
    BY <1>5, <2>1, TradeOwned
  <2> HIDE DEF d, o
  <2>3. CASE RecordSideless(t)
    <3>1. work' = WithOrder(work, o, cur, None, "buy", Verdict(None, t.price))
      BY <2>3 DEF RecordSideless, o
    <3>2. QED BY <1>3, <1>4, <1>5, <2>1, <3>1, OrderOwned, OperationStep
  <2>4. CASE DetectOnly(t)
    <3>1. work' = d
      BY <2>4 DEF DetectOnly, d
    <3>2. QED BY <1>3, <1>4, <2>2, <3>1, OperationStep
  <2>5. CASE RefuseTrade(t)
    <3>1. work' = WithOrder(d, o, cur, t.key, t.side, Verdict(t.side, t.price))
      BY <2>5 DEF RefuseTrade, d, o
    <3>2. QED BY <1>3, <1>4, <2>1, <2>2, <3>1, OrderOwned, OperationStep
  <2>6. \A action : Owned(e(action))
    BY <2>1, <2>2, OrderOwned
  <2>7. ASSUME NEW action, NEW positions,
               work' = Book(e(action).trades, e(action).orders, positions)
        PROVE  History'
    <3>1. Owned(e(action))
      BY <2>6
    <3> HIDE DEF e
    <3>2. QED BY <1>3, <1>4, <2>7, <3>1, OwnedOfParts, OperationStep
  <2>8. CASE CopyBuy(t)
    <3>1. work' = WithOpened(e("buy"), o, cur, t, at)
      BY <2>8 DEF CopyBuy, d, o
    <3> HIDE DEF e
    <3>2. PICK positions : work' = Book(e("buy").trades, e("buy").orders, positions)
      BY <3>1 DEF WithOpened
    <3>3. QED BY <2>7, <3>2
  <2>9. ASSUME NEW p \in DOMAIN work.positions, CopySell(t, p)
        PROVE  History'
    <3>1. work' = WithClosed(e("sell"), p, o, t.price, at)
      BY <2>9 DEF CopySell, d, o
    <3> HIDE DEF e
    <3>2. PICK positions : work' = Book(e("sell").trades, e("sell").orders, positions)
      BY <3>1 DEF WithClosed, WithPosition
    <3>3. QED BY <2>7, <3>2
  <2>10. QED BY <1>1, <1>7, <2>3, <2>4, <2>5, <2>8, <2>9
<1>8. QED BY <1>6, <1>7

LEMMA ScanHistory ==
  ASSUME Inv, History, Scan
  PROVE  History'
<1>1. ASSUME NEW w \in todo, Fetch(w) \/ FetchFails(w)
      PROVE  History'
  <2>1. phase # "commit" /\ run' = run
        /\ UNCHANGED <<wallets, db, work, seen, gone>>
    BY <1>1 DEF Fetch, FetchFails, StartWallet
  <2>2. QED BY <2>1, AtWork, QuietStep
<1>2. ASSUME DeferRest \/ ScanBreaksOff \/ EndWallet \/ EndScan
      PROVE  History'
  <2>1. phase # "commit" /\ run' = run
        /\ UNCHANGED <<wallets, db, work, seen, gone>>
    BY <1>2 DEF DeferRest, ScanBreaksOff, EndWallet, EndScan
  <2>2. QED BY <2>1, AtWork, QuietStep
<1>3. QED BY <1>1, <1>2, HandleHistory, EndHistory DEF Scan

-------------------------------------------------------------------------------
(* Settlement and reconciliation.                                          *)

LEMMA SettleHistory ==
  ASSUME Inv, History, Settle
  PROVE  History'
<1>1. ASSUME NEW p \in queue, SettlePosition(p)
      PROVE  History'
  <2>1. PICK new : work' = WithPosition(work, p, new)
    BY <1>1 DEF SettlePosition
  <2>2. phase # "commit" /\ run' = run /\ UNCHANGED <<wallets, db, seen, gone>>
    BY <1>1 DEF SettlePosition, Working
  <2>3. Owned(work')
    BY <2>1, OwnedOfParts DEF WithPosition, History
  <2>4. QED BY <2>2, <2>3, AtWork, OperationStep
<1>2. ASSUME NEW p \in queue, SettlePositionFails(p) \/ SettleVanished(p)
      PROVE  History'
  <2>1. phase # "commit" /\ run' = run
        /\ UNCHANGED <<wallets, db, work, seen, gone>>
    BY <1>2 DEF SettlePositionFails, SettleVanished, Working
  <2>2. QED BY <2>1, AtWork, QuietStep
<1>3. ASSUME SettlementStops \/ EndSettlement
      PROVE  History'
  <2>1. phase # "commit" /\ run' = run
        /\ UNCHANGED <<wallets, db, work, seen, gone>>
    BY <1>3 DEF SettlementStops, EndSettlement
  <2>2. QED BY <2>1, AtWork, QuietStep
<1>4. QED BY <1>1, <1>2, <1>3 DEF Settle

LEMMA ReconcileHistory ==
  ASSUME Inv, History, Reconcile
  PROVE  History'
<1>1. ASSUME NEW p \in queue, NEW t \in work.trades, ReconcilePosition(p, t)
      PROVE  History'
  <2> DEFINE o == FreshId(work)
             e == WithOrder(work, o, t.wallet, t.key, "sell", "simulated")
  <2>1. phase # "commit" /\ run' = run /\ UNCHANGED <<wallets, db, seen, gone>>
    BY <1>1 DEF ReconcilePosition, Working
  <2>2. t.wallet \in DOMAIN wallets
    BY DEF History, Owned
  <2>3. work' = WithClosed(e, p, o, t.price, t.ts)
    BY <1>1 DEF ReconcilePosition
  <2>4. Owned(e)
    BY <2>2, OrderOwned DEF History
  <2> HIDE DEF e
  <2>5. Owned(work')
    BY <2>3, <2>4, OwnedOfParts DEF WithClosed, WithPosition
  <2>6. QED BY <2>1, <2>5, AtWork, OperationStep
<1>2. ASSUME NEW p \in queue, LeavePosition(p)
      PROVE  History'
  <2>1. phase # "commit" /\ run' = run
        /\ UNCHANGED <<wallets, db, work, seen, gone>>
    BY <1>2 DEF LeavePosition, Working
  <2>2. QED BY <2>1, AtWork, QuietStep
<1>3. ASSUME EndReconciliation
      PROVE  History'
  <2>1. phase # "commit" /\ run' = run
        /\ UNCHANGED <<wallets, db, work, seen, gone>>
    BY <1>3 DEF EndReconciliation
  <2>2. QED BY <2>1, AtWork, QuietStep
<1>4. QED BY <1>1, <1>2, <1>3 DEF Reconcile

LEMMA HistoryNext == Inv /\ History /\ [Next]_vars => History'
<1> SUFFICES ASSUME Inv, History, [Next]_vars PROVE History'
  OBVIOUS
<1>1. CASE User
  BY <1>1, WalletHistory, DeleteHistory, BeginHistory DEF User
<1>2. CASE UNCHANGED vars
  BY <1>2 DEF vars, opvars, History, Owned
<1>3. QED
  BY <1>1, <1>2, OutsideHistory, BeginHistory, ScanHistory, SettleHistory, ReconcileHistory,
     EndHistory DEF Next

-------------------------------------------------------------------------------
\* Rows outlive no wallet, and no trade older than the following is stored, although
\* wallets are deleted and followed again under a running scan.
THEOREM RowsHaveOwners == Spec => []OwnersFollowed
<1>1. History => OwnersFollowed
  BY DEF History, Owned, OwnersFollowed
<1>2. QED BY <1>1, InitInv, StepInv, HistoryInit, HistoryNext, PTL DEF Spec

-------------------------------------------------------------------------------
(* Exit reconciliation.                                                    *)

\* A set of dated trades has an earliest one.
LEMMA EarliestTrade ==
  ASSUME NEW S, S # {}, \A t \in S : t.ts \in Nat
  PROVE  \E t \in S : \A u \in S : t.ts <= u.ts
<1> DEFINE T == {t.ts : t \in S}
<1>1. T \subseteq Nat /\ T # {}
  OBVIOUS
<1>2. PICK x \in T : \A y \in T : ~(<<y, x>> \in OpToRel(<, Nat))
  BY <1>1, NatLessThanWellFounded, WFMin
<1>3. \A y \in T : ~(y < x)
  BY <1>1, <1>2 DEF OpToRel
<1>4. PICK t \in S : t.ts = x
  BY <1>2
<1>5. \A u \in S : u.ts \in Nat /\ ~(u.ts < t.ts) /\ t.ts \in Nat
  BY <1>3, <1>4
<1>6. QED BY <1>5

\* What was sold since is found, if all such sales have a price: LaterSales is not
\* empty and all of it has a price.
LEMMA SoldIsFound ==
  ASSUME NEW d, NEW row, d.trades \subseteq TradeRow,
         SalesSince(d, row) # {}, \A t \in SalesSince(d, row) : t.price # 0
  PROVE  /\ LaterSales(d, row) # {}
         /\ \A t \in LaterSales(d, row) : t.price # 0
<1> DEFINE sales == {t \in d.trades :
                  /\ t.wallet = row.wallet /\ t.side = "sell"
                  /\ row.market # None /\ t.market = row.market
                  /\ t.ts # None /\ t.ts >= row.opened}
           exact == {t \in sales :
                  \/ row.asset # None /\ t.asset = row.asset
                  \/ row.asset = None /\ row.outcome # None /\ t.outcome = row.outcome
                  \/ row.asset = None /\ row.outcome = None
                     /\ (t.asset = None \/ t.outcome = None)}
           label == {t \in sales : row.outcome # None /\ t.outcome = row.outcome}
           first(S) == {t \in S : \A u \in S : t.ts <= u.ts}
<1>1. \A t \in sales : t.ts \in Nat
  BY DEF TradeRow
<1>2. LaterSales(d, row) = IF exact # {} THEN first(exact) ELSE first(label)
  BY DEF LaterSales
<1>3. row.asset # None \/ row.outcome # None
  BY DEF SalesSince
<1>4. exact \subseteq SalesSince(d, row) /\ label \subseteq SalesSince(d, row)
  BY <1>3 DEF SalesSince
<1>5. exact # {} \/ label # {}
  BY DEF SalesSince
<1>6. \A S : S \subseteq sales /\ S # {} => first(S) # {}
  BY <1>1, EarliestTrade
<1>7. exact \subseteq sales /\ label \subseteq sales
  OBVIOUS
<1> HIDE DEF sales, exact, label
<1>8. QED BY <1>2, <1>4, <1>5, <1>6, <1>7

\* A sale that is found is one since the opening.
LEMMA FoundIsLater ==
  ASSUME NEW d, NEW row, NEW t \in LaterSales(d, row)
  PROVE  /\ t \in d.trades /\ t.side = "sell" /\ t.wallet = row.wallet
         /\ t.market = row.market /\ t.ts # None /\ t.ts >= row.opened
BY DEF LaterSales

\* Whether a position may be left open, although it was sold since.
Excused(p) ==
  \/ gone # {}
  \/ SalesSince(db, db.positions[p]) = {}
  \/ \E t \in SalesSince(db, db.positions[p]) : t.price = 0
  \/ Cardinality(Older(p, db)) >= BatchLimit

\* While a reconciliation runs, a position that was open is as it was, and still to be
\* looked at unless it is excused, or it is closed by a sale since its opening.
Reconciling ==
  run = "reconciliation" =>
    /\ phase \in {"reconcile", "commit"}
    /\ phase = "commit" => queue = {}
    /\ work.trades = db.trades
    /\ \A p \in Open(db) :
         /\ p \in DOMAIN work.positions
         /\ work.positions[p].wallet = db.positions[p].wallet
         /\ \/ work.positions[p] = db.positions[p] /\ (p \in queue \/ Excused(p))
            \/ /\ work.positions[p] # db.positions[p] /\ p \notin queue
               /\ ClosedBySale(db.positions[p], db, work.positions[p])

\* What keeps out of the batch is as many older positions as it holds.
LEMMA LeftForLater ==
  ASSUME Inv, NEW Q \in OldestBatches(db, Open(db)), NEW p \in Open(db), p \notin Q
  PROVE  Cardinality(Older(p, db)) >= BatchLimit
<1>1. IsFiniteSet(Open(db)) /\ BatchLimit \in Nat
  <2>1. Open(db) \subseteq OrderId /\ IsFiniteSet(OrderId)
    BY ConstantsOK DEF Open, Inv, TypeOK, Tables
  <2>2. QED BY <2>1, FS_Subset, ConstantsOK
<1>2. /\ Q \subseteq Open(db)
      /\ Cardinality(Q) = IF Cardinality(Open(db)) <= BatchLimit THEN Cardinality(Open(db))
                          ELSE BatchLimit
      /\ \A q \in Q : db.positions[q].opened <= db.positions[p].opened
  BY DEF OldestBatches
<1>3. Cardinality(Q) # Cardinality(Open(db))
  BY <1>1, <1>2, FS_Subset
<1>4. Cardinality(Q) = BatchLimit
  BY <1>2, <1>3
<1>5. Q \subseteq Older(p, db) /\ Older(p, db) \subseteq Open(db)
  BY <1>2 DEF Older
<1>6. IsFiniteSet(Older(p, db))
  BY <1>1, <1>5, FS_Subset
<1>7. Cardinality(Q) <= Cardinality(Older(p, db)) /\ Cardinality(Older(p, db)) \in Nat
  BY <1>5, <1>6, FS_Subset, FS_CardinalityType
<1>8. QED BY <1>1, <1>4, <1>7

LEMMA ReconciliationBegins ==
  ASSUME Inv, History, BeginReconciliation
  PROVE  Reconciling'
<1>1. /\ run = "idle" /\ phase' = "reconcile" /\ queue' \in OldestBatches(db, Open(db))
      /\ UNCHANGED <<db, work, gone>>
  BY DEF BeginReconciliation, Begin
<1>2. work = db
  BY <1>1 DEF Inv, BookInv, AtRest
<1>3. \A p \in Open(db) : p \in queue' \/ Cardinality(Older(p, db)) >= BatchLimit
  BY <1>1, LeftForLater
<1>4. \A p : Older(p, db)' = Older(p, db)
  BY <1>1 DEF Older, Open
<1>5. \A p \in Open(db) : p \in queue' \/ Excused(p)'
  BY <1>3, <1>4 DEF Excused
<1>6. Open(db)' = Open(db) /\ \A p \in Open(db) : p \in DOMAIN db.positions
  BY <1>1 DEF Open
<1>7. QED BY <1>1, <1>2, <1>5, <1>6 DEF Reconciling

\* A step that leaves the tables, the queue and the deletions alone.
LEMMA ReconcilingStays ==
  ASSUME Reconciling, UNCHANGED <<db, work, run, queue, gone>>,
         phase' = phase \/ (phase = "reconcile" /\ phase' = "commit" /\ queue = {})
  PROVE  Reconciling'
<1>1. \A p : Older(p, db)' = Older(p, db) /\ Excused(p)' = Excused(p)
  BY DEF Older, Open, Excused, SalesSince
<1>2. \A p, row : ClosedBySale(row, db, p)' = ClosedBySale(row, db, p)
  BY DEF ClosedBySale
<1>3. Open(db)' = Open(db)
  BY DEF Open
<1>4. QED BY <1>1, <1>3 DEF Reconciling, ClosedBySale

LEMMA DeleteReconciling ==
  ASSUME Reconciling, NEW w \in Wallet, DeleteWallet(w)
  PROVE  Reconciling'
<1> SUFFICES ASSUME run' = "reconciliation" PROVE Reconciling'
  BY DEF Reconciling
<1>1. /\ run = "reconciliation" /\ gone' # {} /\ UNCHANGED <<phase, queue>>
      /\ db' = WithoutWallet(db, w) /\ work' = WithoutWallet(work, w)
  BY DEF DeleteWallet
<1>2. \A d : /\ WithoutWallet(d, w).trades = {t \in d.trades : t.wallet # w}
             /\ DOMAIN WithoutWallet(d, w).positions
                  = {p \in DOMAIN d.positions : d.positions[p].wallet # w}
             /\ \A p \in DOMAIN WithoutWallet(d, w).positions :
                  WithoutWallet(d, w).positions[p] = d.positions[p]
  BY DEF WithoutWallet, Book
<1>3. work'.trades = db'.trades
  BY <1>1, <1>2 DEF Reconciling
<1>4. ASSUME NEW p \in Open(db')
      PROVE  /\ p \in DOMAIN work'.positions
             /\ work'.positions[p].wallet = db'.positions[p].wallet
             /\ \/ work'.positions[p] = db'.positions[p]
                \/ /\ work'.positions[p] # db'.positions[p] /\ p \notin queue
                   /\ ClosedBySale(db'.positions[p], db', work'.positions[p])
  <2>1. p \in Open(db) /\ db.positions[p].wallet # w /\ db'.positions[p] = db.positions[p]
    BY <1>1, <1>2 DEF Open
  <2>2. p \in DOMAIN work'.positions /\ work'.positions[p] = work.positions[p]
    BY <1>1, <1>2, <2>1 DEF Reconciling
  <2>3. ClosedBySale(db.positions[p], db, work.positions[p])
          => ClosedBySale(db.positions[p], db', work.positions[p])
    BY <1>1, <1>2, <2>1 DEF ClosedBySale
  <2>4. QED BY <1>1, <2>1, <2>2, <2>3 DEF Reconciling
<1>5. \A p : Excused(p)'
  BY <1>1 DEF Excused
<1>6. QED BY <1>1, <1>3, <1>4, <1>5 DEF Reconciling, Open, ClosedBySale

LEMMA PositionReconciled ==
  ASSUME Inv, Reconciling, run = "reconciliation",
         NEW p \in queue, NEW t \in work.trades, ReconcilePosition(p, t)
  PROVE  Reconciling'
<1> DEFINE o == FreshId(work)
           e == WithOrder(work, o, t.wallet, t.key, "sell", "simulated")
           row == work.positions[p]
           new == SoldRow(row, o, t.price, t.ts)
<1>1. /\ p \in DOMAIN work.positions /\ t \in LaterSales(work, row)
      /\ phase = "reconcile" /\ queue' = queue \ {p}
      /\ work' = WithClosed(e, p, o, t.price, t.ts)
      /\ UNCHANGED <<db, run, phase, gone>>
  BY DEF ReconcilePosition, Working
<1>2. work.positions = e.positions /\ work.trades = e.trades
  BY DEF WithOrder, Book
<1>3. row \in PositionRow /\ row.status = "open"
  BY <1>1 DEF Inv, TypeOK, Tables, BookInv, QueueUnfinished, Open
<1>4. /\ new.status = "closed" /\ new.exit = t.price /\ new.closed = t.ts
      /\ new.wallet = row.wallet /\ new # row
  BY <1>3 DEF SoldRow, PositionRow
<1> HIDE DEF e, row, new
<1>5. /\ work'.trades = work.trades
      /\ DOMAIN work'.positions = DOMAIN work.positions
      /\ work'.positions[p] = new
      /\ \A q \in DOMAIN work.positions : q # p => work'.positions[q] = work.positions[q]
  BY <1>1, <1>2 DEF WithClosed, WithPosition, Book, Put, new, row
<1>6. \A q : Excused(q)' = Excused(q)
  BY <1>1 DEF Excused, SalesSince, Older, Open
<1>7. Open(db)' = Open(db)
  BY <1>1 DEF Open
<1>8. ASSUME p \in Open(db)
      PROVE  /\ new # db.positions[p] /\ new.wallet = db.positions[p].wallet
             /\ ClosedBySale(db.positions[p], db, new)
  <2>1. row = db.positions[p] /\ work.trades = db.trades
    BY <1>8 DEF Reconciling, row
  <2>2. /\ t \in db.trades /\ t.side = "sell" /\ t.wallet = row.wallet
        /\ t.market = row.market /\ t.ts # None /\ t.ts >= row.opened
    BY <1>1, <2>1, FoundIsLater
  <2>3. t.ts \in Nat /\ row.opened \in Nat
    BY <1>3, <2>1, <2>2 DEF Inv, TypeOK, Tables, TradeRow, PositionRow
  <2>4. QED BY <1>4, <2>1, <2>2, <2>3 DEF ClosedBySale
<1>9. QED BY <1>1, <1>5, <1>6, <1>7, <1>8 DEF Reconciling, ClosedBySale

LEMMA PositionLeft ==
  ASSUME Inv, Reconciling, run = "reconciliation", NEW p \in queue, LeavePosition(p)
  PROVE  Reconciling'
<1>1. /\ phase = "reconcile" /\ queue' = queue \ {p}
      /\ UNCHANGED <<work, db, run, phase, gone>>
      /\ p \in DOMAIN work.positions =>
           \/ LaterSales(work, work.positions[p]) = {}
           \/ \E t \in LaterSales(work, work.positions[p]) : t.price = 0
  BY DEF LeavePosition, Working
<1>2. \A q : Excused(q)' = Excused(q)
  BY <1>1 DEF Excused, SalesSince, Older, Open
<1>3. Open(db)' = Open(db)
  BY <1>1 DEF Open
<1>4. ASSUME p \in Open(db) PROVE Excused(p)
  <2>1. /\ p \in DOMAIN work.positions /\ work.positions[p] = db.positions[p]
        /\ work.trades = db.trades
    BY <1>4 DEF Reconciling
  <2>2. SalesSince(work, db.positions[p]) = SalesSince(db, db.positions[p])
    BY <2>1 DEF SalesSince
  <2>3. work.trades \subseteq TradeRow
    BY DEF Inv, TypeOK, Tables
  <2>4. QED BY <1>1, <2>1, <2>2, <2>3, SoldIsFound DEF Excused
<1>5. QED BY <1>1, <1>2, <1>3, <1>4 DEF Reconciling, ClosedBySale

LEMMA ReconcilingNext == Inv /\ History /\ Reconciling /\ [Next]_vars => Reconciling'
<1> SUFFICES ASSUME Inv, History, Reconciling, [Next]_vars PROVE Reconciling'
  OBVIOUS
<1>1. ASSUME run' # "reconciliation" PROVE Reconciling'
  BY <1>1 DEF Reconciling
<1>2. CASE Environment \/ UNCHANGED vars
  <2>1. UNCHANGED <<db, work, run, phase, queue, gone>>
    BY <1>2 DEF Environment, Tick, Publish, CloseMarket, ReportOutcome, vars, opvars
  <2>2. QED BY <2>1, ReconcilingStays
<1>3. CASE User
  <2>1. ASSUME NEW w \in Wallet, NEW s \in Settings, CreateWallet(w, s) \/ UpdateWallet(w, s)
        PROVE  Reconciling'
    <3>1. UNCHANGED <<db, work, run, phase, queue, gone>>
      BY <2>1 DEF CreateWallet, UpdateWallet, opvars
    <3>2. QED BY <3>1, ReconcilingStays
  <2>2. ASSUME NEW w \in Wallet, BeginWalletScan(w) PROVE Reconciling'
    BY <1>1, <2>2 DEF BeginWalletScan, Begin
  <2>3. QED BY <1>3, <2>1, <2>2, DeleteReconciling DEF User
<1>4. CASE BeginCycle \/ BeginRequestedCycle \/ BeginTick \/ BeginSettlement
  BY <1>1, <1>4 DEF BeginCycle, BeginRequestedCycle, BeginTick, BeginSettlement, Begin
<1>5. CASE Commit \/ Abort \/ Restart
  BY <1>1, <1>5 DEF Commit, Abort, Restart, Finished
<1>6. CASE Scan \/ Settle
  <2>1. run' = "idle" \/ (run' = run /\ phase \in {"scan", "settle"})
    BY <1>6 DEF Scan, Fetch, FetchFails, StartWallet, HandleTrade, IgnoreTrade, RecordSideless,
            DetectOnly, RefuseTrade, CopyBuy, CopySell, NewTrade, Handling, DeferRest,
            ScanBreaksOff, RequestBreaksOff, Finished, EndWallet, EndScan, Settle,
            SettlePosition, SettlePositionFails, SettleVanished, SettlementStops,
            EndSettlement, Working
  <2>2. run' # "reconciliation"
    BY <2>1 DEF Reconciling
  <2>3. QED BY <1>1, <2>2
<1>7. CASE Reconcile
  <2>1. run' = run
    BY <1>7 DEF Reconcile, ReconcilePosition, LeavePosition, EndReconciliation, Working
  <2>2. CASE run # "reconciliation"
    BY <1>1, <2>1, <2>2
  <2>3. CASE run = "reconciliation"
    <3>1. CASE EndReconciliation
      BY <3>1, ReconcilingStays DEF EndReconciliation
    <3>2. QED BY <1>7, <2>3, <3>1, PositionReconciled, PositionLeft DEF Reconcile
  <2>4. QED BY <2>2, <2>3
<1>8. QED
  BY <1>2, <1>3, <1>4, <1>5, <1>6, <1>7, ReconciliationBegins DEF Next

\* A reconciliation run closes what was sold since it was opened, with such a sale, and
\* leaves nothing open that was, but for sales without a price, the batch and wallets
\* deleted meanwhile: for any trades, in whatever order and with whatever clocks the
\* scans before it stored them.
THEOREM ReconciledExactly == Spec => ReconciliationIsExact
<1>1. Init => Reconciling
  BY DEF Init, Reconciling
<1>2. ASSUME Reconciling, run = "reconciliation", Commit, NEW p \in Open(db)
      PROVE  LET row == db.positions[p]
                 new == db'.positions[p]
                 sales == SalesSince(db, row)
             IN  \/ new # row /\ ClosedBySale(row, db, new)
                 \/ new = row /\ (sales # {} /\ gone = {} =>
                                   \/ \E t \in sales : t.price = 0
                                   \/ Cardinality(Older(p, db)) >= BatchLimit)
  <2>1. queue = {} /\ db' = work
    BY <1>2 DEF Commit, Reconciling
  <2>2. QED BY <1>2, <2>1 DEF Reconciling, Excused
<1>3. Reconciling /\ [Next]_vars =>
        [run = "reconciliation" /\ Commit =>
           \A p \in Open(db) :
             LET row == db.positions[p]
                 new == db'.positions[p]
                 sales == SalesSince(db, row)
             IN  \/ new # row /\ ClosedBySale(row, db, new)
                 \/ new = row /\ (sales # {} /\ gone = {} =>
                                   \/ \E t \in sales : t.price = 0
                                   \/ Cardinality(Older(p, db)) >= BatchLimit)]_vars
  BY <1>2
<1>4. QED
  BY <1>1, <1>3, InitInv, StepInv, HistoryInit, HistoryNext, ReconcilingNext, PTL
     DEF Spec, ReconciliationIsExact

-------------------------------------------------------------------------------
(* The refinement of CopyLedger: an operation only adds decisions, opens   *)
(* positions for what it decides itself, and undoes no ending.             *)

Same(p, d, e) ==
  /\ e.positions[p].wallet = d.positions[p].wallet
  /\ e.positions[p].key = d.positions[p].key
  /\ d.positions[p].status \in FinalStatus => e.positions[p].status \in FinalStatus

\* What operations may have made of the tables d.
Grew(d, e) ==
  /\ d.trades \subseteq e.trades
  /\ \A p \in DOMAIN d.positions : p \in DOMAIN e.positions /\ Same(p, d, e)
  /\ \A p \in DOMAIN e.positions \ DOMAIN d.positions :
       ~Detected(d, e.positions[p].wallet, e.positions[p].key)

LEMMA NothingGrew == ASSUME NEW d PROVE Grew(d, d)
BY DEF Grew, Same

LEMMA GrewOn ==
  ASSUME NEW c, NEW d, NEW e, Grew(c, d), Grew(d, e)
  PROVE  Grew(c, e)
<1>1. c.trades \subseteq e.trades
  BY DEF Grew
<1>2. ASSUME NEW p \in DOMAIN c.positions
      PROVE  p \in DOMAIN e.positions /\ Same(p, c, e)
  <2>1. p \in DOMAIN d.positions /\ Same(p, c, d)
    BY DEF Grew
  <2>2. p \in DOMAIN e.positions /\ Same(p, d, e)
    BY <2>1 DEF Grew
  <2>3. QED BY <2>1, <2>2 DEF Same
<1>3. ASSUME NEW p \in DOMAIN e.positions \ DOMAIN c.positions
      PROVE  ~Detected(c, e.positions[p].wallet, e.positions[p].key)
  <2>1. CASE p \in DOMAIN d.positions
    <3>1. ~Detected(c, d.positions[p].wallet, d.positions[p].key) /\ Same(p, d, e)
      BY <2>1 DEF Grew
    <3>2. QED BY <3>1 DEF Same
  <2>2. CASE p \notin DOMAIN d.positions
    <3>1. ~Detected(d, e.positions[p].wallet, e.positions[p].key)
      BY <2>2 DEF Grew
    <3>2. c.trades \subseteq d.trades
      BY DEF Grew
    <3>3. QED BY <3>1, <3>2 DEF Detected
  <2>3. QED BY <2>1, <2>2
<1>4. QED BY <1>1, <1>2, <1>3 DEF Grew

\* Trades and orders may be added freely ...
LEMMA RowsGrew ==
  ASSUME NEW d, NEW e, d.trades \subseteq e.trades, e.positions = d.positions
  PROVE  Grew(d, e)
BY DEF Grew, Same

\* ... a position only for a trade that was not there ...
LEMMA OpenedGrew ==
  ASSUME NEW d, NEW trades, NEW orders, d.trades \subseteq trades,
         NEW p, p \notin DOMAIN d.positions, NEW row, ~Detected(d, row.wallet, row.key)
  PROVE  Grew(d, Book(trades, orders, Put(d.positions, p, row)))
BY DEF Book, Put, Grew, Same

\* ... and a position that is final stays so.
LEMMA PositionGrew ==
  ASSUME NEW d, NEW trades, NEW orders, d.trades \subseteq trades,
         NEW p \in DOMAIN d.positions, NEW row,
         row.wallet = d.positions[p].wallet, row.key = d.positions[p].key,
         d.positions[p].status \in FinalStatus => row.status \in FinalStatus
  PROVE  Grew(d, Book(trades, orders, Put(d.positions, p, row)))
BY DEF Book, Put, Grew, Same

LEMMA WithoutWalletGrew ==
  ASSUME NEW d, NEW e, Grew(d, e), NEW w
  PROVE  Grew(WithoutWallet(d, w), WithoutWallet(e, w))
<1> DEFINE left(b) == {p \in DOMAIN b.positions : b.positions[p].wallet # w}
<1>1. \A b : /\ WithoutWallet(b, w).trades = {t \in b.trades : t.wallet # w}
             /\ DOMAIN WithoutWallet(b, w).positions = left(b)
             /\ \A p \in left(b) : WithoutWallet(b, w).positions[p] = b.positions[p]
  BY DEF WithoutWallet, Book
<1>2. WithoutWallet(d, w).trades \subseteq WithoutWallet(e, w).trades
  BY <1>1 DEF Grew
<1>3. \A p \in left(d) : p \in left(e) /\ Same(p, WithoutWallet(d, w), WithoutWallet(e, w))
  BY <1>1 DEF Grew, Same
<1>4. ASSUME NEW p \in left(e) \ left(d)
      PROVE  ~Detected(d, e.positions[p].wallet, e.positions[p].key)
  BY DEF Grew, Same
<1>5. \A p \in left(e) \ left(d) :
        ~Detected(WithoutWallet(d, w), e.positions[p].wallet, e.positions[p].key)
  BY <1>1, <1>4 DEF Detected
<1>6. QED
  <2> HIDE DEF left
  <2>1. QED BY <1>1, <1>2, <1>3, <1>5 DEF Grew

LEMMA SoldGrew ==
  ASSUME NEW d, NEW e, d.trades \subseteq e.trades, e.positions = d.positions,
         NEW p \in DOMAIN d.positions, d.positions[p] \in PositionRow,
         NEW o, NEW price, NEW time
  PROVE  Grew(d, WithClosed(e, p, o, price, time))
<1> DEFINE row == SoldRow(d.positions[p], o, price, time)
<1>1. row.wallet = d.positions[p].wallet /\ row.key = d.positions[p].key /\ row.status = "closed"
  BY DEF SoldRow, PositionRow
<1>2. WithClosed(e, p, o, price, time) = Book(e.trades, e.orders, Put(d.positions, p, row))
  BY DEF WithClosed, WithPosition
<1> HIDE DEF row
<1>3. QED BY <1>1, <1>2, PositionGrew DEF FinalStatus

LEMMA HandleGrew ==
  ASSUME Inv, HandleTrade
  PROVE  Grew(work, work')
<1> DEFINE t == Head(batch)
           d == WithTrade(work, cur, t)
           o == FreshId(work)
<1>1. \/ IgnoreTrade(t) \/ RecordSideless(t) \/ DetectOnly(t) \/ RefuseTrade(t) \/ CopyBuy(t)
      \/ \E p \in DOMAIN work.positions : CopySell(t, p)
  BY DEF HandleTrade
<1> HIDE DEF t
<1>2. work.trades \subseteq d.trades /\ d.positions = work.positions /\ d.orders = work.orders
  BY DEF WithTrade, Book
<1> HIDE DEF d, o
<1>3. \A b, w, k, a, s : /\ WithOrder(b, o, w, k, a, s).trades = b.trades
                         /\ WithOrder(b, o, w, k, a, s).positions = b.positions
  BY DEF WithOrder, Book
<1>4. CASE IgnoreTrade(t)
  BY <1>4, NothingGrew DEF IgnoreTrade
<1>5. CASE RecordSideless(t)
  BY <1>3, <1>5, RowsGrew DEF RecordSideless, o
<1>6. CASE DetectOnly(t)
  BY <1>2, <1>6, RowsGrew DEF DetectOnly, d
<1>7. CASE RefuseTrade(t)
  BY <1>2, <1>3, <1>7, RowsGrew DEF RefuseTrade, d, o
<1>8. CASE CopyBuy(t)
  <2> DEFINE e == WithOrder(d, o, cur, t.key, "buy", "simulated")
             row == [wallet |-> cur, key |-> t.key, market |-> t.market, asset |-> t.asset,
                     outcome |-> t.outcome, entry |-> t.price, opened |-> at,
                     status |-> "open", exit |-> None, closing |-> None, closed |-> None]
  <2>1. work' = Book(e.trades, e.orders, Put(e.positions, o, row)) /\ ~Detected(work, cur, t.key)
    BY <1>8 DEF CopyBuy, NewTrade, WithOpened, d, o
  <2>2. row.wallet = cur /\ row.key = t.key
    OBVIOUS
  <2>3. o \notin DOMAIN work.positions
    <3>1. o \notin DOMAIN work.orders
      BY <1>8, FreshIdType DEF CopyBuy, o
    <3>2. QED BY <3>1 DEF Inv, TypeOK, Tables
  <2>4. work.trades \subseteq e.trades /\ e.positions = work.positions
    BY <1>2, <1>3
  <2> HIDE DEF e, row
  <2>5. QED BY <2>1, <2>2, <2>3, <2>4, OpenedGrew
<1>9. ASSUME NEW p \in DOMAIN work.positions, CopySell(t, p)
      PROVE  Grew(work, work')
  <2> DEFINE e == WithOrder(d, o, cur, t.key, "sell", "simulated")
  <2>1. work' = WithClosed(e, p, o, t.price, at)
    BY <1>9 DEF CopySell, d, o
  <2>2. work.trades \subseteq e.trades /\ e.positions = work.positions
    BY <1>2, <1>3
  <2>3. work.positions[p] \in PositionRow
    BY DEF Inv, TypeOK, Tables
  <2> HIDE DEF e
  <2>4. QED BY <2>1, <2>2, <2>3, SoldGrew
<1>10. QED BY <1>1, <1>4, <1>5, <1>6, <1>7, <1>8, <1>9

LEMMA SettleGrew ==
  ASSUME Inv, NEW p \in queue, SettlePosition(p)
  PROVE  Grew(work, work')
<1> DEFINE row == work.positions[p]
           m == MarketOf(row)
<1>1. PICK looksClosed \in {m.closed, FALSE} :
        work' = WithPosition(work, p, Settled(row, m.outcome, looksClosed))
  BY DEF SettlePosition
<1> DEFINE new == Settled(row, m.outcome, looksClosed)
<1>2. phase = "settle" /\ p \in DOMAIN work.positions
  BY DEF SettlePosition
<1>3. /\ row \in PositionRow /\ row.status \in LiveStatus
      /\ row.exit = None /\ row.closing = None /\ row.closed = None
  BY <1>2, QueuedIsLive
<1>4. m.outcome \in Resolution \cup {None} /\ looksClosed \in BOOLEAN /\ at \in Nat
  <2>1. m \in [outcome: Resolution \cup {None}, closed: BOOLEAN]
    BY DEF MarketOf, Inv, TypeOK
  <2>2. QED BY <2>1 DEF Inv, TypeOK
<1>5. row.status \notin FinalStatus
  BY <1>3 DEF LiveStatus, FinalStatus
<1> HIDE DEF row, m
<1>6. new.wallet = row.wallet /\ new.key = row.key
  BY <1>3, <1>4, SettledSound
<1>7. work' = Book(work.trades, work.orders, Put(work.positions, p, new))
  BY <1>1 DEF WithPosition, row
<1> HIDE DEF new
<1>8. QED BY <1>2, <1>5, <1>6, <1>7, PositionGrew DEF row

LEMMA ReconcileGrew ==
  ASSUME Inv, NEW p \in queue, NEW t \in work.trades, ReconcilePosition(p, t)
  PROVE  Grew(work, work')
<1> DEFINE o == FreshId(work)
           e == WithOrder(work, o, t.wallet, t.key, "sell", "simulated")
<1>1. p \in DOMAIN work.positions /\ work' = WithClosed(e, p, o, t.price, t.ts)
  BY DEF ReconcilePosition
<1>2. e.trades = work.trades /\ e.positions = work.positions
  BY DEF WithOrder, Book
<1>3. work.positions[p] \in PositionRow
  BY <1>1 DEF Inv, TypeOK, Tables
<1> HIDE DEF e
<1>4. QED BY <1>1, <1>2, <1>3, SoldGrew

\* A step either works on the uncommitted tables, or deletes a wallet, or ends the operation.
LEMMA GrewNext == Inv /\ Grew(db, work) /\ [Next]_vars => Grew(db, work)'
<1> SUFFICES ASSUME Inv, Grew(db, work), [Next]_vars PROVE Grew(db', work')
  OBVIOUS
<1>1. ASSUME UNCHANGED db, Grew(work, work') PROVE Grew(db', work')
  BY <1>1, GrewOn
<1>2. ASSUME UNCHANGED <<db, work>> PROVE Grew(db', work')
  BY <1>2
<1>3. ASSUME Commit \/ RequestBreaksOff \/ Abort \/ Restart PROVE Grew(db', work')
  <2>1. work' = db'
    BY <1>3 DEF Commit, RequestBreaksOff, Abort, Restart
  <2>2. QED BY <2>1, NothingGrew
<1>4. CASE Environment
  <2>1. UNCHANGED <<db, work>>
    BY <1>4 DEF Environment, Tick, Publish, CloseMarket, ReportOutcome
  <2>2. QED BY <1>2, <2>1
<1>5. CASE User
  <2>1. ASSUME NEW w \in Wallet, DeleteWallet(w) PROVE Grew(db', work')
    BY <2>1, WithoutWalletGrew DEF DeleteWallet
  <2>2. ASSUME NEW w \in Wallet, NEW s \in Settings,
               CreateWallet(w, s) \/ UpdateWallet(w, s) \/ BeginWalletScan(w)
        PROVE  Grew(db', work')
    <3>1. UNCHANGED <<db, work>>
      BY <2>2 DEF CreateWallet, UpdateWallet, BeginWalletScan, Begin
    <3>2. QED BY <1>2, <3>1
  <2>3. ASSUME NEW w \in Wallet, BeginWalletScan(w) PROVE Grew(db', work')
    <3>1. UNCHANGED <<db, work>>
      BY <2>3 DEF BeginWalletScan, Begin
    <3>2. QED BY <1>2, <3>1
  <2>4. QED BY <1>5, <2>1, <2>2, <2>3 DEF User
<1>6. ASSUME BeginCycle \/ BeginRequestedCycle \/ BeginTick \/ BeginSettlement \/ BeginReconciliation
      PROVE  Grew(db', work')
  <2>1. UNCHANGED <<db, work>>
    BY <1>6 DEF BeginCycle, BeginRequestedCycle, BeginTick, BeginSettlement,
                BeginReconciliation, Begin
  <2>2. QED BY <1>2, <2>1
<1>7. CASE Scan
  <2>1. ASSUME NEW w \in todo, Fetch(w) \/ FetchFails(w) PROVE UNCHANGED <<db, work>>
    BY <2>1 DEF Fetch, FetchFails
  <2>2. ASSUME DeferRest \/ ScanBreaksOff \/ EndWallet \/ EndScan PROVE UNCHANGED <<db, work>>
    BY <2>2 DEF DeferRest, ScanBreaksOff, EndWallet, EndScan
  <2>3. ASSUME HandleTrade PROVE UNCHANGED db /\ Grew(work, work')
    <3>1. UNCHANGED db
      BY <2>3 DEF HandleTrade, IgnoreTrade, RecordSideless, DetectOnly, RefuseTrade, CopyBuy,
                  CopySell, NewTrade, Handling
    <3>2. QED BY <2>3, <3>1, HandleGrew
  <2>4. QED BY <1>1, <1>2, <1>3, <1>7, <2>1, <2>2, <2>3 DEF Scan
<1>8. CASE Settle
  <2>1. ASSUME NEW p \in queue, SettlePosition(p) PROVE UNCHANGED db /\ Grew(work, work')
    BY <2>1, SettleGrew DEF SettlePosition, Working
  <2>2. ASSUME NEW p \in queue, SettlePositionFails(p) \/ SettleVanished(p)
        PROVE  UNCHANGED <<db, work>>
    BY <2>2 DEF SettlePositionFails, SettleVanished, Working
  <2>3. ASSUME SettlementStops \/ EndSettlement PROVE UNCHANGED <<db, work>>
    BY <2>3 DEF SettlementStops, EndSettlement
  <2>4. QED BY <1>1, <1>2, <1>8, <2>1, <2>2, <2>3 DEF Settle
<1>9. CASE Reconcile
  <2>1. ASSUME NEW p \in queue, NEW t \in work.trades, ReconcilePosition(p, t)
        PROVE  UNCHANGED db /\ Grew(work, work')
    BY <2>1, ReconcileGrew DEF ReconcilePosition, Working
  <2>2. ASSUME NEW p \in queue, LeavePosition(p) PROVE UNCHANGED <<db, work>>
    BY <2>2 DEF LeavePosition, Working
  <2>3. ASSUME EndReconciliation PROVE UNCHANGED <<db, work>>
    BY <2>3 DEF EndReconciliation
  <2>4. QED BY <1>1, <1>2, <1>9, <2>1, <2>2, <2>3 DEF Reconcile
<1>10. CASE UNCHANGED vars
  BY <1>2, <1>10 DEF vars
<1>11. QED BY <1>3, <1>4, <1>5, <1>6, <1>7, <1>8, <1>9, <1>10 DEF Next

\* A commit is a Record of the ledger.
LEMMA CommitRecords ==
  ASSUME Inv, History, Grew(db, work), db' = work, UNCHANGED wallets
  PROVE  Ledger!Record
<1> DEFINE live(d) == Sources(Rows(d, LiveStatus))
           done(d) == Sources(Rows(d, FinalStatus))
           decided(d) == Sources(d.trades)
<1>1. \A d, x : x \in decided(d) <=> \E t \in d.trades : x = <<t.wallet, t.key>>
  BY DEF Sources
<1>2. \A d, x, S : x \in Sources(Rows(d, S)) <=>
        \E p \in DOMAIN d.positions : /\ d.positions[p].status \in S
                                     /\ x = <<d.positions[p].wallet, d.positions[p].key>>
  BY DEF Sources, Rows
<1>3. Sound(work) /\ Sound(db)
  BY DEF Inv, BookInv
<1>4. decided(work) \in SUBSET ((DOMAIN wallets) \X DedupeKey)
  <2>1. \A t \in work.trades : t.wallet \in DOMAIN wallets /\ t.key \in DedupeKey
    BY <1>3 DEF History, Owned, Sound, Tables, TradeRow
  <2> HIDE DEF decided
  <2>2. QED BY <1>1, <2>1
<1>5. decided(db) \subseteq decided(work)
  BY DEF Grew, Sources
<1>6. live(work) \in SUBSET decided(work) /\ done(work) \in SUBSET decided(work)
  <2>1. \A p \in DOMAIN work.positions :
          <<work.positions[p].wallet, work.positions[p].key>> \in decided(work)
    BY <1>1, <1>3 DEF Sound, CopiedFromItsTrade, Detected
  <2> HIDE DEF decided
  <2>2. QED BY <1>2, <2>1
<1>7. live(work) \cap done(work) = {}
  <2>1. \A p, q \in DOMAIN work.positions :
          <<work.positions[p].wallet, work.positions[p].key>>
            = <<work.positions[q].wallet, work.positions[q].key>> => p = q
    BY <1>3 DEF Sound, CopiedFromItsTrade
  <2>2. LiveStatus \cap FinalStatus = {}
    BY DEF LiveStatus, FinalStatus
  <2>3. QED BY <1>2, <2>1, <2>2
<1>8. \A p \in DOMAIN db.positions :
        p \in DOMAIN work.positions /\ Same(p, db, work)
  BY DEF Grew
<1>9. done(db) \subseteq done(work)
  BY <1>2, <1>8 DEF Same
<1>10. \A p \in DOMAIN work.positions : work.positions[p].status \in LiveStatus \cup FinalStatus
  <2>1. \A p \in DOMAIN work.positions : work.positions[p] \in PositionRow
    BY <1>3 DEF Sound, Tables
  <2>2. QED BY <2>1 DEF PositionRow
<1>11. live(db) \subseteq live(work) \cup done(work)
  BY <1>2, <1>8, <1>10 DEF Same
<1>12. ((live(work) \cup done(work)) \ (live(db) \cup done(db))) \cap decided(db) = {}
  <2> SUFFICES ASSUME NEW x \in live(work) \cup done(work), x \notin live(db) \cup done(db),
                      x \in decided(db)
               PROVE  FALSE
    OBVIOUS
  <2>1. PICK p \in DOMAIN work.positions :
          x = <<work.positions[p].wallet, work.positions[p].key>>
    BY <1>2
  <2>2. p \notin DOMAIN db.positions
    <3>1. \A q \in DOMAIN db.positions : db.positions[q].status \in LiveStatus \cup FinalStatus
      <4>1. \A q \in DOMAIN db.positions : db.positions[q] \in PositionRow
        BY <1>3 DEF Sound, Tables
      <4>2. QED BY <4>1 DEF PositionRow
    <3>2. QED BY <1>2, <1>8, <2>1, <3>1 DEF Same
  <2>3. ~Detected(db, work.positions[p].wallet, work.positions[p].key)
    BY <2>2 DEF Grew
  <2>4. PICK t \in db.trades : x = <<t.wallet, t.key>>
    BY <1>1
  <2>5. QED BY <2>1, <2>3, <2>4 DEF Detected
<1>13. DOMAIN wallets' = DOMAIN wallets
  OBVIOUS
<1> HIDE DEF live, done, decided
<1>14. /\ Sources(db.trades)' = decided(work) /\ Sources(db.trades) = decided(db)
       /\ Sources(Rows(db, LiveStatus))' = live(work) /\ Sources(Rows(db, LiveStatus)) = live(db)
       /\ Sources(Rows(db, FinalStatus))' = done(work) /\ Sources(Rows(db, FinalStatus)) = done(db)
  BY DEF live, done, decided, Sources, Rows
<1>15. QED
  BY <1>4, <1>5, <1>6, <1>7, <1>9, <1>11, <1>12, <1>13, <1>14 DEF Ledger!Record

\* Deleting a wallet is an Unfollow of the ledger.
LEMMA DeleteUnfollows ==
  ASSUME NEW w \in Wallet, DeleteWallet(w)
  PROVE  Ledger!Unfollow(w)
<1>1. /\ w \in DOMAIN wallets /\ DOMAIN wallets' = DOMAIN wallets \ {w}
      /\ db' = WithoutWallet(db, w)
  BY DEF DeleteWallet
<1>2. Sources(db.trades)' = {x \in Sources(db.trades) : x[1] # w}
  BY <1>1 DEF WithoutWallet, Book, Sources
<1>3. ASSUME NEW S
      PROVE  Sources(Rows(db', S)) = {x \in Sources(Rows(db, S)) : x[1] # w}
  <2>1. \A d, x : x \in Sources(Rows(d, S)) <=>
          \E p \in DOMAIN d.positions : /\ d.positions[p].status \in S
                                       /\ x = <<d.positions[p].wallet, d.positions[p].key>>
    BY DEF Sources, Rows
  <2>2. DOMAIN db'.positions = {p \in DOMAIN db.positions : db.positions[p].wallet # w}
    BY <1>1 DEF WithoutWallet, Book
  <2>3. \A p \in DOMAIN db'.positions : db'.positions[p] = db.positions[p]
    BY <1>1 DEF WithoutWallet, Book
  <2>4. QED BY <2>1, <2>2, <2>3
<1>4. /\ Sources(Rows(db, LiveStatus))' = {x \in Sources(Rows(db, LiveStatus)) : x[1] # w}
      /\ Sources(Rows(db, FinalStatus))' = {x \in Sources(Rows(db, FinalStatus)) : x[1] # w}
  <2>1. /\ Sources(Rows(db, LiveStatus))' = Sources(Rows(db', LiveStatus))
        /\ Sources(Rows(db, FinalStatus))' = Sources(Rows(db', FinalStatus))
    BY DEF Sources, Rows
  <2>2. QED BY <1>3, <2>1
<1>5. QED BY <1>1, <1>2, <1>4 DEF Ledger!Unfollow, Ledger!OthersThan

LEMMA LedgerStutters ==
  ASSUME UNCHANGED db, DOMAIN wallets' = DOMAIN wallets
  PROVE  UNCHANGED Ledger!vars
BY DEF Ledger!vars, Sources, Rows

LEMMA LedgerStep == Inv /\ History /\ Grew(db, work) /\ [Next]_vars => [Ledger!Next]_(Ledger!vars)
<1> SUFFICES ASSUME Inv, History, Grew(db, work), [Next]_vars
             PROVE  Ledger!Next \/ UNCHANGED Ledger!vars
  OBVIOUS
<1>1. ASSUME UNCHANGED <<db, wallets>> PROVE UNCHANGED Ledger!vars
  BY <1>1, LedgerStutters
<1>2. CASE Environment
  BY <1>1, <1>2 DEF Environment, Tick, Publish, CloseMarket, ReportOutcome
<1>3. ASSUME NEW w \in Wallet, NEW s \in Settings, CreateWallet(w, s)
      PROVE  Ledger!Next
  <2>1. w \notin DOMAIN wallets /\ DOMAIN wallets' = DOMAIN wallets \cup {w} /\ UNCHANGED db
    BY <1>3 DEF CreateWallet, Put
  <2>2. Ledger!Follow(w)
    BY <2>1 DEF Ledger!Follow, Sources, Rows
  <2>3. QED BY <2>2 DEF Ledger!Next
<1>4. ASSUME NEW w \in Wallet, NEW s \in Settings, UpdateWallet(w, s)
      PROVE  UNCHANGED Ledger!vars
  <2>1. UNCHANGED db /\ DOMAIN wallets' = DOMAIN wallets
    BY <1>4 DEF UpdateWallet
  <2>2. QED BY <2>1, LedgerStutters
<1>5. ASSUME NEW w \in Wallet, DeleteWallet(w)
      PROVE  Ledger!Next
  BY <1>5, DeleteUnfollows DEF Ledger!Next
<1>6. ASSUME \/ BeginCycle \/ BeginRequestedCycle \/ BeginTick \/ BeginSettlement
             \/ BeginReconciliation \/ \E w \in Wallet : BeginWalletScan(w)
      PROVE  UNCHANGED <<db, wallets>>
  BY <1>6 DEF BeginCycle, BeginRequestedCycle, BeginTick, BeginSettlement,
              BeginReconciliation, BeginWalletScan, Begin
<1>7. CASE User
  BY <1>1, <1>3, <1>4, <1>5, <1>6, <1>7 DEF User
<1>8. ASSUME Commit \/ RequestBreaksOff
      PROVE  Ledger!Next
  <2>1. db' = work /\ UNCHANGED wallets
    BY <1>8 DEF Commit, RequestBreaksOff, Finished
  <2>2. QED BY <2>1, CommitRecords DEF Ledger!Next
<1>9. ASSUME Abort \/ Restart
      PROVE  UNCHANGED <<db, wallets>>
  BY <1>9 DEF Abort, Restart, Finished
<1>10. CASE Scan
  <2>1. ASSUME \/ \E w \in todo : Fetch(w) \/ FetchFails(w)
               \/ DeferRest \/ ScanBreaksOff \/ EndWallet \/ EndScan
        PROVE  UNCHANGED <<db, wallets>>
    BY <2>1 DEF Fetch, FetchFails, DeferRest, ScanBreaksOff, EndWallet, EndScan
  <2>2. ASSUME HandleTrade PROVE UNCHANGED <<db, wallets>>
    BY <2>2 DEF HandleTrade, IgnoreTrade, RecordSideless, DetectOnly, RefuseTrade, CopyBuy,
                CopySell, NewTrade, Handling
  <2>3. QED BY <1>1, <1>8, <1>10, <2>1, <2>2 DEF Scan
<1>11. ASSUME Settle \/ Reconcile
       PROVE  UNCHANGED <<db, wallets>>
  BY <1>11 DEF Settle, SettlePosition, SettlePositionFails, SettleVanished, SettlementStops,
               EndSettlement, Reconcile, ReconcilePosition, LeavePosition, EndReconciliation,
               Working
<1>12. CASE UNCHANGED vars
  BY <1>1, <1>12 DEF vars
<1>13. QED
  BY <1>1, <1>2, <1>6, <1>7, <1>8, <1>9, <1>10, <1>11, <1>12 DEF Next

LEMMA LedgerStart == Init => Ledger!Init /\ Grew(db, work)
<1>1. DOMAIN NoRows = {}
  BY DEF NoRows
<1>2. EmptyBook.trades = {} /\ DOMAIN EmptyBook.positions = {}
  BY <1>1 DEF EmptyBook, Book
<1> HIDE DEF EmptyBook
<1>3. QED BY <1>1, <1>2, NothingGrew DEF Init, Ledger!Init, Sources, Rows

\* The engine implements the ledger: whatever operations, crashes and edits follow each
\* other, a trade of a followed wallet is decided once, with its position or without,
\* what is finished stays so, and only unfollowing the wallet forgets it.
THEOREM EngineKeepsLedger == Spec => KeepsLedger
<1>1. Inv /\ History /\ Grew(db, work) /\ [Next]_vars
        => Inv' /\ History' /\ Grew(db, work)' /\ [Ledger!Next]_(Ledger!vars)
  BY StepInv, HistoryNext, GrewNext, LedgerStep
<1>2. Init => Inv /\ History /\ Grew(db, work) /\ Ledger!Init
  BY InitInv, HistoryInit, LedgerStart
<1>3. QED BY <1>1, <1>2, PTL DEF Spec, KeepsLedger, Ledger!Spec
===============================================================================
