--------------------------- MODULE CopyEngine_proofs ---------------------------
(***************************************************************************)
(* Invariance proofs for CopyEngine, for every set of wallets, markets,    *)
(* trades and settings.  The lemmas say what each handler does to one copy *)
(* of the tables; the theorem applies them to `work' step by step.         *)
(***************************************************************************)
EXTENDS CopyEngine, SequenceTheorems, TLAPS

\* Storing a trade that is not stored yet.
LEMMA TradeSound ==
  ASSUME NEW d, Sound(d), NEW w \in Wallet, NEW t \in PublicTrade, t.side \in Sides,
         ~Detected(d, w, t.key)
  PROVE  /\ Sound(WithTrade(d, w, t))
         /\ Detected(WithTrade(d, w, t), w, t.key)
<1> DEFINE e == WithTrade(d, w, t)
<1>1. /\ e.trades = d.trades \cup {Row(w, t)}
      /\ e.orders = d.orders
      /\ e.positions = d.positions
  BY DEF WithTrade, Book
<1>2. /\ Row(w, t) \in TradeRow
      /\ Row(w, t).wallet = w
      /\ Row(w, t).key = t.key
  BY DEF Row, TradeRow, PublicTrade
<1>3. Tables(e)
  BY <1>1, <1>2 DEF Sound, Tables
<1>4. EachTradeOnce(e)
  BY <1>1, <1>2 DEF Sound, EachTradeOnce, Detected
<1>5. CopiedFromItsTrade(e)
  BY <1>1 DEF Sound, CopiedFromItsTrade, Detected
<1>6. ExitIffFinal(e) /\ ClosedByOwnSale(e)
  BY <1>1 DEF Sound, ExitIffFinal, ClosedByOwnSale
<1>7. Detected(e, w, t.key)
  BY <1>1, <1>2 DEF Detected
<1>8. QED BY <1>3, <1>4, <1>5, <1>6, <1>7 DEF Sound

\* A new order, under an identity no order has.
LEMMA OrderSound ==
  ASSUME NEW d, Sound(d), NEW o \in OrderId, o \notin DOMAIN d.orders,
         NEW w \in Wallet, NEW k \in DedupeKey \cup {None}, NEW a \in Sides,
         NEW s \in {"simulated", "skipped", "blocked"}
  PROVE  /\ Sound(WithOrder(d, o, w, k, a, s))
         /\ WithOrder(d, o, w, k, a, s).trades = d.trades
         /\ WithOrder(d, o, w, k, a, s).positions = d.positions
         /\ o \in DOMAIN WithOrder(d, o, w, k, a, s).orders
         /\ LET new == WithOrder(d, o, w, k, a, s).orders[o] IN
            new.wallet = w /\ new.key = k /\ new.action = a /\ new.status = s
<1> DEFINE e == WithOrder(d, o, w, k, a, s)
           row == [wallet |-> w, key |-> k, action |-> a, status |-> s]
<1>1. /\ e.trades = d.trades
      /\ e.orders = Put(d.orders, o, row)
      /\ e.positions = d.positions
  BY DEF WithOrder, Book
<1>2. /\ DOMAIN e.orders = DOMAIN d.orders \cup {o}
      /\ e.orders[o] = row
      /\ \A x \in DOMAIN d.orders : e.orders[x] = d.orders[x]
  BY <1>1 DEF Put
<1>3. row \in OrderRow
  BY DEF OrderRow
<1>4. Tables(e)
  BY <1>1, <1>2, <1>3 DEF Sound, Tables
<1>5. DOMAIN d.positions \subseteq DOMAIN d.orders
  BY DEF Sound, Tables
<1>6. CopiedFromItsTrade(e)
  BY <1>1, <1>2, <1>5 DEF Sound, CopiedFromItsTrade, Detected
<1>7. EachTradeOnce(e) /\ ExitIffFinal(e)
  BY <1>1 DEF Sound, EachTradeOnce, ExitIffFinal
<1>8. ClosedByOwnSale(e)
  BY <1>1, <1>2 DEF Sound, ClosedByOwnSale
<1>9. QED BY <1>1, <1>2, <1>4, <1>6, <1>7, <1>8 DEF Sound

\* A position opened under the identity of its own, new simulated BUY order, for a
\* trade no other position copies.
LEMMA OpenedSound ==
  ASSUME NEW d, Sound(d), NEW p \in OrderId, p \in DOMAIN d.orders, p \notin DOMAIN d.positions,
         NEW w \in Wallet, NEW t \in PublicTrade, NEW time \in Nat,
         d.orders[p].wallet = w, d.orders[p].key = t.key,
         d.orders[p].action = "buy", d.orders[p].status = "simulated",
         Detected(d, w, t.key),
         \A q \in DOMAIN d.positions : ~(d.positions[q].wallet = w /\ d.positions[q].key = t.key)
  PROVE  Sound(WithOpened(d, p, w, t, time))
<1> DEFINE e == WithOpened(d, p, w, t, time)
           row == [wallet |-> w, key |-> t.key, market |-> t.market, asset |-> t.asset,
                   outcome |-> t.outcome, entry |-> t.price, opened |-> time,
                   status |-> "open", exit |-> None, closing |-> None, closed |-> None]
<1>1. /\ e.trades = d.trades
      /\ e.orders = d.orders
      /\ e.positions = Put(d.positions, p, row)
  BY DEF WithOpened, Book
<1>2. /\ DOMAIN e.positions = DOMAIN d.positions \cup {p}
      /\ e.positions[p] = row
      /\ \A q \in DOMAIN d.positions : e.positions[q] = d.positions[q]
  BY <1>1 DEF Put
<1>3. row \in PositionRow
  BY DEF PositionRow, PublicTrade, LiveStatus
<1>4. Tables(e)
  BY <1>1, <1>2, <1>3 DEF Sound, Tables
<1>5. EachTradeOnce(e)
  BY <1>1 DEF Sound, EachTradeOnce
<1>6. CopiedFromItsTrade(e)
  BY <1>1, <1>2 DEF Sound, CopiedFromItsTrade, Detected
<1>7. ExitIffFinal(e)
  BY <1>1, <1>2 DEF Sound, ExitIffFinal, FinalStatus
<1>8. ClosedByOwnSale(e)
  BY <1>1, <1>2 DEF Sound, ClosedByOwnSale
<1>9. QED BY <1>4, <1>5, <1>6, <1>7, <1>8 DEF Sound

\* A live position whose closing order, if it gets one, is a simulated SELL of its
\* wallet that closes nothing else, and that gets an exit exactly with a final status.
LEMMA PositionSound ==
  ASSUME NEW d, Sound(d), NEW p \in DOMAIN d.positions, NEW row \in PositionRow,
         row.wallet = d.positions[p].wallet, row.key = d.positions[p].key,
         row.status \in FinalStatus <=> row.exit # None,
         row.status \in FinalStatus <=> row.closed # None,
         row.closing # None =>
           /\ row.status = "closed"
           /\ row.closing \in DOMAIN d.orders
           /\ d.orders[row.closing].wallet = row.wallet
           /\ d.orders[row.closing].action = "sell"
           /\ d.orders[row.closing].status = "simulated"
           /\ \A q \in DOMAIN d.positions : d.positions[q].closing # row.closing
  PROVE  Sound(WithPosition(d, p, row))
<1> DEFINE e == WithPosition(d, p, row)
<1>1. /\ e.trades = d.trades
      /\ e.orders = d.orders
      /\ e.positions = Put(d.positions, p, row)
  BY DEF WithPosition, Book
<1>2. /\ DOMAIN e.positions = DOMAIN d.positions
      /\ e.positions[p] = row
      /\ \A q \in DOMAIN d.positions : q # p => e.positions[q] = d.positions[q]
  BY <1>1 DEF Put
<1>3. Tables(e)
  BY <1>1, <1>2 DEF Sound, Tables
<1>4. EachTradeOnce(e)
  BY <1>1 DEF Sound, EachTradeOnce
<1>5. \A q \in DOMAIN e.positions :
        /\ e.positions[q].wallet = d.positions[q].wallet
        /\ e.positions[q].key = d.positions[q].key
  BY <1>2
<1>6. CopiedFromItsTrade(e)
  <2>1. CopiedFromItsTrade(d)
    BY DEF Sound
  <2> HIDE DEF e
  <2>2. \A w, k : Detected(d, w, k) => Detected(e, w, k)
    BY <1>1 DEF Detected
  <2>3. ASSUME NEW q \in DOMAIN e.positions
        PROVE  /\ e.orders[q].wallet = e.positions[q].wallet
               /\ e.orders[q].key = e.positions[q].key
               /\ e.orders[q].action = "buy" /\ e.orders[q].status = "simulated"
               /\ Detected(e, e.positions[q].wallet, e.positions[q].key)
    BY <1>1, <1>2, <1>5, <2>1, <2>2 DEF CopiedFromItsTrade
  <2>4. \A q, r \in DOMAIN e.positions :
          /\ e.positions[q].wallet = e.positions[r].wallet
          /\ e.positions[q].key = e.positions[r].key
          => q = r
    BY <1>2, <1>5, <2>1 DEF CopiedFromItsTrade
  <2>5. QED BY <2>3, <2>4 DEF CopiedFromItsTrade
<1>7. ExitIffFinal(e)
  BY <1>1, <1>2 DEF Sound, ExitIffFinal
<1>8. ClosedByOwnSale(e)
  BY <1>1, <1>2 DEF Sound, ClosedByOwnSale
<1>9. QED BY <1>3, <1>4, <1>6, <1>7, <1>8 DEF Sound

\* Deleting a wallet takes all its rows along.
LEMMA WithoutWalletSound ==
  ASSUME NEW d, Sound(d), NEW w
  PROVE  /\ Sound(WithoutWallet(d, w))
         /\ Live(WithoutWallet(d, w)) = Live(d) \cap DOMAIN WithoutWallet(d, w).positions
         /\ Open(WithoutWallet(d, w)) = Open(d) \cap DOMAIN WithoutWallet(d, w).positions
         /\ DOMAIN WithoutWallet(d, w).positions \subseteq DOMAIN d.positions
<1> DEFINE e == WithoutWallet(d, w)
<1>1. /\ e.trades = {t \in d.trades : t.wallet # w}
      /\ e.orders = [o \in {x \in DOMAIN d.orders : d.orders[x].wallet # w} |-> d.orders[o]]
      /\ e.positions =
           [p \in {x \in DOMAIN d.positions : d.positions[x].wallet # w} |-> d.positions[p]]
  BY DEF WithoutWallet, Book
<1>2. /\ DOMAIN e.orders = {x \in DOMAIN d.orders : d.orders[x].wallet # w}
      /\ \A o \in DOMAIN e.orders : e.orders[o] = d.orders[o]
      /\ DOMAIN e.positions = {x \in DOMAIN d.positions : d.positions[x].wallet # w}
      /\ \A p \in DOMAIN e.positions : e.positions[p] = d.positions[p]
  BY <1>1
<1>3. \A p \in DOMAIN d.positions :
        p \in DOMAIN d.orders /\ d.orders[p].wallet = d.positions[p].wallet
  BY DEF Sound, Tables, CopiedFromItsTrade
<1>4. Tables(e)
  BY <1>1, <1>2, <1>3 DEF Sound, Tables
<1>5. EachTradeOnce(e)
  BY <1>1 DEF Sound, EachTradeOnce
<1>6. CopiedFromItsTrade(e)
  <2>1. CopiedFromItsTrade(d)
    BY DEF Sound
  <2> HIDE DEF e
  <2>2. \A v, k : v # w /\ Detected(d, v, k) => Detected(e, v, k)
    BY <1>1 DEF Detected
  <2>3. ASSUME NEW p \in DOMAIN e.positions
        PROVE  /\ e.orders[p].wallet = e.positions[p].wallet
               /\ e.orders[p].key = e.positions[p].key
               /\ e.orders[p].action = "buy" /\ e.orders[p].status = "simulated"
               /\ Detected(e, e.positions[p].wallet, e.positions[p].key)
    <3>1. /\ p \in DOMAIN d.positions /\ e.positions[p] = d.positions[p]
          /\ d.positions[p].wallet # w
      BY <1>2
    <3>2. p \in DOMAIN e.orders /\ e.orders[p] = d.orders[p]
      BY <1>2, <1>3, <3>1
    <3>3. QED BY <2>1, <2>2, <3>1, <3>2 DEF CopiedFromItsTrade
  <2>4. \A p, q \in DOMAIN e.positions :
          /\ e.positions[p].wallet = e.positions[q].wallet
          /\ e.positions[p].key = e.positions[q].key
          => p = q
    BY <1>2, <2>1 DEF CopiedFromItsTrade
  <2>5. QED BY <2>3, <2>4 DEF CopiedFromItsTrade
<1>7. ExitIffFinal(e)
  BY <1>2 DEF Sound, ExitIffFinal
<1>8. ClosedByOwnSale(e)
  BY <1>2 DEF Sound, ClosedByOwnSale
<1>9. QED BY <1>2, <1>4, <1>5, <1>6, <1>7, <1>8 DEF Sound, Live, Open

\* Closing a live position with a new simulated SELL order of its wallet, as a copied
\* sale and the reconciliation do.
LEMMA ClosedSound ==
  ASSUME NEW d, Sound(d), NEW p \in DOMAIN d.positions, NEW o \in OrderId,
         o \notin DOMAIN d.orders, NEW k \in DedupeKey,
         NEW price \in Nat, NEW time \in Nat
  PROVE  LET w == d.positions[p].wallet
             e == WithClosed(WithOrder(d, o, w, k, "sell", "simulated"), p, o, price, time)
         IN  /\ Sound(e)
             /\ DOMAIN e.positions = DOMAIN d.positions
             /\ \A q \in DOMAIN d.positions : q # p => e.positions[q] = d.positions[q]
<1> DEFINE w == d.positions[p].wallet
           c == WithOrder(d, o, w, k, "sell", "simulated")
           row == SoldRow(d.positions[p], o, price, time)
           e == WithClosed(c, p, o, price, time)
<1>1. d.positions[p] \in PositionRow
  BY DEF Sound, Tables
<1>2. w \in Wallet
  BY <1>1 DEF PositionRow
<1>3. /\ Sound(c)
      /\ c.positions = d.positions
      /\ o \in DOMAIN c.orders
      /\ c.orders[o].wallet = w /\ c.orders[o].action = "sell"
      /\ c.orders[o].status = "simulated"
  <2>1. /\ k \in DedupeKey \cup {None} /\ "sell" \in Sides
        /\ "simulated" \in {"simulated", "skipped", "blocked"}
    BY DEF Sides
  <2> HIDE DEF w
  <2>2. QED BY <1>2, <2>1, OrderSound
<1>4. /\ row \in PositionRow
      /\ row.wallet = w
      /\ row.key = d.positions[p].key
      /\ row.status = "closed"
      /\ row.exit = price
      /\ row.closing = o
      /\ row.closed = time
  BY <1>1 DEF SoldRow, PositionRow, FinalStatus
<1>5. price # None /\ time # None
  BY ConstantsOK
<1>6. \A q \in DOMAIN d.positions : d.positions[q].closing # o
  BY ConstantsOK DEF Sound, ClosedByOwnSale
<1>7. e = WithPosition(c, p, row)
  BY <1>3 DEF WithClosed
<1> HIDE DEF row, c
<1>8. Sound(WithPosition(c, p, row))
  BY <1>3, <1>4, <1>5, <1>6, PositionSound DEF FinalStatus
<1>9. /\ DOMAIN WithPosition(c, p, row).positions = DOMAIN d.positions
      /\ \A q \in DOMAIN d.positions :
           q # p => WithPosition(c, p, row).positions[q] = d.positions[q]
  BY <1>3 DEF WithPosition, Book, Put
<1>10. QED BY <1>7, <1>8, <1>9 DEF c

\* What settlement makes of a live position.
LEMMA SettledSound ==
  ASSUME NEW row \in PositionRow, row.status \in LiveStatus, row.exit = None,
         row.closing = None, row.closed = None, at \in Nat,
         NEW o \in Resolution \cup {None}, NEW looksClosed \in BOOLEAN
  PROVE  LET new == Settled(row, o, looksClosed) IN
         /\ new \in PositionRow
         /\ new.wallet = row.wallet /\ new.key = row.key /\ new.closing = None
         /\ new.status \in FinalStatus <=> new.exit # None
         /\ new.status \in FinalStatus <=> new.closed # None
<1> DEFINE ends(status, price) ==
             [row EXCEPT !.status = status, !.exit = price, !.closed = at]
           stays(status) == [row EXCEPT !.status = status, !.closed = None]
           good(new) == /\ new \in PositionRow
                        /\ new.wallet = row.wallet /\ new.key = row.key /\ new.closing = None
                        /\ new.status \in FinalStatus <=> new.exit # None
                        /\ new.status \in FinalStatus <=> new.closed # None
<1>1. ASSUME NEW status \in FinalStatus, NEW price \in Nat
      PROVE  good(ends(status, price))
  BY <1>1, ConstantsOK DEF PositionRow, FinalStatus, LiveStatus
<1>2. ASSUME NEW status \in LiveStatus
      PROVE  good(stays(status))
  BY <1>2 DEF PositionRow, FinalStatus, LiveStatus
<1>3. 0 \in Nat /\ FullPrice \in Nat /\ row.entry \in Nat
  BY ConstantsOK DEF PositionRow
<1>4. /\ "closed" \in FinalStatus /\ "cancelled" \in FinalStatus
      /\ "open" \in LiveStatus /\ "waiting_resolution" \in LiveStatus
      /\ "unknown_resolution" \in LiveStatus
  BY DEF FinalStatus, LiveStatus
<1> DEFINE side == PositionSide(row)
           new == Settled(row, o, looksClosed)
<1>5. \/ \E status \in FinalStatus, price \in Nat : new = ends(status, price)
      \/ \E status \in LiveStatus : new = stays(status)
  <2>1. CASE o \in {"yes", "no"} /\ side # None
    BY <2>1, <1>3, <1>4 DEF Settled
  <2>2. CASE o \in {"yes", "no"} /\ side = None
    BY <2>2, <1>4 DEF Settled
  <2>3. CASE o \in {"cancelled", "invalid"}
    BY <2>3, <1>3, <1>4 DEF Settled
  <2>4. CASE o = "unknown"
    BY <2>4, <1>4 DEF Settled
  <2>5. CASE o = None
    BY <2>5, <1>4, ConstantsOK DEF Settled, Resolution
  <2>6. QED BY <2>1, <2>2, <2>3, <2>4, <2>5 DEF Resolution
<1>6. good(new)
  <2> HIDE DEF new, ends, stays, good
  <2>1. QED BY <1>1, <1>2, <1>5
<1>7. QED BY <1>6
-------------------------------------------------------------------------------
Inv == TypeOK /\ BookInv

LEMMA EmptySound == Sound(EmptyBook)
<1>1. /\ EmptyBook.trades = {}
      /\ DOMAIN EmptyBook.orders = {}
      /\ DOMAIN EmptyBook.positions = {}
  BY DEF EmptyBook, Book, NoRows
<1> HIDE DEF EmptyBook
<1>2. QED
  BY <1>1 DEF Sound, Tables, EachTradeOnce, CopiedFromItsTrade, ExitIffFinal, ClosedByOwnSale

LEMMA InitInv == Init => Inv
<1> SUFFICES ASSUME Init PROVE Inv
  OBVIOUS
<1>1. Sound(db) /\ Sound(work)
  BY EmptySound DEF Init
<1>2. DOMAIN wallets = {} /\ DOMAIN seen = {}
  BY DEF Init, NoRows
<1>3. feed \in [Wallet -> Seq(PublicTrade)] /\ batch \in Seq(PublicTrade)
  BY DEF Init
<1>4. now \in 0 .. MaxTime
  BY ConstantsOK DEF Init
<1>5. TypeOK
  BY <1>1, <1>2, <1>3, <1>4 DEF Init, TypeOK, Sound
<1>6. QED
  BY <1>1, <1>5 DEF Init, Inv, BookInv, QueueUnfinished, AtRest

\* A step that leaves both copies of the tables and the operation alone.
LEMMA OutsideStep ==
  ASSUME Inv, UNCHANGED <<db, work, opvars, lastSettle>>,
         now' \in 0 .. MaxTime,
         feed' \in [Wallet -> Seq(PublicTrade)],
         market' \in [Market -> [outcome: Resolution \cup {None}, closed: BOOLEAN]],
         DOMAIN wallets' \subseteq Wallet,
         \A w \in DOMAIN wallets' : wallets'[w] \in [created: Nat, set: SettingsType]
  PROVE  Inv'
<1>1. TypeOK'
  BY DEF Inv, TypeOK, opvars
<1>2. BookInv'
  BY DEF Inv, BookInv, QueueUnfinished, AtRest, Live, Open, opvars
<1>3. QED BY <1>1, <1>2 DEF Inv

LEMMA KeyOfType ==
  ASSUME NEW tx \in Tx \cup {None}, NEW c \in ContentType, NEW ts \in Nat \cup {None}
  PROVE  KeyOf(tx, c, ts) \in DedupeKey
BY DEF KeyOf, DedupeKey, FieldsKey, ContentType

LEMMA EnvironmentInv == Inv /\ Environment => Inv'
<1> SUFFICES ASSUME Inv, Environment PROVE Inv'
  OBVIOUS
<1> USE DEF env
<1>1. CASE Tick
  <2>1. now' \in 0 .. MaxTime
    BY <1>1, ConstantsOK DEF Tick, Inv, TypeOK
  <2>2. QED BY <1>1, <2>1, OutsideStep DEF Tick, Inv, TypeOK
<1>2. ASSUME NEW w \in Wallet, NEW c \in Content, NEW tx \in Tx \cup {None}, Publish(w, c, tx)
      PROVE  Inv'
  <2> DEFINE ts == IF c.dated THEN now ELSE None
             t == [key |-> KeyOf(tx, c, ts), ts |-> ts, side |-> c.side, market |-> c.market,
                   asset |-> c.asset, outcome |-> c.outcome, price |-> c.price]
  <2>1. c \in ContentType /\ ts \in Nat \cup {None}
    BY ConstantsOK DEF Inv, TypeOK
  <2>2. t \in PublicTrade
    <3>1. KeyOf(tx, c, ts) \in DedupeKey
      BY <2>1, KeyOfType
    <3>2. QED BY <2>1, <3>1 DEF PublicTrade, ContentType
  <2> HIDE DEF t
  <2>3. feed' = [feed EXCEPT ![w] = <<t>> \o @]
    BY <1>2 DEF Publish, t
  <2>4. feed[w] \in Seq(PublicTrade)
    BY DEF Inv, TypeOK
  <2>5. <<t>> \o feed[w] \in Seq(PublicTrade)
    BY <2>2, <2>4
  <2>6. feed' \in [Wallet -> Seq(PublicTrade)]
    BY <2>3, <2>5 DEF Inv, TypeOK
  <2>7. QED BY <1>2, <2>6, OutsideStep DEF Publish, Inv, TypeOK
<1>3. ASSUME NEW m \in Market, CloseMarket(m)
      PROVE  Inv'
  BY <1>3, OutsideStep DEF CloseMarket, Inv, TypeOK
<1>4. ASSUME NEW m \in Market, NEW o \in Reports, ReportOutcome(m, o)
      PROVE  Inv'
  <2>1. o \in Resolution
    BY ConstantsOK
  <2>2. QED BY <1>4, <2>1, OutsideStep DEF ReportOutcome, Inv, TypeOK
<1>5. QED BY <1>1, <1>2, <1>3, <1>4 DEF Environment

LEMMA CreateWalletInv ==
  ASSUME Inv, NEW w \in Wallet, NEW s \in Settings, CreateWallet(w, s) \/ UpdateWallet(w, s)
  PROVE  Inv'
<1>1. s \in SettingsType /\ now \in Nat
  BY ConstantsOK DEF Inv, TypeOK
<1>2. /\ DOMAIN wallets' \subseteq Wallet
      /\ \A v \in DOMAIN wallets' : wallets'[v] \in [created: Nat, set: SettingsType]
  <2>1. CASE CreateWallet(w, s)
    BY <1>1, <2>1 DEF CreateWallet, Put, Inv, TypeOK
  <2>2. CASE UpdateWallet(w, s)
    BY <1>1, <2>2 DEF UpdateWallet, Inv, TypeOK
  <2>3. QED BY <2>1, <2>2
<1>3. UNCHANGED <<env, db, work, opvars, lastSettle>>
  BY DEF CreateWallet, UpdateWallet
<1>4. QED BY <1>2, <1>3, OutsideStep DEF env, Inv, TypeOK

LEMMA DeleteWalletInv ==
  ASSUME Inv, NEW w \in Wallet, DeleteWallet(w)
  PROVE  Inv'
<1>1. Sound(db') /\ Sound(work')
  BY WithoutWalletSound DEF DeleteWallet, Inv, BookInv
<1>2. /\ DOMAIN wallets' \subseteq DOMAIN wallets
      /\ \A v \in DOMAIN wallets' : wallets'[v] = wallets[v]
      /\ gone' \subseteq Wallet
  BY DEF DeleteWallet, Inv, TypeOK
<1>3. TypeOK'
  BY <1>1, <1>2 DEF DeleteWallet, env, Inv, TypeOK, Sound
<1>4. QueueUnfinished'
  <2>1. /\ Live(work') = Live(work) \cap DOMAIN work'.positions
        /\ Open(work') = Open(work) \cap DOMAIN work'.positions
        /\ DOMAIN work'.positions \subseteq DOMAIN work.positions
    BY WithoutWalletSound DEF DeleteWallet, Inv, BookInv
  <2>2. phase' = phase /\ queue' = queue
    BY DEF DeleteWallet
  <2>3. QED BY <2>1, <2>2 DEF QueueUnfinished, Inv, BookInv, Live, Open
<1>5. AtRest'
  BY DEF DeleteWallet, AtRest, Inv, BookInv
<1>6. QED BY <1>1, <1>3, <1>4, <1>5 DEF Inv, BookInv

\* Starting an operation: the tables are equal, the queue is made of unfinished rows.
LEMMA BeginStep ==
  ASSUME Inv, NEW kind \in {"cycle", "request", "scan", "settlement", "reconciliation"},
         NEW first \in {"scan", "settle", "reconcile"},
         NEW targets, targets \subseteq DOMAIN wallets,
         Begin(kind, first, targets),
         queue' \subseteq OrderId,
         first = "settle" => queue' \subseteq Live(db),
         first = "reconcile" => queue' \subseteq Open(db)
  PROVE  Inv'
<1>1. work = db /\ cur = None
  BY DEF Begin, Inv, BookInv, AtRest
<1>2. at' \in Nat
  BY DEF Begin, Inv, TypeOK
<1>3. TypeOK'
  BY <1>1, <1>2 DEF Begin, env, Inv, TypeOK
<1>4. BookInv'
  BY <1>1 DEF Begin, Inv, BookInv, QueueUnfinished, AtRest, Live, Open
<1>5. QED BY <1>3, <1>4 DEF Inv

LEMMA BeginInv ==
  ASSUME Inv,
         \/ BeginCycle \/ BeginRequestedCycle \/ BeginTick \/ BeginSettlement \/ BeginReconciliation
         \/ \E w \in Wallet : BeginWalletScan(w)
  PROVE  Inv'
<1>1. queue \subseteq OrderId /\ Live(db) \subseteq OrderId /\ Open(db) \subseteq OrderId
  BY DEF Inv, TypeOK, Tables, Live, Open
<1>2. Eligible \subseteq DOMAIN wallets
  BY DEF Eligible
<1>3. CASE BeginCycle \/ BeginRequestedCycle
  BY <1>1, <1>2, <1>3, BeginStep DEF BeginCycle, BeginRequestedCycle
<1>4. CASE BeginTick
  BY <1>1, <1>2, <1>4, BeginStep DEF BeginTick
<1>5. ASSUME NEW w \in Wallet, BeginWalletScan(w) PROVE Inv'
  BY <1>1, <1>5, BeginStep DEF BeginWalletScan
<1>6. CASE BeginSettlement
  <2>1. queue' \subseteq Live(db)
    BY <1>6 DEF BeginSettlement, OldestBatches
  <2>2. Begin("settlement", "settle", {})
    BY <1>6 DEF BeginSettlement
  <2>3. QED BY <1>1, <2>1, <2>2, BeginStep
<1>7. CASE BeginReconciliation
  <2>1. queue' \subseteq Open(db)
    BY <1>7 DEF BeginReconciliation, OldestBatches
  <2>2. Begin("reconciliation", "reconcile", {})
    BY <1>7 DEF BeginReconciliation
  <2>3. QED BY <1>1, <2>1, <2>2, BeginStep
<1>8. QED BY <1>3, <1>4, <1>5, <1>6, <1>7

\* Commit, rollback and the death of the process leave no operation and one copy.
LEMMA EndInv == Inv /\ (Commit \/ RequestBreaksOff \/ Abort \/ Restart) => Inv'
<1> SUFFICES ASSUME Inv, Commit \/ RequestBreaksOff \/ Abort \/ Restart PROVE Inv'
  OBVIOUS
<1>1. Finished /\ work' = db' /\ (db' = db \/ db' = work)
  BY DEF Commit, RequestBreaksOff, Abort, Restart
<1>2. lastSettle' \in Nat \cup {None}
  BY DEF Commit, RequestBreaksOff, Abort, Restart, Inv, TypeOK
<1>3. Sound(db') /\ Sound(work')
  BY <1>1 DEF Inv, BookInv
<1>4. DOMAIN seen' = {} /\ batch' \in Seq(PublicTrade)
  BY <1>1 DEF Finished, NoRows
<1>5. TypeOK'
  BY <1>1, <1>2, <1>3, <1>4 DEF Finished, env, Inv, TypeOK, Sound
<1>6. BookInv'
  BY <1>1, <1>3 DEF Finished, BookInv, QueueUnfinished, AtRest
<1>7. QED BY <1>5, <1>6 DEF Inv

-------------------------------------------------------------------------------
(* Scanning. *)

\* A step of a scan: the tables stay sound, whatever else it does to the scan itself.
LEMMA ScanStep ==
  ASSUME Inv, phase = "scan",
         UNCHANGED <<env, wallets, db, run, seen, gone, lastSettle>>,
         Sound(work'),
         at' \in Nat, todo' \subseteq todo, cur' \in {None, cur} \cup todo,
         batch' \in Seq(PublicTrade), locked' \subseteq Wallet,
         \/ phase' = "scan" /\ queue' = queue
         \/ phase' = "commit" /\ queue' = queue
         \/ phase' = "settle" /\ queue' \subseteq Live(work')
  PROVE  Inv'
<1>1. run # "idle"
  BY DEF Inv, BookInv, AtRest
<1>2. queue' \subseteq OrderId
  BY DEF Inv, TypeOK, Live, Sound, Tables
<1>3. TypeOK'
  BY <1>2 DEF env, Inv, TypeOK, Sound
<1>4. BookInv'
  BY <1>1 DEF Inv, BookInv, QueueUnfinished, AtRest
<1>5. QED BY <1>3, <1>4 DEF Inv

LEMMA NewestType ==
  ASSUME NEW s \in Seq(PublicTrade)
  PROVE  Newest(s) \in Seq(PublicTrade)
<1>1. FetchLimit \in Nat /\ Len(s) \in Nat
  BY ConstantsOK
<1>2. \A i \in 1 .. (IF Len(s) <= FetchLimit THEN Len(s) ELSE FetchLimit) :
        s[i] \in PublicTrade
  BY <1>1
<1>3. QED BY <1>1, <1>2, SubSeqProperties DEF Newest

LEMMA FetchInv ==
  ASSUME Inv, NEW w \in todo, Fetch(w) \/ FetchFails(w)
  PROVE  Inv'
<1>1. w \in Wallet /\ now \in Nat /\ feed[w] \in Seq(PublicTrade)
  BY DEF Inv, TypeOK
<1>2. at' \in Nat /\ todo' \subseteq todo /\ phase = "scan"
  BY <1>1 DEF Fetch, FetchFails, StartWallet, Inv, TypeOK
<1>3. Sound(work)
  BY DEF Inv, BookInv
<1>4. CASE Fetch(w)
  <2>1. batch' \in Seq(PublicTrade)
    BY <1>1, <1>4, NewestType DEF Fetch
  <2>2. QED BY <1>2, <1>3, <1>4, <2>1, ScanStep DEF Fetch, Inv, TypeOK
<1>5. CASE FetchFails(w)
  BY <1>1, <1>2, <1>3, <1>5, ScanStep DEF FetchFails, Inv, TypeOK
<1>6. QED BY <1>4, <1>5

\* A handled trade leaves the scan where it was.
LEMMA HandlingStep ==
  ASSUME Inv, NEW t, Handling(t), locked' \subseteq locked \cup {cur}, Sound(work')
  PROVE  Inv'
<1>1. batch # <<>> /\ batch \in Seq(PublicTrade)
  BY DEF Handling, Inv, TypeOK
<1>2. batch' \in Seq(PublicTrade)
  BY <1>1 DEF Handling
<1>3. cur \in Wallet
  BY DEF Handling, Inv, TypeOK
<1>4. QED BY <1>2, <1>3, ScanStep DEF Handling, Inv, TypeOK

LEMMA HandledTypes ==
  ASSUME Inv, NEW t, Handling(t)
  PROVE  t \in PublicTrade /\ cur \in Wallet /\ Sound(work) /\ at \in Nat
<1>1. batch # <<>> /\ batch \in Seq(PublicTrade)
  BY DEF Handling, Inv, TypeOK
<1>2. t \in PublicTrade
  BY <1>1 DEF Handling
<1>3. QED BY <1>2 DEF Handling, Inv, TypeOK, BookInv

LEMMA FreshIdType ==
  ASSUME NEW d, HasRoom(d)
  PROVE  FreshId(d) \in OrderId /\ FreshId(d) \notin DOMAIN d.orders
BY DEF HasRoom, FreshId

LEMMA VerdictType ==
  ASSUME NEW side, NEW price
  PROVE  Verdict(side, price) \in {"simulated", "skipped", "blocked"}
BY DEF Verdict

LEMMA RefusalInv ==
  ASSUME Inv, NEW t, IgnoreTrade(t) \/ RecordSideless(t) \/ DetectOnly(t) \/ RefuseTrade(t)
  PROVE  Inv'
<1>1. Handling(t)
  BY DEF IgnoreTrade, RecordSideless, DetectOnly, RefuseTrade, NewTrade
<1>2. t \in PublicTrade /\ cur \in Wallet /\ Sound(work)
  BY <1>1, HandledTypes
<1>3. t.key \in DedupeKey
  BY <1>2 DEF PublicTrade
<1>4. CASE IgnoreTrade(t)
  BY <1>1, <1>2, <1>4, HandlingStep DEF IgnoreTrade
<1>5. CASE RecordSideless(t)
  <2>1. /\ FreshId(work) \in OrderId /\ FreshId(work) \notin DOMAIN work.orders
        /\ Verdict(None, t.price) \in {"simulated", "skipped", "blocked"}
        /\ "buy" \in Sides /\ None \in DedupeKey \cup {None}
    BY <1>5, FreshIdType, VerdictType DEF RecordSideless, Sides
  <2>2. Sound(WithOrder(work, FreshId(work), cur, None, "buy", Verdict(None, t.price)))
    BY <1>2, <2>1, OrderSound
  <2>3. QED BY <1>1, <1>5, <2>2, HandlingStep DEF RecordSideless
<1>6. CASE DetectOnly(t)
  BY <1>1, <1>2, <1>6, TradeSound, HandlingStep DEF DetectOnly, NewTrade
<1>7. CASE RefuseTrade(t)
  <2> DEFINE d == WithTrade(work, cur, t)
             v == Verdict(t.side, t.price)
  <2>1. Sound(d) /\ t.side \in Sides
    BY <1>2, <1>7, TradeSound DEF RefuseTrade, NewTrade
  <2>2. d.orders = work.orders
    BY DEF WithTrade, Book
  <2> HIDE DEF d
  <2>3. /\ FreshId(work) \in OrderId /\ FreshId(work) \notin DOMAIN d.orders
        /\ v \in {"simulated", "skipped", "blocked"}
        /\ t.key \in DedupeKey \cup {None}
    BY <1>3, <1>7, <2>2, FreshIdType, VerdictType DEF RefuseTrade
  <2>4. Sound(WithOrder(d, FreshId(work), cur, t.key, t.side, v))
    BY <1>2, <2>1, <2>3, OrderSound
  <2>5. QED BY <1>1, <1>7, <2>4, HandlingStep DEF RefuseTrade, NewTrade, d
<1>8. QED BY <1>4, <1>5, <1>6, <1>7

\* The trade was not detected before, so no position copies it yet.
LEMMA CopyBuyInv ==
  ASSUME Inv, NEW t, CopyBuy(t)
  PROVE  Inv'
<1> DEFINE o == FreshId(work)
           d == WithTrade(work, cur, t)
           e == WithOrder(d, o, cur, t.key, "buy", "simulated")
<1>1. Handling(t) /\ t.side = "buy" /\ ~Detected(work, cur, t.key)
  BY DEF CopyBuy, NewTrade
<1>2. t \in PublicTrade /\ cur \in Wallet /\ Sound(work) /\ at \in Nat
  BY <1>1, HandledTypes
<1>3. t.key \in DedupeKey \cup {None} /\ t.side \in Sides /\ "buy" \in Sides
      /\ "simulated" \in {"simulated", "skipped", "blocked"}
  BY <1>1, <1>2 DEF PublicTrade, Sides
<1>4. o \in OrderId /\ o \notin DOMAIN work.orders /\ o \notin DOMAIN work.positions
  BY <1>2, FreshIdType DEF CopyBuy, Sound, Tables
<1>5. /\ Sound(d) /\ Detected(d, cur, t.key)
      /\ d.orders = work.orders /\ d.positions = work.positions
  BY <1>1, <1>2, <1>3, TradeSound DEF WithTrade, Book
<1>6. \A q \in DOMAIN work.positions :
        ~(work.positions[q].wallet = cur /\ work.positions[q].key = t.key)
  BY <1>1, <1>2 DEF Sound, CopiedFromItsTrade
<1> HIDE DEF o, d
<1>7. /\ Sound(e) /\ e.trades = d.trades /\ e.positions = d.positions
      /\ o \in DOMAIN e.orders
      /\ e.orders[o].wallet = cur /\ e.orders[o].key = t.key
      /\ e.orders[o].action = "buy" /\ e.orders[o].status = "simulated"
  BY <1>2, <1>3, <1>4, <1>5, OrderSound
<1> HIDE DEF e
<1>8. Detected(e, cur, t.key)
  BY <1>5, <1>7 DEF Detected
<1>9. Sound(WithOpened(e, o, cur, t, at))
  BY <1>2, <1>4, <1>5, <1>6, <1>7, <1>8, OpenedSound
<1>10. work' = WithOpened(e, o, cur, t, at) /\ locked' = locked \cup {cur}
  BY DEF CopyBuy, NewTrade, o, d, e
<1>11. QED BY <1>1, <1>9, <1>10, HandlingStep

LEMMA CopySellInv ==
  ASSUME Inv, NEW t, NEW p \in DOMAIN work.positions, CopySell(t, p)
  PROVE  Inv'
<1> DEFINE o == FreshId(work)
           d == WithTrade(work, cur, t)
           e == WithClosed(WithOrder(d, o, cur, t.key, "sell", "simulated"), p, o, t.price, at)
<1>1. Handling(t) /\ t.side = "sell" /\ ~Detected(work, cur, t.key)
  BY DEF CopySell, NewTrade
<1>2. t \in PublicTrade /\ cur \in Wallet /\ Sound(work) /\ at \in Nat
  BY <1>1, HandledTypes
<1>3. t.key \in DedupeKey /\ t.price \in Nat /\ t.side \in Sides
  BY <1>1, <1>2 DEF PublicTrade, Sides
<1>4. o \in OrderId /\ o \notin DOMAIN work.orders
  BY FreshIdType DEF CopySell
<1>5. Sound(d) /\ d.orders = work.orders /\ d.positions = work.positions
  BY <1>1, <1>2, <1>3, TradeSound DEF WithTrade, Book
<1>6. d.positions[p].wallet = cur
  BY <1>5 DEF CopySell, MatchingOpen
<1>7. Sound(e)
  <2> HIDE DEF o, d
  <2>1. QED BY <1>2, <1>3, <1>4, <1>5, <1>6, ClosedSound
<1>8. work' = e /\ locked' = locked \cup {cur}
  BY DEF CopySell, NewTrade
<1>9. QED BY <1>1, <1>7, <1>8, HandlingStep

LEMMA ScanInv == Inv /\ Scan => Inv'
<1> SUFFICES ASSUME Inv, Scan PROVE Inv'
  OBVIOUS
<1>1. Sound(work) /\ at \in Nat /\ batch \in Seq(PublicTrade) /\ locked \subseteq Wallet
  BY DEF Inv, TypeOK, BookInv
<1>2. <<>> \in Seq(PublicTrade) /\ {} \subseteq todo
  OBVIOUS
<1>3. cur # None => cur \in Wallet
  BY DEF Inv, TypeOK
<1>4. CASE HandleTrade
  BY <1>4, RefusalInv, CopyBuyInv, CopySellInv DEF HandleTrade
<1>5. CASE DeferRest
  BY <1>1, <1>2, <1>5, ScanStep DEF DeferRest
<1>6. CASE ScanBreaksOff
  BY <1>1, <1>2, <1>6, ScanStep DEF ScanBreaksOff
<1>7. CASE EndWallet
  BY <1>1, <1>3, <1>7, ScanStep DEF EndWallet
<1>9. CASE RequestBreaksOff
  BY <1>9, EndInv
<1>8. CASE EndScan
  <2>1. \/ phase' = "settle" /\ queue' \subseteq Live(work)
        \/ phase' = "commit" /\ queue' = queue
    BY <1>8 DEF EndScan, OldestBatches
  <2>2. /\ phase = "scan"
        /\ UNCHANGED <<env, wallets, db, work, run, at, seen, todo, cur, batch,
                       locked, gone, lastSettle>>
    BY <1>8 DEF EndScan
  <2>3. QED BY <1>1, <2>1, <2>2, ScanStep
<1>10. QED BY <1>4, <1>5, <1>6, <1>7, <1>8, <1>9, FetchInv DEF Scan

-------------------------------------------------------------------------------
(* Settling and reconciling. *)

\* One position leaves the queue; the others stay as they are.
LEMMA WorkingStep ==
  ASSUME Inv, NEW p, Working(p), phase \in {"settle", "reconcile"},
         Sound(work'), locked' \subseteq Wallet,
         DOMAIN work'.positions = DOMAIN work.positions,
         \A q \in DOMAIN work.positions : q # p => work'.positions[q] = work.positions[q]
  PROVE  Inv'
<1>1. run # "idle" /\ queue' \subseteq OrderId
  BY DEF Working, Inv, TypeOK, BookInv, AtRest
<1>2. TypeOK'
  BY <1>1 DEF Working, env, Inv, TypeOK, Sound
<1>3. QueueUnfinished'
  BY DEF Working, Inv, BookInv, QueueUnfinished, Live, Open
<1>4. QED BY <1>1, <1>2, <1>3 DEF Working, Inv, BookInv, AtRest

\* A queued position is live and has neither exit nor closing order.
LEMMA QueuedIsLive ==
  ASSUME Inv, NEW p \in queue, p \in DOMAIN work.positions, phase = "settle"
  PROVE  LET row == work.positions[p] IN
         /\ row \in PositionRow /\ row.status \in LiveStatus
         /\ row.exit = None /\ row.closing = None /\ row.closed = None
<1>1. Sound(work) /\ work.positions[p].status \in LiveStatus
  BY DEF Inv, BookInv, QueueUnfinished, Live
<1>2. /\ work.positions[p].status \notin FinalStatus
      /\ work.positions[p].status # "closed"
  BY <1>1 DEF LiveStatus, FinalStatus
<1>3. QED BY <1>1, <1>2 DEF Sound, Tables, ExitIffFinal, ClosedByOwnSale

LEMMA SettlePositionInv ==
  ASSUME Inv, NEW p \in queue, SettlePosition(p)
  PROVE  Inv'
<1> DEFINE row == work.positions[p]
           m == MarketOf(row)
<1>1. PICK looksClosed \in {m.closed, FALSE} :
        LET new == Settled(row, m.outcome, looksClosed) IN
        /\ work' = WithPosition(work, p, new)
        /\ locked' = IF new = row THEN locked ELSE locked \cup {row.wallet}
  BY DEF SettlePosition
<1> DEFINE new == Settled(row, m.outcome, looksClosed)
<1>2. phase = "settle" /\ p \in DOMAIN work.positions /\ Working(p)
  BY DEF SettlePosition
<1>3. /\ row \in PositionRow /\ row.status \in LiveStatus
      /\ row.exit = None /\ row.closing = None /\ row.closed = None
  BY <1>2, QueuedIsLive
<1>4. m.outcome \in Resolution \cup {None} /\ looksClosed \in BOOLEAN
  <2>1. m \in [outcome: Resolution \cup {None}, closed: BOOLEAN]
    BY DEF MarketOf, Inv, TypeOK
  <2>2. QED BY <2>1
<1>5. Sound(work) /\ at \in Nat /\ locked \subseteq Wallet
  BY DEF Inv, TypeOK, BookInv
<1>6. row.wallet \in Wallet
  BY <1>3 DEF PositionRow
<1> HIDE DEF row, m
<1>7. /\ new \in PositionRow
      /\ new.wallet = row.wallet /\ new.key = row.key /\ new.closing = None
      /\ new.status \in FinalStatus <=> new.exit # None
      /\ new.status \in FinalStatus <=> new.closed # None
  BY <1>3, <1>4, <1>5, SettledSound
<1> HIDE DEF new
<1>8. Sound(WithPosition(work, p, new))
  BY <1>2, <1>5, <1>7, PositionSound DEF row
<1>9. work' = WithPosition(work, p, new) /\ locked' \subseteq Wallet
  BY <1>1, <1>5, <1>6 DEF new
<1>10. /\ DOMAIN work'.positions = DOMAIN work.positions
       /\ \A q \in DOMAIN work.positions : q # p => work'.positions[q] = work.positions[q]
  BY <1>2, <1>9 DEF WithPosition, Book, Put
<1>11. QED BY <1>2, <1>8, <1>9, <1>10, WorkingStep

LEMMA SettleInv == Inv /\ Settle => Inv'
<1> SUFFICES ASSUME Inv, Settle PROVE Inv'
  OBVIOUS
<1>1. Sound(work) /\ at \in Nat /\ locked \subseteq Wallet
  BY DEF Inv, TypeOK, BookInv
<1>2. ASSUME NEW p \in queue, SettlePositionFails(p) \/ SettleVanished(p) PROVE Inv'
  BY <1>1, <1>2, WorkingStep DEF SettlePositionFails, SettleVanished
<1>3. ASSUME SettlementStops \/ EndSettlement PROVE Inv'
  <2>1. TypeOK'
    BY <1>1, <1>3 DEF SettlementStops, EndSettlement, env, Inv, TypeOK
  <2>2. BookInv'
    BY <1>3 DEF SettlementStops, EndSettlement, Inv, BookInv, QueueUnfinished, AtRest
  <2>3. QED BY <2>1, <2>2 DEF Inv
<1>4. QED BY <1>2, <1>3, SettlePositionInv DEF Settle

LEMMA ReconcilePositionInv ==
  ASSUME Inv, NEW p \in queue, NEW t \in work.trades, ReconcilePosition(p, t)
  PROVE  Inv'
<1> DEFINE o == FreshId(work)
           w == work.positions[p].wallet
           e == WithClosed(WithOrder(work, o, w, t.key, "sell", "simulated"), p, o, t.price, t.ts)
<1>1. /\ phase = "reconcile" /\ p \in DOMAIN work.positions /\ Working(p)
      /\ t \in LaterSales(work, work.positions[p])
  BY DEF ReconcilePosition
<1>2. t.wallet = w /\ t.ts # None
  BY <1>1 DEF LaterSales
<1>3. Sound(work) /\ locked \subseteq Wallet
  BY DEF Inv, TypeOK, BookInv
<1>4. t.key \in DedupeKey /\ t.price \in Nat /\ t.ts \in Nat /\ t.wallet \in Wallet
  BY <1>2, <1>3 DEF Sound, Tables, TradeRow
<1>5. o \in OrderId /\ o \notin DOMAIN work.orders
  BY FreshIdType DEF ReconcilePosition
<1> HIDE DEF o
<1>6. /\ Sound(e) /\ DOMAIN e.positions = DOMAIN work.positions
      /\ \A q \in DOMAIN work.positions : q # p => e.positions[q] = work.positions[q]
  BY <1>1, <1>3, <1>4, <1>5, ClosedSound
<1>7. work' = e /\ locked' = locked \cup {t.wallet}
  BY <1>2 DEF ReconcilePosition, o
<1>8. QED BY <1>1, <1>3, <1>4, <1>6, <1>7, WorkingStep

LEMMA ReconcileInv == Inv /\ Reconcile => Inv'
<1> SUFFICES ASSUME Inv, Reconcile PROVE Inv'
  OBVIOUS
<1>1. Sound(work) /\ locked \subseteq Wallet
  BY DEF Inv, TypeOK, BookInv
<1>2. ASSUME NEW p \in queue, LeavePosition(p) PROVE Inv'
  BY <1>1, <1>2, WorkingStep DEF LeavePosition
<1>3. ASSUME EndReconciliation PROVE Inv'
  <2>1. TypeOK'
    BY <1>3 DEF EndReconciliation, env, Inv, TypeOK
  <2>2. BookInv'
    BY <1>3 DEF EndReconciliation, Inv, BookInv, QueueUnfinished, AtRest
  <2>3. QED BY <2>1, <2>2 DEF Inv
<1>4. QED BY <1>2, <1>3, ReconcilePositionInv DEF Reconcile

-------------------------------------------------------------------------------
LEMMA StepInv == Inv /\ [Next]_vars => Inv'
<1> SUFFICES ASSUME Inv, [Next]_vars PROVE Inv'
  OBVIOUS
<1>1. CASE User
  BY <1>1, CreateWalletInv, DeleteWalletInv, BeginInv DEF User
<1>2. CASE UNCHANGED vars
  BY <1>2, OutsideStep DEF vars, env, Inv, TypeOK
<1>3. QED
  BY <1>1, <1>2, EnvironmentInv, BeginInv, ScanInv, SettleInv, ReconcileInv, EndInv DEF Next

\* The inductive invariant: types, and in the committed and in the uncommitted tables
\* alike every trade stored once, every position copying the trade and the order it
\* was created with, exits and closing orders where they belong.
THEOREM InvHolds == Spec => [](TypeOK /\ BookInv)
<1>1. Init => Inv
  BY InitInv
<1>2. Inv /\ [Next]_vars => Inv'
  BY StepInv
<1>3. Inv => TypeOK /\ BookInv
  BY DEF Inv
<1>4. QED BY <1>1, <1>2, <1>3, PTL DEF Spec

\* Every variable keeps its type, for any number of wallets, markets and orders.
THEOREM TypesHold == Spec => []TypeOK
<1>1. TypeOK /\ BookInv => TypeOK
  OBVIOUS
<1>2. QED BY <1>1, InvHolds, PTL

\* A position has an exit price and a closing time exactly when it is finished.
THEOREM ExitsExact == Spec => []ExitExactlyWhenFinal
<1>1. TypeOK /\ BookInv => ExitExactlyWhenFinal
  BY DEF BookInv, Sound, ExitExactlyWhenFinal
<1>2. QED BY <1>1, InvHolds, PTL

\* A closing order is a simulated sale of the position's wallet and closes nothing else.
THEOREM SalesExclusive == Spec => []SalesCloseOnePosition
<1>1. TypeOK /\ BookInv => SalesCloseOnePosition
  BY DEF BookInv, Sound, SalesCloseOnePosition
<1>2. QED BY <1>1, InvHolds, PTL

===============================================================================
