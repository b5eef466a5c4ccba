-------------------------- MODULE CopySessions_proofs --------------------------
(***************************************************************************)
(* Proofs about sessions that write one wallet's book at the same time,    *)
(* for any number of sessions, trades and positions.  What a session has   *)
(* not committed is apart from what the others have: keys, for an insert   *)
(* waits for the key, and rows, for an update waits for the row.  What it  *)
(* remembers of a row may be stale, but names the same trade.              *)
(***************************************************************************)
EXTENDS CopySessions, TLAPS

Books == UNION {[S -> Row] : S \in SUBSET Position}
Kinds == {"idle", "cycle", "scan", "settlement", "reconciliation"}
Places == {"begin", "next", "insert", "match", "order", "touch", "load", "decide", "write", "ready"}

\* What the proofs need of the types.
Typed ==
  /\ feed \in Seq(Trade) /\ trades \subseteq Trade /\ rows \in Books
  /\ kind \in [Session -> Kinds] /\ pc \in [Session -> Places]
  /\ \A s \in Session : kind[s] = "idle" <=> pc[s] = "begin"
  /\ batch \in [Session -> Seq(Trade)] /\ queue \in [Session -> SUBSET Position]
  /\ mem \in [Session -> Books] /\ dirty \in [Session -> Books]
  /\ target \in [Session -> Position \cup {None}] /\ goal \in [Session -> Row \cup {None}]
  /\ added \in [Session -> SUBSET Trade]

KeysApart ==
  /\ \A s \in Session : added[s] \cap trades = {}
  /\ \A s, r \in Session : s # r => added[s] \cap added[r] = {}
RowsApart == \A s, r \in Session : s # r => DOMAIN dirty[s] \cap DOMAIN dirty[r] = {}

\* A sale that a row names is stored, or will be along with the row.
SaleKnown(s, row) == row.closing # None => row.closing \in trades \cup added[s]

\* Positions that the session has opened, and the purchase it is about to write.
Gained(s) == DOMAIN dirty[s] \ DOMAIN rows
Ordering(s) == IF pc[s] = "order" THEN {Head(batch[s])} ELSE {}

WritesSound(s) ==
  /\ \A p \in DOMAIN dirty[s] :
       /\ p \in DOMAIN rows => dirty[s][p].trade = rows[p].trade
       /\ SaleKnown(s, dirty[s][p])
  /\ \A p, q \in Gained(s) : dirty[s][p].trade = dirty[s][q].trade => p = q
  /\ {dirty[s][p].trade : p \in Gained(s)} = (Buy \cap added[s]) \ Ordering(s)

MemorySound(s) ==
  \A p \in DOMAIN mem[s] :
    /\ p \in DOMAIN Seen(s) /\ mem[s][p].trade = Seen(s)[p].trade
    /\ SaleKnown(s, mem[s][p])

AimSound(s) ==
  /\ queue[s] \subseteq DOMAIN mem[s]
  /\ pc[s] \notin {"order", "write"} => target[s] = None
  /\ pc[s] = "write" => target[s] # None
  /\ target[s] # None => /\ target[s] \in DOMAIN mem[s] /\ goal[s] \in Row
                         /\ goal[s].trade = mem[s][target[s]].trade
                         /\ SaleKnown(s, goal[s])

TradeInHand(s) ==
  /\ pc[s] \in {"insert", "match", "order"} => batch[s] # <<>>
  /\ pc[s] = "insert" => Head(batch[s]) \notin added[s]
  /\ pc[s] \in {"match", "order"} => Head(batch[s]) \in added[s]
  /\ pc[s] = "match" => Head(batch[s]) \in Sell

Sound(s) == WritesSound(s) /\ MemorySound(s) /\ AimSound(s) /\ TradeInHand(s)

SessionsInv ==
  /\ Typed /\ OnePositionPerTrade /\ KeysApart /\ RowsApart
  /\ \A s \in Session : Sound(s)

-------------------------------------------------------------------------------
(* Books of positions.                                                     *)

LEMMA Book ==
  ASSUME NEW f \in Books
  PROVE  /\ DOMAIN f \subseteq Position /\ f = [p \in DOMAIN f |-> f[p]]
         /\ \A p \in DOMAIN f : f[p] \in Row
BY DEF Books

LEMMA BookOf ==
  ASSUME NEW S \in SUBSET Position, NEW f \in [S -> Row]
  PROVE  f \in Books
BY DEF Books

LEMMA OverIs ==
  ASSUME NEW f \in Books, NEW g \in Books
  PROVE  /\ Over(f, g) \in Books
         /\ DOMAIN Over(f, g) = DOMAIN f \cup DOMAIN g
         /\ \A p \in DOMAIN f \cup DOMAIN g :
              Over(f, g)[p] = IF p \in DOMAIN g THEN g[p] ELSE f[p]
<1>1. \A p \in DOMAIN f \cup DOMAIN g : (IF p \in DOMAIN g THEN g[p] ELSE f[p]) \in Row
  BY Book
<1>2. Over(f, g) \in [DOMAIN f \cup DOMAIN g -> Row]
  BY <1>1 DEF Over
<1>3. DOMAIN f \cup DOMAIN g \in SUBSET Position
  BY Book
<1>4. QED BY <1>2, <1>3, BookOf DEF Over

\* One row is put over a book.
One(p, row) == [q \in {p} |-> row]

LEMMA Put ==
  ASSUME NEW f \in Books, NEW p \in Position, NEW row \in Row
  PROVE  /\ Over(f, One(p, row)) \in Books
         /\ DOMAIN Over(f, One(p, row)) = DOMAIN f \cup {p}
         /\ \A x \in DOMAIN f \cup {p} : Over(f, One(p, row))[x] = IF x = p THEN row ELSE f[x]
<1>1. One(p, row) \in Books
  <2>1. One(p, row) \in [{p} -> Row] /\ {p} \in SUBSET Position
    BY DEF One
  <2>2. QED BY <2>1, BookOf
<1>2. DOMAIN One(p, row) = {p} /\ One(p, row)[p] = row
  BY DEF One
<1>3. /\ Over(f, One(p, row)) \in Books
      /\ DOMAIN Over(f, One(p, row)) = DOMAIN f \cup DOMAIN One(p, row)
      /\ \A x \in DOMAIN f \cup DOMAIN One(p, row) :
           Over(f, One(p, row))[x] = IF x \in DOMAIN One(p, row) THEN One(p, row)[x] ELSE f[x]
  BY <1>1, OverIs
<1>4. QED BY <1>2, <1>3

LEMMA NoRowsBook == NoRows \in Books /\ DOMAIN NoRows = {}
<1>1. NoRows \in [{} -> Row]
  BY DEF NoRows
<1>2. QED BY <1>1, BookOf

LEMMA SeenIs ==
  ASSUME Typed, NEW s \in Session
  PROVE  /\ Seen(s) \in Books
         /\ DOMAIN Seen(s) = DOMAIN rows \cup DOMAIN dirty[s]
         /\ \A p \in DOMAIN Seen(s) :
              Seen(s)[p] = IF p \in DOMAIN dirty[s] THEN dirty[s][p] ELSE rows[p]
<1>1. rows \in Books /\ dirty[s] \in Books
  BY DEF Typed
<1>2. /\ Over(rows, dirty[s]) \in Books
      /\ DOMAIN Over(rows, dirty[s]) = DOMAIN rows \cup DOMAIN dirty[s]
      /\ \A p \in DOMAIN rows \cup DOMAIN dirty[s] :
           Over(rows, dirty[s])[p] = IF p \in DOMAIN dirty[s] THEN dirty[s][p] ELSE rows[p]
  BY <1>1, OverIs
<1>3. QED BY <1>2 DEF Seen

\* What a query finds names a known sale.
LEMMA SeenKnown ==
  ASSUME SessionsInv, NEW s \in Session, NEW p \in DOMAIN Seen(s)
  PROVE  SaleKnown(s, Seen(s)[p])
<1>1. CASE p \in DOMAIN dirty[s]
  BY <1>1, SeenIs DEF SessionsInv, Sound, WritesSound
<1>2. CASE p \notin DOMAIN dirty[s]
  BY <1>2, SeenIs DEF SessionsInv, OnePositionPerTrade, SaleKnown
<1>3. QED BY <1>1, <1>2

-------------------------------------------------------------------------------
(* Steps of one session.                                                   *)

OthersRest(s) ==
  \A r \in Session \ {s} :
    /\ pc'[r] = pc[r] /\ batch'[r] = batch[r] /\ queue'[r] = queue[r] /\ mem'[r] = mem[r]
    /\ target'[r] = target[r] /\ goal'[r] = goal[r]
    /\ added'[r] = added[r] /\ dirty'[r] = dirty[r]

LEMMA OthersKeep ==
  ASSUME SessionsInv, NEW s \in Session, OthersRest(s), UNCHANGED tables,
         NEW r \in Session, r # s
  PROVE  Sound(r)'
<1>1. /\ pc'[r] = pc[r] /\ batch'[r] = batch[r] /\ queue'[r] = queue[r] /\ mem'[r] = mem[r]
      /\ target'[r] = target[r] /\ goal'[r] = goal[r]
      /\ added'[r] = added[r] /\ dirty'[r] = dirty[r]
      /\ rows' = rows /\ trades' = trades
  BY DEF OthersRest, tables
<1>2. Seen(r)' = Seen(r) /\ Gained(r)' = Gained(r) /\ Ordering(r)' = Ordering(r)
  BY <1>1 DEF Seen, Gained, Ordering
<1>3. \A row : SaleKnown(r, row)' <=> SaleKnown(r, row)
  BY <1>1 DEF SaleKnown
<1>4. Sound(r)
  BY DEF SessionsInv
<1>5. WritesSound(r)'
  BY <1>1, <1>2, <1>3, <1>4 DEF Sound, WritesSound
<1>6. MemorySound(r)'
  BY <1>1, <1>2, <1>3, <1>4 DEF Sound, MemorySound
<1>7. AimSound(r)' /\ TradeInHand(r)'
  BY <1>1, <1>3, <1>4 DEF Sound, AimSound, TradeInHand
<1>8. QED BY <1>5, <1>6, <1>7 DEF Sound

\* A step that leaves the committed tables alone.
LEMMA Moves ==
  ASSUME SessionsInv, NEW s \in Session, OthersRest(s), UNCHANGED tables,
         Typed', KeysApart', RowsApart', Sound(s)'
  PROVE  SessionsInv'
<1>1. OnePositionPerTrade'
  BY DEF SessionsInv, OnePositionPerTrade, tables
<1>2. QED BY <1>1, OthersKeep DEF SessionsInv

\* ... nor anything the session has written,
LEMMA ReadingMoves ==
  ASSUME SessionsInv, NEW s \in Session, OthersRest(s), UNCHANGED <<tables, added, dirty>>,
         (Buy \cap added[s]) \ Ordering(s)' = (Buy \cap added[s]) \ Ordering(s),
         Typed', MemorySound(s)', AimSound(s)', TradeInHand(s)'
  PROVE  SessionsInv'
<1>1. KeysApart' /\ RowsApart'
  BY DEF SessionsInv, KeysApart, RowsApart, tables
<1>2. Gained(s)' = Gained(s)
  BY DEF Gained, tables
<1>3. \A row : SaleKnown(s, row)' <=> SaleKnown(s, row)
  BY DEF SaleKnown, tables
<1>4. WritesSound(s)'
  BY <1>2, <1>3 DEF SessionsInv, Sound, WritesSound, tables
<1>5. QED BY <1>1, <1>4, Moves DEF Sound

\* ... and remembers the same rows.
LEMMA Remembers ==
  ASSUME SessionsInv, NEW s \in Session, UNCHANGED <<tables, added, dirty, mem>>
  PROVE  MemorySound(s)'
<1>1. Seen(s)' = Seen(s)
  BY DEF Seen, tables
<1>2. \A row : SaleKnown(s, row)' <=> SaleKnown(s, row)
  BY DEF SaleKnown, tables
<1>3. QED BY <1>1, <1>2 DEF SessionsInv, Sound, MemorySound

\* The session goes on to another statement with no row aimed at.
LEMMA Walks ==
  ASSUME SessionsInv, NEW s \in Session, NEW where \in Places, NEW todo \in Seq(Trade),
         NEW what \in Kinds, what # "idle", where # "begin", kind' = [kind EXCEPT ![s] = what],
         pc[s] \notin {"order", "write"}, where \notin {"match", "order", "write"},
         where = "insert" => todo # <<>> /\ Head(todo) \notin added[s],
         pc' = [pc EXCEPT ![s] = where], batch' = [batch EXCEPT ![s] = todo],
         UNCHANGED <<feed, tables, queue, mem, target, goal, added, dirty>>
  PROVE  SessionsInv'
<1>1. Typed' /\ OthersRest(s) /\ pc'[s] = where /\ batch'[s] = todo
  BY DEF SessionsInv, Typed, OthersRest, tables
<1>2. Ordering(s)' = Ordering(s)
  BY <1>1 DEF Ordering
<1>3. AimSound(s)'
  <2>1. \A row : SaleKnown(s, row)' <=> SaleKnown(s, row)
    BY DEF SaleKnown, tables
  <2>2. QED BY <1>1, <2>1 DEF SessionsInv, Sound, AimSound
<1>4. TradeInHand(s)'
  BY <1>1 DEF TradeInHand
<1>5. QED BY <1>1, <1>2, <1>3, <1>4, Remembers, ReadingMoves

LEMMA TradesInBatch ==
  ASSUME Typed, NEW s \in Session, batch[s] # <<>>
  PROVE  Head(batch[s]) \in Trade /\ Tail(batch[s]) \in Seq(Trade)
<1>1. batch[s] \in Seq(Trade)
  BY DEF Typed
<1>2. QED BY <1>1

LEMMA WalkSteps ==
  ASSUME SessionsInv, NEW s \in Session,
         Look(s) \/ EndBatch(s) \/ Touch(s) \/ EndQueue(s) \/ BeginScan(s) \/ BeginOther(s)
  PROVE  SessionsInv'
<1>1. /\ pc \in [Session -> Places] /\ batch \in [Session -> Seq(Trade)]
      /\ feed \in Seq(Trade) /\ batch[s] \in Seq(Trade)
  BY DEF SessionsInv, Typed
<1>2. /\ batch = [batch EXCEPT ![s] = batch[s]] /\ pc = [pc EXCEPT ![s] = pc[s]]
      /\ kind = [kind EXCEPT ![s] = kind[s]] /\ kind[s] \in Kinds
      /\ kind[s] = "idle" <=> pc[s] = "begin"
  BY <1>1 DEF SessionsInv, Typed
<1>3. CASE Look(s)
  <2>1. CASE Head(batch[s]) \in trades \cup added[s]
    <3>1. /\ batch' = [batch EXCEPT ![s] = Tail(batch[s])]
          /\ pc' = [pc EXCEPT ![s] = "next"] /\ pc[s] = "next"
      BY <1>2, <1>3, <2>1 DEF Look, Skip
    <3>2. Tail(batch[s]) \in Seq(Trade)
      BY <1>1, <1>3, TradesInBatch DEF Look, SessionsInv
    <3>3. QED BY <1>2, <1>3, <3>1, <3>2, Walks DEF Look, Places, world, writes
  <2>2. CASE Head(batch[s]) \notin trades \cup added[s]
    <3>1. /\ batch' = [batch EXCEPT ![s] = batch[s]]
          /\ pc' = [pc EXCEPT ![s] = "insert"] /\ pc[s] = "next"
      BY <1>2, <1>3, <2>2 DEF Look, Goto
    <3>2. QED BY <1>1, <1>2, <1>3, <2>2, <3>1, Walks DEF Look, Places, world, writes
  <2>3. QED BY <2>1, <2>2
<1>4. CASE EndBatch(s) \/ EndQueue(s)
  <2>1. PICK where \in {"touch", "ready"} :
          pc' = [pc EXCEPT ![s] = where] /\ pc[s] \notin {"begin", "order", "write"}
    BY <1>4 DEF EndBatch, EndQueue, Goto
  <2>2. /\ batch' = [batch EXCEPT ![s] = batch[s]]
        /\ kind' = [kind EXCEPT ![s] = kind[s]] /\ kind[s] # "idle"
        /\ UNCHANGED <<feed, tables, queue, mem, target, goal, added, dirty>>
    BY <1>2, <1>4, <2>1 DEF EndBatch, EndQueue, world, writes
  <2>3. QED BY <1>1, <1>2, <2>1, <2>2, Walks DEF Places
<1>5. CASE Touch(s)
  <2>1. PICK where \in {"ready", "load"} : pc' = [pc EXCEPT ![s] = where]
    BY <1>5 DEF Touch, Goto
  <2>2. /\ batch' = [batch EXCEPT ![s] = batch[s]] /\ pc[s] = "touch"
        /\ kind' = [kind EXCEPT ![s] = kind[s]] /\ kind[s] # "idle"
        /\ UNCHANGED <<feed, tables, queue, mem, target, goal, added, dirty>>
    BY <1>2, <1>5 DEF Touch, world
  <2>3. QED BY <1>1, <1>2, <2>1, <2>2, Walks DEF Places
<1>6. CASE BeginScan(s) \/ BeginOther(s)
  <2>1. PICK where \in {"next", "touch", "load"}, what \in Kinds \ {"idle"}, todo \in {feed, batch[s]} :
          /\ pc' = [pc EXCEPT ![s] = where] /\ kind' = [kind EXCEPT ![s] = what]
          /\ batch' = [batch EXCEPT ![s] = todo]
    <3>1. CASE BeginScan(s)
      BY <1>2, <3>1 DEF BeginScan, Begin, Goto, Kinds
    <3>2. CASE BeginOther(s)
      BY <1>2, <3>2 DEF BeginOther, Begin, Goto, Kinds
    <3>3. QED BY <1>6, <3>1, <3>2
  <2>2. UNCHANGED <<feed, tables, queue, mem, target, goal, added, dirty>> /\ kind[s] = "idle"
    BY <1>6 DEF BeginScan, BeginOther, Begin, world, writes
  <2>3. QED BY <1>1, <1>2, <2>1, <2>2, Walks DEF Places
<1>7. QED BY <1>3, <1>4, <1>5, <1>6

\* A trade is inserted: no other session has it, and it is not stored.
LEMMA InsertStep ==
  ASSUME SessionsInv, NEW s \in Session, Insert(s)
  PROVE  SessionsInv'
<1> DEFINE t == Head(batch[s])
           where == IF t \in Sell THEN "match" ELSE "order"
<1>1. /\ pc[s] = "insert" /\ t \notin trades /\ t \notin added[s]
      /\ batch[s] # <<>> /\ t \in Trade
      /\ \A r \in Session \ {s} : t \notin added[r]
  BY TradesInBatch DEF Insert, InsertWaits, SessionsInv, Sound, TradeInHand
<1>2. /\ added' = [added EXCEPT ![s] = @ \cup {t}] /\ pc' = [pc EXCEPT ![s] = where]
      /\ UNCHANGED <<feed, tables, kind, batch, queue, mem, target, goal, dirty>>
  BY DEF Insert, Goto, world
<1>3. pc'[s] = where /\ added'[s] = added[s] \cup {t} /\ batch'[s] = batch[s]
  BY <1>2 DEF SessionsInv, Typed
<1>4. Typed' /\ OthersRest(s)
  BY <1>1, <1>2 DEF SessionsInv, Typed, OthersRest, Places, tables
<1>5. KeysApart' /\ RowsApart'
  BY <1>1, <1>2, <1>4 DEF SessionsInv, Typed, KeysApart, RowsApart, tables
<1>6. \A row : SaleKnown(s, row) => SaleKnown(s, row)'
  BY <1>2, <1>3 DEF SaleKnown, tables
<1>7. WritesSound(s)'
  <2>1. Gained(s)' = Gained(s) /\ Ordering(s) = {}
    BY <1>1, <1>2 DEF Gained, Ordering, tables
  <2>2. (Buy \cap added'[s]) \ Ordering(s)' = Buy \cap added[s]
    BY <1>1, <1>3, ConstantsOK DEF Ordering, Trade
  <2>3. QED BY <1>2, <1>6, <2>1, <2>2 DEF SessionsInv, Sound, WritesSound, tables
<1>8. MemorySound(s)'
  <2>1. Seen(s)' = Seen(s)
    BY <1>2 DEF Seen, tables
  <2>2. QED BY <1>2, <1>6, <2>1 DEF SessionsInv, Sound, MemorySound
<1>9. AimSound(s)' /\ TradeInHand(s)'
  BY <1>1, <1>2, <1>3, <1>6 DEF SessionsInv, Sound, AimSound, TradeInHand
<1>10. QED BY <1>2, <1>4, <1>5, <1>7, <1>8, <1>9, Moves DEF Sound

\* What a session aims at is a row of its memory, and its sale is known.
LEMMA Aims ==
  ASSUME SessionsInv, NEW s \in Session, NEW p \in Position, NEW row \in Row, NEW new \in Row,
         NEW where \in {"order", "write"}, Aim(s, p, row, new), Goto(s, where),
         UNCHANGED <<feed, tables, kind, batch, queue, added, dirty>>,
         p \in DOMAIN Seen(s), row.trade = Seen(s)[p].trade, new.trade = row.trade,
         SaleKnown(s, row), SaleKnown(s, new),
         where = "order" => pc[s] = "match", where = "write" => pc[s] = "decide"
  PROVE  SessionsInv'
<1> DEFINE m == Over(mem[s], One(p, row))
<1>1. mem[s] \in Books /\ p \in Position /\ row \in Row
  BY DEF SessionsInv, Typed
<1>2. /\ m \in Books /\ DOMAIN m = DOMAIN mem[s] \cup {p}
      /\ \A x \in DOMAIN mem[s] \cup {p} : m[x] = IF x = p THEN row ELSE mem[s][x]
  <2> DEFINE f == mem[s]
  <2>1. f \in Books /\ p \in Position /\ row \in Row
    BY <1>1
  <2> HIDE DEF f
  <2>2. /\ Over(f, One(p, row)) \in Books
        /\ DOMAIN Over(f, One(p, row)) = DOMAIN f \cup {p}
        /\ \A x \in DOMAIN f \cup {p} : Over(f, One(p, row))[x] = IF x = p THEN row ELSE f[x]
    BY ONLY <2>1, Put
  <2>3. QED BY <2>2 DEF f
<1>3. /\ mem' = [mem EXCEPT ![s] = m] /\ target' = [target EXCEPT ![s] = p]
      /\ goal' = [goal EXCEPT ![s] = new] /\ pc' = [pc EXCEPT ![s] = where]
  BY DEF Aim, Goto, One
<1> HIDE DEF m
<1>4. /\ mem'[s] = m /\ target'[s] = p /\ goal'[s] = new /\ pc'[s] = where
      /\ batch' = batch /\ queue' = queue
  BY <1>3 DEF SessionsInv, Typed
<1>5. Typed' /\ OthersRest(s)
  BY <1>2, <1>3 DEF SessionsInv, Typed, OthersRest, Places, tables
<1>6. (\A r : SaleKnown(s, r)' <=> SaleKnown(s, r)) /\ Seen(s)' = Seen(s)
  BY DEF SaleKnown, Seen, tables
<1>7. MemorySound(s)'
  BY <1>2, <1>4, <1>6 DEF SessionsInv, Sound, MemorySound
<1>8. p # None
  BY ConstantsOK
<1>9. AimSound(s)'
  BY <1>2, <1>4, <1>6, <1>8 DEF SessionsInv, Sound, AimSound
<1>10. TradeInHand(s)'
  BY <1>4 DEF SessionsInv, Sound, TradeInHand
<1>11. (Buy \cap added[s]) \ Ordering(s)' = (Buy \cap added[s]) \ Ordering(s)
  BY <1>4, ConstantsOK DEF SessionsInv, Sound, TradeInHand, Ordering
<1>12. QED BY <1>5, <1>7, <1>9, <1>10, <1>11, ReadingMoves

\* A position is no longer aimed at; the row and its trade stay as they are.
LEMMA Drops ==
  ASSUME SessionsInv, NEW s \in Session, NEW p, Drop(s, p), Goto(s, "decide"),
         pc[s] \in {"decide", "write"},
         UNCHANGED <<feed, tables, kind, batch, mem, added, dirty>>
  PROVE  SessionsInv'
<1>1. /\ queue' = [queue EXCEPT ![s] = @ \ {p}] /\ target' = [target EXCEPT ![s] = None]
      /\ goal' = [goal EXCEPT ![s] = None] /\ pc' = [pc EXCEPT ![s] = "decide"]
  BY DEF Drop, Goto
<1>2. Typed' /\ OthersRest(s)
  BY <1>1 DEF SessionsInv, Typed, OthersRest, Places, tables
<1>3. queue'[s] = queue[s] \ {p} /\ target'[s] = None /\ pc'[s] = "decide"
  BY <1>1 DEF SessionsInv, Typed
<1>4. AimSound(s)' /\ TradeInHand(s)' /\ Ordering(s)' = Ordering(s)
  BY <1>3 DEF SessionsInv, Sound, AimSound, TradeInHand, Ordering
<1>5. QED BY <1>2, <1>4, Remembers, ReadingMoves

LEMMA MatchStep ==
  ASSUME SessionsInv, NEW s \in Session, Match(s)
  PROVE  SessionsInv'
<1>1. /\ pc[s] = "match" /\ Head(batch[s]) \in added[s] /\ Head(batch[s]) \in Sell
      /\ target[s] = None
  BY DEF Match, SessionsInv, Sound, TradeInHand, AimSound
<1>2. UNCHANGED <<feed, tables, kind, batch, queue, added, dirty>> /\ Goto(s, "order")
  BY DEF Match, world, writes
<1>3. CASE Open(s) = {}
  <2>1. pc' = [pc EXCEPT ![s] = "order"] /\ UNCHANGED <<mem, target, goal>>
    BY <1>2, <1>3 DEF Match, Goto
  <2>2. Typed' /\ OthersRest(s) /\ pc'[s] = "order"
    BY <1>1, <1>2, <2>1 DEF SessionsInv, Typed, OthersRest, Places, tables
  <2>3. AimSound(s)' /\ TradeInHand(s)'
    BY <1>1, <1>2, <2>1, <2>2 DEF SessionsInv, Sound, AimSound, TradeInHand
  <2>4. (Buy \cap added[s]) \ Ordering(s)' = (Buy \cap added[s]) \ Ordering(s)
    BY <1>1, <1>2, <2>2, ConstantsOK DEF Ordering
  <2>5. QED BY <1>2, <2>1, <2>2, <2>3, <2>4, Remembers, ReadingMoves
<1>4. CASE Open(s) # {}
  <2>1. PICK p \in Open(s) : Aim(s, p, Seen(s)[p], Sold(Seen(s)[p], Head(batch[s])))
    BY <1>4 DEF Match
  <2>2. p \in DOMAIN Seen(s) /\ Seen(s)[p] \in Row /\ p \in Position
    BY SeenIs, Book DEF Open, SessionsInv
  <2>3. /\ Sold(Seen(s)[p], Head(batch[s])) \in Row
        /\ Sold(Seen(s)[p], Head(batch[s])).trade = Seen(s)[p].trade
        /\ Sold(Seen(s)[p], Head(batch[s])).closing = Head(batch[s])
    BY <1>1, <2>2 DEF Sold, Row
  <2>4. SaleKnown(s, Seen(s)[p]) /\ SaleKnown(s, Sold(Seen(s)[p], Head(batch[s])))
    BY <1>1, <2>2, <2>3, SeenKnown DEF SaleKnown
  <2>5. QED BY <1>1, <1>2, <2>1, <2>2, <2>3, <2>4, Aims
<1>5. QED BY <1>3, <1>4

LEMMA DecideStep ==
  ASSUME SessionsInv, NEW s \in Session, Decide(s)
  PROVE  SessionsInv'
<1>1. PICK p \in Oldest(s) :
        \E new \in IF kind[s] = "reconciliation"
                  THEN {Sold(mem[s][p], t) : t \in LaterSales(s, mem[s][p])}
                  ELSE Settled(mem[s][p]) :
          Aim(s, p, mem[s][p], new)
  BY DEF Decide
<1>2. PICK new \in IF kind[s] = "reconciliation"
                  THEN {Sold(mem[s][p], t) : t \in LaterSales(s, mem[s][p])}
                  ELSE Settled(mem[s][p]) :
          Aim(s, p, mem[s][p], new)
  BY <1>1
<1>3. /\ pc[s] = "decide" /\ Goto(s, "write")
      /\ UNCHANGED <<feed, tables, kind, batch, queue, added, dirty>>
  BY DEF Decide, world, writes
<1>4. p \in DOMAIN mem[s] /\ p \in Position /\ mem[s][p] \in Row
  <2>1. p \in DOMAIN mem[s] /\ mem[s] \in Books
    BY DEF Oldest, SessionsInv, Typed, Sound, AimSound
  <2>2. QED BY <2>1, Book
<1>5. /\ p \in DOMAIN Seen(s) /\ mem[s][p].trade = Seen(s)[p].trade /\ SaleKnown(s, mem[s][p])
  BY <1>4 DEF SessionsInv, Sound, MemorySound
<1>6. new \in Row /\ new.trade = mem[s][p].trade /\ SaleKnown(s, new)
  <2>1. CASE kind[s] = "reconciliation"
    <3>1. PICK t \in LaterSales(s, mem[s][p]) : new = Sold(mem[s][p], t)
      BY <1>2, <2>1
    <3>2. t \in Sell /\ t \in trades \cup added[s]
      BY DEF LaterSales
    <3>3. QED BY <1>4, <3>1, <3>2 DEF Sold, Row, SaleKnown
  <2>2. CASE kind[s] # "reconciliation"
    <3>1. new \in Settled(mem[s][p])
      BY <1>2, <2>2
    <3>2. PICK status \in LiveStatus \cup {"closed"}, exit \in {mem[s][p].exit, "payout"},
               closed \in BOOLEAN :
            new = [mem[s][p] EXCEPT !.status = status, !.exit = exit, !.closed = closed]
      <4> DEFINE row == mem[s][p]
      <4>1. \/ new = [row EXCEPT !.status = "closed", !.exit = "payout", !.closed = TRUE]
            \/ new = [row EXCEPT !.status = "open", !.closed = FALSE]
            \/ new = [row EXCEPT !.status = "waiting_resolution", !.closed = FALSE]
        BY <3>1 DEF Settled
      <4>2. row = [row EXCEPT !.exit = row.exit] /\ row.exit \in {row.exit, "payout"}
        BY <1>4 DEF Row
      <4>3. \A x, y : [row EXCEPT !.status = x, !.closed = y]
                      = [row EXCEPT !.status = x, !.exit = row.exit, !.closed = y]
        BY <1>4 DEF Row
      <4>4. CASE new = [row EXCEPT !.status = "closed", !.exit = "payout", !.closed = TRUE]
        BY <4>4 DEF LiveStatus
      <4>5. CASE new = [row EXCEPT !.status = "open", !.closed = FALSE]
        <5>1. new = [row EXCEPT !.status = "open", !.exit = row.exit, !.closed = FALSE]
          BY <4>3, <4>5
        <5>2. QED BY <4>2, <5>1 DEF LiveStatus
      <4>6. CASE new = [row EXCEPT !.status = "waiting_resolution", !.closed = FALSE]
        <5>1. new = [row EXCEPT !.status = "waiting_resolution", !.exit = row.exit, !.closed = FALSE]
          BY <4>3, <4>6
        <5>2. QED BY <4>2, <5>1 DEF LiveStatus
      <4>7. QED BY <4>1, <4>4, <4>5, <4>6
    <3>3. QED BY <1>4, <1>5, <3>2 DEF Row, SaleKnown
  <2>3. QED BY <2>1, <2>2
<1>7. QED BY <1>2, <1>3, <1>4, <1>5, <1>6, Aims

LEMMA LeaveStep ==
  ASSUME SessionsInv, NEW s \in Session, LeavePosition(s)
  PROVE  SessionsInv'
<1>1. PICK p : Drop(s, p)
  BY DEF LeavePosition
<1>2. pc[s] = "decide" /\ Goto(s, "decide")
      /\ UNCHANGED <<feed, tables, kind, batch, mem, added, dirty>>
  BY DEF LeavePosition, Goto, SessionsInv, Typed, world, writes
<1>3. QED BY <1>1, <1>2, Drops

\* The session loads the rows that it finds.
LEMMA LoadStep ==
  ASSUME SessionsInv, NEW s \in Session, Load(s)
  PROVE  SessionsInv'
<1>1. PICK S \in SUBSET DOMAIN Seen(s) :
        queue' = [queue EXCEPT ![s] = S] /\ mem' = [mem EXCEPT ![s] = [p \in S |-> Seen(s)[p]]]
  BY DEF Load, Open, Live
<1> DEFINE m == [p \in S |-> Seen(s)[p]]
<1>2. /\ pc[s] = "load" /\ pc' = [pc EXCEPT ![s] = "decide"]
      /\ UNCHANGED <<feed, tables, kind, batch, target, goal, added, dirty>>
  BY DEF Load, Goto, world, writes
<1>3. S \in SUBSET Position /\ m \in Books /\ DOMAIN m = S /\ \A p \in S : m[p] = Seen(s)[p]
  <2>1. Seen(s) \in Books
    BY SeenIs DEF SessionsInv
  <2>2. S \in SUBSET Position /\ \A p \in S : Seen(s)[p] \in Row
    BY <2>1, Book
  <2>3. m \in [S -> Row]
    BY <2>2
  <2>4. QED BY <2>2, <2>3, BookOf
<1>4. mem' = [mem EXCEPT ![s] = m]
  BY <1>1
<1> HIDE DEF m
<1>5. Typed' /\ OthersRest(s)
  BY <1>1, <1>2, <1>3, <1>4 DEF SessionsInv, Typed, OthersRest, Places, tables
<1>6. pc'[s] = "decide" /\ mem'[s] = m /\ queue'[s] = S /\ target'[s] = None
  BY <1>1, <1>2, <1>4 DEF SessionsInv, Typed, Sound, AimSound
<1>7. Seen(s)' = Seen(s) /\ \A r : SaleKnown(s, r)' <=> SaleKnown(s, r)
  BY <1>2 DEF Seen, SaleKnown, tables
<1>8. MemorySound(s)'
  BY <1>3, <1>6, <1>7, SeenKnown DEF MemorySound
<1>9. AimSound(s)' /\ TradeInHand(s)' /\ Ordering(s)' = Ordering(s)
  BY <1>2, <1>3, <1>6 DEF AimSound, TradeInHand, Ordering
<1>10. QED BY <1>2, <1>5, <1>8, <1>9, ReadingMoves

\* A session writes a row that no other has written.
LEMMA Writing ==
  ASSUME SessionsInv, NEW s \in Session, NEW p \in Position, NEW row \in Row,
         dirty' = [dirty EXCEPT ![s] = Over(dirty[s], One(p, row))],
         \A r \in Session \ {s} : p \notin DOMAIN dirty[r],
         p \in DOMAIN Seen(s) => row.trade = Seen(s)[p].trade,
         SaleKnown(s, row), UNCHANGED <<tables, added, mem>>
  PROVE  /\ dirty' \in [Session -> Books] /\ DOMAIN dirty'[s] = DOMAIN dirty[s] \cup {p}
         /\ \A q \in DOMAIN dirty'[s] : dirty'[s][q] = IF q = p THEN row ELSE dirty[s][q]
         /\ \A r \in Session \ {s} : dirty'[r] = dirty[r]
         /\ KeysApart' /\ RowsApart' /\ MemorySound(s)'
         /\ \A q \in DOMAIN dirty'[s] :
              /\ q \in DOMAIN rows' => dirty'[s][q].trade = rows'[q].trade
              /\ SaleKnown(s, dirty[s][q])'
<1>1. dirty[s] \in Books /\ dirty \in [Session -> Books]
  BY DEF SessionsInv, Typed
<1> DEFINE d == Over(dirty[s], One(p, row))
<1>2. /\ d \in Books /\ DOMAIN d = DOMAIN dirty[s] \cup {p}
      /\ \A q \in DOMAIN dirty[s] \cup {p} : d[q] = IF q = p THEN row ELSE dirty[s][q]
  BY <1>1, Put
<1> HIDE DEF d
<1>3. /\ dirty' = [dirty EXCEPT ![s] = d] /\ dirty'[s] = d
      /\ \A r \in Session \ {s} : dirty'[r] = dirty[r]
      /\ rows' = rows /\ trades' = trades
  BY <1>1 DEF d, tables
<1>4. KeysApart' /\ RowsApart'
  BY <1>2, <1>3 DEF SessionsInv, KeysApart, RowsApart
<1>5. \A r : SaleKnown(s, r)' <=> SaleKnown(s, r)
  BY <1>3 DEF SaleKnown
<1>6. /\ DOMAIN Seen(s) = DOMAIN rows \cup DOMAIN dirty[s]
      /\ \A q \in DOMAIN Seen(s) :
           Seen(s)[q] = IF q \in DOMAIN dirty[s] THEN dirty[s][q] ELSE rows[q]
  BY SeenIs DEF SessionsInv
<1>7. /\ DOMAIN Seen(s)' = DOMAIN rows \cup DOMAIN d
      /\ \A q \in DOMAIN rows \cup DOMAIN d : Seen(s)'[q] = IF q \in DOMAIN d THEN d[q] ELSE rows[q]
  <2>1. Seen(s)' = Over(rows, d) /\ rows \in Books
    BY <1>3 DEF Seen, SessionsInv, Typed
  <2>2. /\ DOMAIN Over(rows, d) = DOMAIN rows \cup DOMAIN d
        /\ \A q \in DOMAIN rows \cup DOMAIN d :
             Over(rows, d)[q] = IF q \in DOMAIN d THEN d[q] ELSE rows[q]
    BY <1>2, <2>1, OverIs
  <2>3. QED BY <2>1, <2>2
<1>8. \A q \in DOMAIN Seen(s) : q \in DOMAIN Seen(s)' /\ Seen(s)'[q].trade = Seen(s)[q].trade
  BY <1>2, <1>6, <1>7
<1>9. MemorySound(s)'
  BY <1>5, <1>8 DEF SessionsInv, Sound, MemorySound
<1>10. \A q \in DOMAIN d : q \in DOMAIN rows => d[q].trade = rows[q].trade
  BY <1>2, <1>6 DEF SessionsInv, Sound, WritesSound
<1>11. \A q \in DOMAIN dirty'[s] : SaleKnown(s, dirty[s][q])'
  <2>1. \A q \in DOMAIN d : SaleKnown(s, d[q])
    BY <1>2 DEF SessionsInv, Sound, WritesSound
  <2>2. QED BY <1>3, <2>1 DEF SaleKnown
<1>12. QED BY <1>1, <1>2, <1>3, <1>4, <1>9, <1>10, <1>11

LEMMA OrderStep ==
  ASSUME SessionsInv, NEW s \in Session, Order(s)
  PROVE  SessionsInv'
<1> DEFINE t == Head(batch[s])
<1>1. /\ pc[s] = "order" /\ t \in added[s] /\ t \in Trade /\ batch[s] # <<>>
      /\ Tail(batch[s]) \in Seq(Trade)
  BY TradesInBatch DEF Order, SessionsInv, Sound, TradeInHand
<1>2. UNCHANGED <<feed, tables, kind, queue, mem, target, goal, added>>
  BY DEF Order, world
<1>3. /\ OthersRest(s)
      /\ pc' \in [Session -> Places] /\ batch' \in [Session -> Seq(Trade)]
      /\ \A r \in Session : pc'[r] = "begin" <=> pc[r] = "begin"
      /\ pc'[s] \in {"next", "write"} /\ (pc'[s] = "write" <=> target[s] # None)
  <2>1. PICK where \in {"next", "write"} :
          pc' = [pc EXCEPT ![s] = where] /\ (where = "write" <=> target[s] # None)
    BY DEF Order, Goto
  <2>2. batch' = batch \/ batch' = [batch EXCEPT ![s] = Tail(batch[s])]
    BY DEF Order, Skip
  <2>3. \A r \in Session \ {s} : dirty'[r] = dirty[r]
    BY DEF Order, SessionsInv, Typed
  <2>4. pc' \in [Session -> Places] /\ batch' \in [Session -> Seq(Trade)]
    BY <1>1, <2>1, <2>2 DEF SessionsInv, Typed, Places
  <2>5. \A r \in Session \ {s} : pc'[r] = pc[r] /\ batch'[r] = batch[r]
    BY <2>1, <2>2 DEF SessionsInv, Typed
  <2>6. pc'[s] = where
    BY <2>1 DEF SessionsInv, Typed
  <2>7. QED BY <1>1, <1>2, <2>1, <2>3, <2>4, <2>5, <2>6 DEF OthersRest
<1>4. AimSound(s)' /\ TradeInHand(s)' /\ Ordering(s)' = {}
  <2>1. \A row : SaleKnown(s, row)' <=> SaleKnown(s, row)
    BY <1>2 DEF SaleKnown, tables
  <2>2. QED BY <1>2, <1>3, <2>1 DEF SessionsInv, Sound, AimSound, TradeInHand, Ordering
<1>5. dirty' \in [Session -> Books] => Typed'
  BY <1>2, <1>3 DEF SessionsInv, Typed, tables
<1>6. CASE t \in Sell
  <2>1. dirty' = dirty
    BY <1>6, ConstantsOK DEF Order
  <2>2. (Buy \cap added[s]) \ Ordering(s)' = (Buy \cap added[s]) \ Ordering(s)
    BY <1>1, <1>4, <1>6, ConstantsOK DEF Ordering
  <2>3. Typed'
    BY <1>5, <2>1 DEF SessionsInv, Typed
  <2>4. QED BY <1>2, <1>3, <1>4, <2>1, <2>2, <2>3, Remembers, ReadingMoves
<1>7. CASE t \in Buy
  <2> DEFINE row == Opened(t)
  <2>1. PICK p \in Fresh : dirty' = [dirty EXCEPT ![s] = Over(dirty[s], One(p, row))]
    BY <1>7 DEF Order, One, SessionsInv, Typed
  <2>2. row \in Row /\ row.trade = t /\ SaleKnown(s, row)
    BY <1>7 DEF Opened, Row, LiveStatus, SaleKnown
  <2>3. /\ p \in Position /\ p \notin DOMAIN rows /\ p \notin DOMAIN Seen(s)
        /\ \A r \in Session : p \notin DOMAIN dirty[r]
    BY SeenIs DEF Fresh, SessionsInv
  <2> HIDE DEF row
  <2>4. /\ dirty' \in [Session -> Books] /\ DOMAIN dirty'[s] = DOMAIN dirty[s] \cup {p}
        /\ \A q \in DOMAIN dirty'[s] : dirty'[s][q] = IF q = p THEN row ELSE dirty[s][q]
        /\ KeysApart' /\ RowsApart' /\ MemorySound(s)'
        /\ \A q \in DOMAIN dirty'[s] :
             /\ q \in DOMAIN rows' => dirty'[s][q].trade = rows'[q].trade
             /\ SaleKnown(s, dirty[s][q])'
    <3>1. UNCHANGED <<tables, added, mem>>
      BY <1>2
    <3>2. \A r \in Session \ {s} : p \notin DOMAIN dirty[r]
      BY <2>3
    <3>3. p \in DOMAIN Seen(s) => row.trade = Seen(s)[p].trade
      BY <2>3
    <3>4. p \in Position /\ row \in Row /\ SaleKnown(s, row)
      BY <2>2, <2>3
    <3>5. QED BY <2>1, <3>1, <3>2, <3>3, <3>4, Writing
  <2>5. Gained(s)' = Gained(s) \cup {p} /\ p \notin Gained(s)
    BY <1>2, <2>3, <2>4 DEF Gained, tables
  <2>6. {dirty[s][q].trade : q \in Gained(s)} = (Buy \cap added[s]) \ {t}
    BY <1>1 DEF SessionsInv, Sound, WritesSound, Ordering
  <2>7. \A q \in Gained(s) : dirty'[s][q] = dirty[s][q] /\ dirty[s][q].trade # t
    BY <2>3, <2>4, <2>6 DEF Gained
  <2>8. dirty'[s][p].trade = t
    BY <2>2, <2>4
  <2>9. \A x, y \in Gained(s)' : dirty'[s][x].trade = dirty'[s][y].trade => x = y
    BY <2>5, <2>7, <2>8 DEF SessionsInv, Sound, WritesSound
  <2>10. {dirty'[s][q].trade : q \in Gained(s)'} = (Buy \cap added'[s]) \ Ordering(s)'
    BY <1>1, <1>2, <1>4, <1>7, <2>5, <2>6, <2>7, <2>8
  <2>11. WritesSound(s)'
    BY <2>4, <2>9, <2>10 DEF WritesSound
  <2>12. QED BY <1>2, <1>3, <1>4, <1>5, <2>4, <2>11, Moves DEF Sound
<1>8. QED BY <1>1, <1>6, <1>7 DEF Trade

\* The columns that differ, over the row as it is now.
LEMMA UpdatedIs ==
  ASSUME NEW s \in Session, NEW now \in Row, goal[s] \in Row, mem[s][target[s]] \in Row,
         goal[s].trade = mem[s][target[s]].trade
  PROVE  /\ Updated(s, now) \in Row /\ Updated(s, now).trade = now.trade
         /\ Updated(s, now).closing \in {goal[s].closing, now.closing}
<1> DEFINE g == goal[s]
           m == mem[s][target[s]]
           u == Updated(s, now)
<1>1. u = [c \in {"trade", "status", "exit", "closing", "closed"} |->
             IF g[c] # m[c] THEN g[c] ELSE now[c]]
  BY DEF Updated, Row
<1>2. u = [trade |-> u.trade, status |-> u.status, exit |-> u.exit, closing |-> u.closing,
           closed |-> u.closed]
  BY <1>1
<1>3. u.trade = now.trade /\ u.closing \in {g.closing, now.closing}
      /\ u.status \in {g.status, now.status} /\ u.exit \in {g.exit, now.exit}
      /\ u.closed \in {g.closed, now.closed}
  BY <1>1
<1>4. QED BY <1>2, <1>3 DEF Row

\* The session lets go of the position it has handled.
LEMMA LetsGo ==
  ASSUME SessionsInv, NEW s \in Session, pc[s] = "write", Typed',
         queue'[s] \subseteq queue[s], target'[s] = None, pc'[s] \in {"next", "decide"},
         UNCHANGED <<mem, added, tables>>
  PROVE  AimSound(s)' /\ TradeInHand(s)' /\ Ordering(s) = {} /\ Ordering(s)' = {}
<1>1. \A row : SaleKnown(s, row)' <=> SaleKnown(s, row)
  BY DEF SaleKnown, tables
<1>2. QED BY <1>1 DEF SessionsInv, Sound, AimSound, TradeInHand, Ordering

LEMMA WriteStep ==
  ASSUME SessionsInv, NEW s \in Session, Write(s)
  PROVE  SessionsInv'
<1> DEFINE p == target[s]
<1>1. /\ pc[s] = "write" /\ p \in DOMAIN mem[s] /\ p # None /\ goal[s] \in Row
      /\ goal[s].trade = mem[s][p].trade /\ SaleKnown(s, goal[s])
  BY DEF Write, SessionsInv, Sound, AimSound
<1>2. UNCHANGED <<feed, tables, kind, mem, added>>
  BY DEF Write, world
<1>3. mem[s] \in Books /\ p \in Position /\ mem[s][p] \in Row
  <2>1. mem[s] \in Books
    BY DEF SessionsInv, Typed
  <2>2. QED BY <1>1, <2>1, Book
<1>4. /\ OthersRest(s) /\ target'[s] = None /\ queue'[s] \subseteq queue[s]
      /\ pc'[s] \in {"next", "decide"}
      /\ dirty' \in [Session -> Books] => Typed'
  <2>1. PICK where \in {"next", "decide"}, gone \in SUBSET Position, rest \in Seq(Trade) :
          /\ pc' = [pc EXCEPT ![s] = where] /\ queue' = [queue EXCEPT ![s] = @ \ gone]
          /\ batch' = [batch EXCEPT ![s] = rest]
    <3>1. CASE batch[s] # <<>>
      <4>1. /\ pc' = [pc EXCEPT ![s] = "next"] /\ queue' = [queue EXCEPT ![s] = @ \ {}]
            /\ batch' = [batch EXCEPT ![s] = Tail(batch[s])]
        BY <3>1 DEF Write, Goto, Skip, SessionsInv, Typed
      <4>2. Tail(batch[s]) \in Seq(Trade)
        BY <3>1, TradesInBatch DEF SessionsInv
      <4>3. QED BY <4>1, <4>2
    <3>2. CASE batch[s] = <<>>
      <4>1. /\ pc' = [pc EXCEPT ![s] = "decide"] /\ queue' = [queue EXCEPT ![s] = @ \ {p}]
            /\ batch' = [batch EXCEPT ![s] = batch[s]] /\ batch[s] \in Seq(Trade)
        BY <3>2 DEF Write, Goto, Drop, SessionsInv, Typed
      <4>2. QED BY <1>3, <4>1
    <3>3. QED BY <3>1, <3>2
  <2>2. /\ target' = [target EXCEPT ![s] = None] /\ goal' = [goal EXCEPT ![s] = None]
    BY DEF Write, Drop
  <2>3. \A r \in Session \ {s} : dirty'[r] = dirty[r]
    BY DEF Write, SessionsInv, Typed
  <2>4. OthersRest(s) /\ target'[s] = None /\ queue'[s] \subseteq queue[s] /\ pc'[s] = where
    BY <1>2, <2>1, <2>2, <2>3 DEF OthersRest, SessionsInv, Typed
  <2>5. dirty' \in [Session -> Books] => Typed'
    BY <1>1, <1>2, <2>1, <2>2 DEF SessionsInv, Typed, Places, tables
  <2>6. QED BY <2>4, <2>5
<1>5. CASE dirty' = dirty
  <2>1. Typed'
    BY <1>4, <1>5 DEF SessionsInv, Typed
  <2>2. AimSound(s)' /\ TradeInHand(s)' /\ Ordering(s)' = Ordering(s)
    BY <1>1, <1>2, <1>4, <2>1, LetsGo
  <2>3. QED BY <1>2, <1>4, <1>5, <2>1, <2>2, Remembers, ReadingMoves
<1>6. CASE dirty' # dirty
  <2>1. /\ \A r \in Session \ {s} : p \notin DOMAIN dirty[r]
        /\ dirty' = [dirty EXCEPT ![s] = Over(dirty[s], One(p, Updated(s, Seen(s)[p])))]
    BY <1>6 DEF Write, WriteWaits, One, SessionsInv, Typed
  <2>2. p \in DOMAIN Seen(s) /\ Seen(s)[p] \in Row /\ SaleKnown(s, Seen(s)[p])
    <3>1. p \in DOMAIN Seen(s) /\ Seen(s) \in Books
      BY <1>1, SeenIs DEF SessionsInv, Sound, MemorySound
    <3>2. QED BY <3>1, Book, SeenKnown
  <2> DEFINE u == Updated(s, Seen(s)[p])
  <2>3. u \in Row /\ u.trade = Seen(s)[p].trade /\ u.closing \in {goal[s].closing, Seen(s)[p].closing}
    BY <1>1, <1>3, <2>2, UpdatedIs
  <2> HIDE DEF u
  <2>4. SaleKnown(s, u)
    BY <1>1, <2>2, <2>3 DEF SaleKnown
  <2>5. /\ dirty' = [dirty EXCEPT ![s] = Over(dirty[s], One(p, u))]
        /\ \A r \in Session \ {s} : p \notin DOMAIN dirty[r]
        /\ p \in Position
    BY <1>3, <2>1 DEF u
  <2>6. /\ dirty' \in [Session -> Books] /\ DOMAIN dirty'[s] = DOMAIN dirty[s] \cup {p}
        /\ \A q \in DOMAIN dirty'[s] : dirty'[s][q] = IF q = p THEN u ELSE dirty[s][q]
        /\ KeysApart' /\ RowsApart' /\ MemorySound(s)'
        /\ \A q \in DOMAIN dirty'[s] :
             /\ q \in DOMAIN rows' => dirty'[s][q].trade = rows'[q].trade
             /\ SaleKnown(s, dirty[s][q])'
    <3> HIDE DEF p
    <3>1. QED BY <1>2, <2>3, <2>4, <2>5, Writing
  <2>7. AimSound(s)' /\ TradeInHand(s)' /\ Ordering(s) = {} /\ Ordering(s)' = {}
    BY <1>1, <1>2, <1>4, <2>6, LetsGo
  <2>8. /\ Gained(s)' = Gained(s)
        /\ \A q \in Gained(s) : dirty'[s][q].trade = dirty[s][q].trade
    <3>1. DOMAIN Seen(s) = DOMAIN rows \cup DOMAIN dirty[s]
          /\ (p \in DOMAIN dirty[s] => Seen(s)[p] = dirty[s][p])
      BY <2>2, SeenIs DEF SessionsInv
    <3>2. QED BY <1>2, <2>2, <2>3, <2>6, <3>1 DEF Gained, tables
  <2>9. WritesSound(s)'
    BY <1>2, <2>6, <2>7, <2>8 DEF SessionsInv, Sound, WritesSound
  <2>10. QED BY <1>2, <1>4, <2>6, <2>7, <2>9, Moves DEF Sound
<1>7. QED BY <1>5, <1>6

-------------------------------------------------------------------------------
(* Ends of a transaction.                                                  *)

LEMMA EndsSound ==
  ASSUME SessionsInv, NEW s \in Session, Finished(s), trades' \subseteq Trade, rows' \in Books
  PROVE  Typed' /\ OthersRest(s) /\ Sound(s)' /\ added'[s] = {} /\ dirty'[s] = NoRows
<1>1. /\ kind' = [kind EXCEPT ![s] = "idle"] /\ pc' = [pc EXCEPT ![s] = "begin"]
      /\ batch' = [batch EXCEPT ![s] = <<>>] /\ queue' = [queue EXCEPT ![s] = {}]
      /\ mem' = [mem EXCEPT ![s] = NoRows]
      /\ target' = [target EXCEPT ![s] = None] /\ goal' = [goal EXCEPT ![s] = None]
      /\ added' = [added EXCEPT ![s] = {}] /\ dirty' = [dirty EXCEPT ![s] = NoRows]
      /\ feed' = feed
  BY DEF Finished, Goto, world
<1>2. <<>> \in Seq(Trade)
  OBVIOUS
<1>3. Typed'
  BY <1>1, <1>2, NoRowsBook DEF SessionsInv, Typed, Kinds, Places
<1>4. OthersRest(s)
  BY <1>1 DEF OthersRest, SessionsInv, Typed
<1>5. /\ pc'[s] = "begin" /\ queue'[s] = {} /\ mem'[s] = NoRows /\ target'[s] = None
      /\ added'[s] = {} /\ dirty'[s] = NoRows
  BY <1>1 DEF SessionsInv, Typed
<1>6. WritesSound(s)'
  BY <1>5, NoRowsBook DEF WritesSound, Gained, Ordering
<1>7. MemorySound(s)' /\ AimSound(s)' /\ TradeInHand(s)'
  BY <1>5, NoRowsBook DEF MemorySound, AimSound, TradeInHand
<1>8. QED BY <1>3, <1>4, <1>5, <1>6, <1>7 DEF Sound

LEMMA RollsBack ==
  ASSUME SessionsInv, NEW s \in Session, Finished(s), UNCHANGED tables
  PROVE  SessionsInv'
<1>1. Typed' /\ OthersRest(s) /\ Sound(s)' /\ added'[s] = {} /\ dirty'[s] = NoRows
  BY EndsSound DEF SessionsInv, Typed, tables
<1>2. KeysApart' /\ RowsApart'
  <2>1. KeysApart'
    BY <1>1 DEF SessionsInv, KeysApart, OthersRest, tables
  <2>2. RowsApart'
    BY <1>1, NoRowsBook DEF SessionsInv, RowsApart, OthersRest
  <2>3. QED BY <2>1, <2>2
<1>3. QED BY <1>1, <1>2, Moves

LEMMA CommitStep ==
  ASSUME SessionsInv, NEW s \in Session, Commit(s)
  PROVE  SessionsInv'
<1>1. /\ pc[s] = "ready" /\ Finished(s) /\ trades' = trades \cup added[s] /\ rows' = Seen(s)
  BY DEF Commit
<1>2. /\ Seen(s) \in Books /\ DOMAIN Seen(s) = DOMAIN rows \cup DOMAIN dirty[s]
      /\ \A p \in DOMAIN Seen(s) : Seen(s)[p] = IF p \in DOMAIN dirty[s] THEN dirty[s][p] ELSE rows[p]
  BY SeenIs DEF SessionsInv
<1>3. Typed' /\ OthersRest(s) /\ Sound(s)' /\ added'[s] = {} /\ dirty'[s] = NoRows
  BY <1>1, <1>2, EndsSound DEF SessionsInv, Typed
<1>4. KeysApart'
  BY <1>1, <1>3 DEF SessionsInv, KeysApart, OthersRest
<1>5. RowsApart'
  BY <1>3, NoRowsBook DEF SessionsInv, RowsApart, OthersRest
<1>6. \A p \in DOMAIN rows : p \in DOMAIN rows' /\ rows'[p].trade = rows[p].trade
  BY <1>1, <1>2 DEF SessionsInv, Sound, WritesSound
<1>7. \A p \in Gained(s) : p \in DOMAIN rows' /\ rows'[p] = dirty[s][p]
  BY <1>1, <1>2 DEF Gained
<1>8. DOMAIN rows' = DOMAIN rows \cup Gained(s)
  BY <1>1, <1>2 DEF Gained
<1>9. {dirty[s][p].trade : p \in Gained(s)} = Buy \cap added[s]
  BY <1>1 DEF SessionsInv, Sound, WritesSound, Ordering
<1>10. OnePositionPerTrade'
  <2>1. \A p \in DOMAIN rows : rows[p].trade \in trades
    BY DEF SessionsInv, OnePositionPerTrade
  <2>2. \A p \in Gained(s) : dirty[s][p].trade \in added[s]
    BY <1>9
  <2>3. added[s] \cap trades = {}
    BY DEF SessionsInv, KeysApart
  <2>4. \A p, q \in DOMAIN rows' : rows'[p].trade = rows'[q].trade => p = q
    BY <1>6, <1>7, <1>8, <2>1, <2>2, <2>3
       DEF SessionsInv, OnePositionPerTrade, Sound, WritesSound
  <2>5. Buy \cap trades' = {rows'[p].trade : p \in DOMAIN rows'}
    BY <1>1, <1>6, <1>7, <1>8, <1>9 DEF SessionsInv, OnePositionPerTrade
  <2>6. \A p \in DOMAIN rows' : rows'[p].closing # None => rows'[p].closing \in trades'
    BY <1>1, SeenKnown DEF SaleKnown
  <2>7. QED BY <2>4, <2>5, <2>6 DEF OnePositionPerTrade
<1>11. ASSUME NEW r \in Session, r # s
       PROVE  Sound(r)'
  <2>1. /\ pc'[r] = pc[r] /\ batch'[r] = batch[r] /\ queue'[r] = queue[r] /\ mem'[r] = mem[r]
        /\ target'[r] = target[r] /\ goal'[r] = goal[r]
        /\ added'[r] = added[r] /\ dirty'[r] = dirty[r]
    BY <1>3, <1>11 DEF OthersRest
  <2>2. Sound(r) /\ DOMAIN dirty[r] \cap DOMAIN dirty[s] = {}
    BY <1>11 DEF SessionsInv, RowsApart
  <2>3. \A row : SaleKnown(r, row) => SaleKnown(r, row)'
    BY <1>1, <2>1 DEF SaleKnown
  <2>4. Gained(r)' = Gained(r) /\ Ordering(r)' = Ordering(r)
    BY <1>1, <1>2, <2>1, <2>2 DEF Gained, Ordering
  <2>5. \A p \in DOMAIN dirty[r] : p \in DOMAIN rows' => dirty[r][p].trade = rows'[p].trade
    BY <1>1, <1>2, <2>2 DEF Sound, WritesSound
  <2>6. WritesSound(r)'
    BY <2>1, <2>2, <2>3, <2>4, <2>5 DEF Sound, WritesSound
  <2>7. /\ DOMAIN Seen(r) = DOMAIN rows \cup DOMAIN dirty[r]
        /\ \A p \in DOMAIN Seen(r) : Seen(r)[p] = IF p \in DOMAIN dirty[r] THEN dirty[r][p] ELSE rows[p]
    BY SeenIs DEF SessionsInv
  <2>8. /\ DOMAIN Seen(r)' = DOMAIN rows' \cup DOMAIN dirty[r]
        /\ \A p \in DOMAIN Seen(r)' : Seen(r)'[p] = IF p \in DOMAIN dirty[r] THEN dirty[r][p] ELSE rows'[p]
    <3>1. Seen(r)' = Over(rows', dirty[r]) /\ rows' \in Books /\ dirty[r] \in Books
      BY <1>3, <2>1 DEF Seen, Typed, SessionsInv
    <3>2. /\ DOMAIN Over(rows', dirty[r]) = DOMAIN rows' \cup DOMAIN dirty[r]
          /\ \A p \in DOMAIN rows' \cup DOMAIN dirty[r] :
               Over(rows', dirty[r])[p] = IF p \in DOMAIN dirty[r] THEN dirty[r][p] ELSE rows'[p]
      BY <3>1, OverIs
    <3>3. QED BY <3>1, <3>2
  <2>9. \A p \in DOMAIN Seen(r) : p \in DOMAIN Seen(r)' /\ Seen(r)'[p].trade = Seen(r)[p].trade
    BY <1>6, <2>7, <2>8
  <2>10. MemorySound(r)'
    BY <2>1, <2>2, <2>3, <2>9 DEF Sound, MemorySound
  <2>11. AimSound(r)' /\ TradeInHand(r)'
    BY <2>1, <2>2, <2>3 DEF Sound, AimSound, TradeInHand
  <2>12. QED BY <2>6, <2>10, <2>11 DEF Sound
<1>12. QED BY <1>3, <1>4, <1>5, <1>10, <1>11 DEF SessionsInv

\* A statement fails: the savepoint loses one position, or the transaction all of it.
LEMMA VictimStep ==
  ASSUME SessionsInv, NEW s \in Session, DeadlockVictim(s)
  PROVE  SessionsInv'
<1>1. CASE pc[s] = "write" /\ batch[s] = <<>> /\ kind[s] # "reconciliation"
  <2>1. /\ Drop(s, target[s]) /\ Goto(s, "decide")
        /\ UNCHANGED <<feed, tables, kind, batch, mem, added, dirty>>
    BY <1>1 DEF DeadlockVictim, world, writes
  <2>2. QED BY <1>1, <2>1, Drops
<1>2. CASE ~(pc[s] = "write" /\ batch[s] = <<>> /\ kind[s] # "reconciliation")
  <2>1. Finished(s) /\ UNCHANGED tables
    BY <1>2 DEF DeadlockVictim
  <2>2. QED BY <2>1, RollsBack
<1>3. QED BY <1>1, <1>2

-------------------------------------------------------------------------------
(* The invariant.                                                          *)

\* The world moves, or nothing does.
LEMMA WorldStep ==
  ASSUME SessionsInv, feed' \in Seq(Trade), UNCHANGED <<tables, locals, writes>>
  PROVE  SessionsInv'
<1>1. Typed' /\ OnePositionPerTrade' /\ KeysApart' /\ RowsApart'
  BY DEF SessionsInv, Typed, OnePositionPerTrade, KeysApart, RowsApart, tables, locals, writes
<1>2. ASSUME NEW s \in Session
      PROVE  Sound(s)'
  <2>1. Seen(s)' = Seen(s) /\ Gained(s)' = Gained(s) /\ Ordering(s)' = Ordering(s)
    BY DEF Seen, Gained, Ordering, tables, locals, writes
  <2>2. \A row : SaleKnown(s, row)' <=> SaleKnown(s, row)
    BY DEF SaleKnown, tables, writes
  <2>3. Sound(s) /\ UNCHANGED <<rows, pc, batch, queue, mem, target, goal, added, dirty>>
    BY DEF SessionsInv, tables, locals, writes
  <2>4. WritesSound(s)' /\ MemorySound(s)'
    BY <2>1, <2>2, <2>3 DEF Sound, WritesSound, MemorySound
  <2>5. AimSound(s)' /\ TradeInHand(s)'
    BY <2>2, <2>3 DEF Sound, AimSound, TradeInHand
  <2>6. QED BY <2>4, <2>5 DEF Sound
<1>3. QED BY <1>1, <1>2 DEF SessionsInv

LEMMA SessionsStart == Init => SessionsInv
<1> SUFFICES ASSUME Init
             PROVE  SessionsInv
  OBVIOUS
<1>1. Typed
  BY NoRowsBook DEF Init, Typed, Kinds, Places
<1>2. OnePositionPerTrade /\ KeysApart /\ RowsApart
  BY NoRowsBook DEF Init, OnePositionPerTrade, KeysApart, RowsApart
<1>3. ASSUME NEW s \in Session
      PROVE  Sound(s)
  BY NoRowsBook DEF Init, Sound, WritesSound, MemorySound, AimSound, TradeInHand, Gained, Ordering
<1>4. QED BY <1>1, <1>2, <1>3 DEF SessionsInv

LEMMA SessionsStep == SessionsInv /\ [Next]_vars => SessionsInv'
<1> SUFFICES ASSUME SessionsInv, [Next]_vars
             PROVE  SessionsInv'
  OBVIOUS
<1>1. CASE \E t \in Trade : Publish(t)
  <2>1. PICK t \in Trade : Publish(t)
    BY <1>1
  <2>2. feed' \in Seq(Trade)
    BY <2>1 DEF Publish, SessionsInv, Typed
  <2>3. QED BY <2>1, <2>2, WorldStep DEF Publish
<1>2. CASE MarketMoves \/ UNCHANGED vars
  BY <1>2, WorldStep DEF MarketMoves, vars, world, SessionsInv, Typed
<1>3. ASSUME NEW s \in Session, BeginScan(s) \/ BeginOther(s) \/ Step(s) \/ Crash(s)
      PROVE  SessionsInv'
  <2>1. CASE BeginScan(s) \/ BeginOther(s) \/ Look(s) \/ EndBatch(s) \/ Touch(s) \/ EndQueue(s)
    BY <2>1, WalkSteps
  <2>2. CASE Insert(s) \/ Match(s) \/ Order(s)
    BY <2>2, InsertStep, MatchStep, OrderStep
  <2>3. CASE Load(s) \/ Decide(s) \/ LeavePosition(s) \/ Write(s)
    BY <2>3, LoadStep, DecideStep, LeaveStep, WriteStep
  <2>4. CASE Commit(s) \/ DeadlockVictim(s)
    BY <2>4, CommitStep, VictimStep
  <2>5. CASE DuplicateKey(s) \/ Crash(s)
    BY <2>5, RollsBack DEF DuplicateKey, Crash
  <2>6. QED BY <1>3, <2>1, <2>2, <2>3, <2>4, <2>5 DEF Step
<1>4. QED BY <1>1, <1>2, <1>3 DEF Next

LEMMA SessionsHold == Spec => []SessionsInv
BY SessionsStart, SessionsStep, PTL DEF Spec

\* For any number of sessions, trades and positions: whichever statements interleave,
\* fail or are lost, a stored purchase has exactly one position, and a position names
\* only stored sales (create_detected_trade, create_copy_buy, the exit reconciliation).
THEOREM OnePosition == Spec => []OnePositionPerTrade
<1>1. SessionsInv => OnePositionPerTrade
  BY DEF SessionsInv
<1>2. QED BY <1>1, SessionsHold, PTL
===============================================================================
