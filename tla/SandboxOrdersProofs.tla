------------------------- MODULE SandboxOrdersProofs --------------------------
(***************************************************************************)
(* For any number of orders and of request threads, any quantities and     *)
(* profits.  Whatever is admitted, the rows stay well-formed and no money  *)
(* is made or lost.  If no order is checked by two evaluators before one   *)
(* of them has committed its trade, none is traded twice.  If none is      *)
(* changed under a thread that has read it either, the engine's index      *)
(* follows the book, as far as the engine hears of what is placed; and     *)
(* when fills are netted one after the other and none dies half-way, the   *)
(* book keeps OrderContract.                                               *)
(***************************************************************************)
EXTENDS SandboxOrders, FiniteSetTheorems, TLAPS

Feed == [orders : SUBSET Orders, refs : Nat, position : {0, 1}]

Account == [available : Int, used : Nat, realized : Int]

Lots == [qty : Int, margin : Nat]

Jobs == [step : Steps, order : Orders \cup {Nothing}, read : Statuses, after : Lots]

Worth(account) == account.available + account.used - account.realized

-----------------------------------------------------------------------------
(***************************************************************************)
(* The operators.                                                          *)
(***************************************************************************)

\* A share of a margin is a margin, and no larger.
LEMMA Share ==
  ASSUME NEW m \in Nat, NEW part \in Nat, NEW whole \in Nat, whole > 0, part <= whole
  PROVE  (m * part) \div whole \in Nat /\ (m * part) \div whole <= m
<1>1. m * part \in Nat /\ m * part <= m * whole
  BY SMT
<1> DEFINE q == (m * part) \div whole
<1>2. q \in Int /\ q * whole <= m * part /\ m * part < (q + 1) * whole
  BY <1>1, SMT
<1>3. q >= 0
  <2>1. CASE q + 1 <= 0
    <3>1. (q + 1) * whole <= 0
      BY <1>2, <2>1, SMT
    <3> QED
      BY <1>1, <1>2, <3>1, SMT
  <2> QED
    BY <1>2, <2>1, SMT
<1>4. q <= m
  <2>1. CASE q >= m + 1
    <3>1. q * whole >= (m + 1) * whole
      BY <1>2, <2>1, SMT
    <3>2. (m + 1) * whole = m * whole + whole
      BY SMT
    <3> QED
      BY <1>1, <1>2, <3>1, <3>2, SMT
  <2> QED
    BY <1>2, <2>1, SMT
<1> QED
  BY <1>2, <1>3, <1>4, SMT

LEMMA QuantityIsNat == \A qty \in Quantities \cup {0} : qty \in Nat
BY OrdersAssumption

LEMMA AbsIsNat ==
  ASSUME NEW n \in Int
  PROVE  Abs(n) \in Nat /\ (n # 0 => Abs(n) > 0)
BY DEF Abs

\* What is given back moves from the reserve to the cash, and with it the profit.
LEMMA ReleaseKeepsWorth ==
  ASSUME NEW account \in Account, NEW amount \in Nat, NEW pnl \in Int
  PROVE  /\ Release(account, amount, pnl) \in Account
         /\ Worth(Release(account, amount, pnl)) = Worth(account)
BY DEF Release, Account, Worth

LEMMA ReconcileKeepsWorth ==
  ASSUME NEW account \in Account, NEW margin \in Nat
  PROVE  /\ Reconcile(account, margin) \in Account
         /\ Reconcile(account, margin).used = margin
         /\ Worth(Reconcile(account, margin)) = Worth(account)
BY DEF Reconcile, Account, Worth

\* A new order asks for a whole number, which moves from the cash to the reserve.
LEMMA BlockKeepsWorth ==
  ASSUME funds \in Account, position \in [qty : Int, margin : Nat],
         NEW side \in Sides, NEW qty \in Nat
  PROVE  /\ Needed(side, qty) \in Nat
         /\ Blocked(Needed(side, qty)) \in Account
         /\ Worth(Blocked(Needed(side, qty))) = Worth(funds)
<1>1. Needed(side, qty) \in Nat
  BY AbsIsNat DEF Needed
<1> DEFINE amount == Needed(side, qty)
<1> HIDE DEF amount
<1>2. Blocked(amount) \in Account /\ Worth(Blocked(amount)) = Worth(funds)
  BY <1>1 DEF Blocked, Account, Worth, amount
<1> QED
  BY <1>1, <1>2 DEF amount

\* A fill leaves a position with a margin, and gives back a whole number.
LEMMA NettedIsTyped ==
  ASSUME position \in [qty : Int, margin : Nat],
         NEW r \in Order, NEW lots \in Nat
  PROVE  /\ Netted(r, lots) \in [qty : Int, margin : Nat]
         /\ Netted(r, lots).qty = position.qty + r.side * lots
         /\ GivenBack(r, lots) \in Nat
<1> DEFINE old == Abs(position.qty)
<1>1. old \in Nat /\ (position.qty # 0 => old > 0)
  BY AbsIsNat
<1>2. Opposes(r.side) => position.qty # 0
  BY DEF Opposes, Order, Sides
<1>3. r.held \in Nat /\ r.side \in Int /\ position.margin \in Nat /\ position.qty \in Int
  BY DEF Order, Sides
<1>4. CASE Opposes(r.side) /\ lots <= old
  <2>1. /\ (position.margin * lots) \div old \in Nat
        /\ (position.margin * lots) \div old <= position.margin
    BY <1>1, <1>2, <1>3, <1>4, Share
  <2> QED
    BY <1>1, <1>2, <1>3, <1>4, <2>1 DEF Netted, GivenBack
<1>5. CASE Opposes(r.side) /\ ~(lots <= old)
  <2>1. (r.held * (lots - old)) \div lots \in Nat
    <3>1. lots - old \in Nat /\ lots - old <= lots
      BY <1>1, <1>5
    <3>2. lots > 0
      BY <1>1, <1>5
    <3> QED
      BY <1>3, <3>1, <3>2, Share
  <2> QED
    BY <1>1, <1>2, <1>3, <1>5, <2>1 DEF Netted, GivenBack
<1>6. CASE ~Opposes(r.side)
  BY <1>3, <1>6 DEF Netted, GivenBack
<1> QED
  BY <1>4, <1>5, <1>6

LEMMA PaidKeepsWorth ==
  ASSUME position \in [qty : Int, margin : Nat], NEW account \in Account,
         NEW r \in Order, NEW lots \in Nat, NEW pnl \in Int
  PROVE  /\ Paid(account, r, lots, pnl) \in Account
         /\ Worth(Paid(account, r, lots, pnl)) = Worth(account)
BY NettedIsTyped, ReleaseKeepsWorth DEF Paid

\* The index after a fill is an index.
LEMMA HeldIsTyped ==
  ASSUME NEW f \in Feed, NEW lots \in Int
  PROVE  Held(f, lots) \in Feed
<1>1. /\ f.orders \in SUBSET Orders /\ f.refs + 1 \in Nat /\ Fewer(f.refs) \in Nat
  BY DEF Feed, Fewer
<1>2. Index(f.orders, f.refs + 1, 1) \in Feed /\ Index(f.orders, Fewer(f.refs), 0) \in Feed
  BY <1>1 DEF Feed, Index
<1> QED
  BY <1>2 DEF Held

LEMMA IndexedIsTyped ==
  ASSUME NEW f \in Feed, NEW o \in Orders
  PROVE  Unindexed(f, o) \in Feed /\ Indexed(f, o) \in Feed
<1>1. /\ f.orders \in SUBSET Orders /\ f.position \in {0, 1}
      /\ f.refs + 1 \in Nat /\ Fewer(f.refs) \in Nat
  BY DEF Feed, Fewer
<1> QED
  BY <1>1 DEF Unindexed, Indexed, Feed, Index

LEMMA RebuiltIsTyped ==
  ASSUME TypeOK
  PROVE  Rebuilt \in Feed
<1> DEFINE resting == {o \in Orders : IsPending(o)}
<1>1. Cardinality(resting) \in Nat
  BY OrdersAssumption, FS_Subset, FS_CardinalityType
<1> QED
  BY <1>1 DEF Rebuilt, Feed, Index

LEMMA BlankIsOrder == Blank \in Order
BY DEF Blank, Order, Statuses, Sides

LEMMA FlatIsLots == Flat \in Lots
BY DEF Flat, Lots

LEMMA IdleIsJob == Idle \in Jobs /\ Idle.step = "idle"
BY FlatIsLots DEF Idle, Job, Jobs, Steps, Statuses

\* A status that is written.
LEMMA MarkedIsTyped ==
  ASSUME orders \in [Orders -> Order], NEW o \in Orders, NEW status \in Statuses,
         Marked(o, status)
  PROVE  /\ orders' \in [Orders -> Order]
         /\ orders'[o].status = status /\ orders'[o].side = orders[o].side
         /\ orders'[o].qty = orders[o].qty
         /\ \A p \in Orders \ {o} : orders'[p] = orders[p]
BY DEF Order, Marked

-----------------------------------------------------------------------------
(***************************************************************************)
(* The types, by parts: the tables, the engines, the threads.              *)
(***************************************************************************)
RowsTyped ==
  /\ orders \in [Orders -> Order]
  /\ trades \in [Orders -> Nat]
  /\ position \in Lots
  /\ funds \in Account

EnginesTyped ==
  /\ feed \in Feed
  /\ subscribed \in BOOLEAN /\ polling \in BOOLEAN
  /\ session \in [Orders -> Copies]

Sensible(job) == job \in Jobs /\ (job.step # "idle" => job.order \in Orders)

ThreadsTyped == work \in [Workers -> Jobs] /\ \A w \in Workers : Sensible(work[w])

LEMMA TypesByParts == TypeOK <=> RowsTyped /\ EnginesTyped /\ ThreadsTyped
BY DEF TypeOK, RowsTyped, EnginesTyped, ThreadsTyped, Sensible, Feed, Account, Lots, Jobs

LEMMA JobIsSensible ==
  ASSUME NEW step \in Steps, NEW o \in Orders, NEW status \in Statuses, NEW after \in Lots
  PROVE  /\ Sensible(Job(step, o, status, after))
         /\ Job(step, o, status, after).step = step
         /\ Job(step, o, status, after).order = o
         /\ Job(step, o, status, after).after = after
         /\ Job(step, o, status, after).read = status
BY DEF Sensible, Job, Jobs

LEMMA IdleIsSensible == Sensible(Idle)
BY IdleIsJob DEF Sensible

\* A thread that takes up a job, goes on with it or ends it.
LEMMA BecomesIsTyped ==
  ASSUME ThreadsTyped, NEW w \in Workers, NEW job, Sensible(job), Becomes(w, job)
  PROVE  /\ ThreadsTyped'
         /\ work'[w] = job /\ \A v \in Workers \ {w} : work'[v] = work[v]
BY DEF ThreadsTyped, Becomes, Sensible

\* What the cycle has in its session.
LEMMA ExpiresIsTyped ==
  ASSUME NEW w \in Workers, NEW copies \in [Orders -> Copies], Expires(w, copies)
  PROVE  /\ session' \in [Orders -> Copies]
         /\ \A p \in Orders : session'[p] # "none" => copies[p] # "none"
         /\ w # "cycle" => session' = copies
BY DEF Expires, Copies

LEMMA WithoutIsTyped ==
  ASSUME session \in [Orders -> Copies], NEW o \in Orders
  PROVE  Without(o) \in [Orders -> Copies] /\ Without(o) = [session EXCEPT ![o] = "none"]
BY DEF Without, Copies

\* What the engine is told.
LEMMA SubscribesIsTyped ==
  ASSUME subscribed \in BOOLEAN, Subscribes
  PROVE  subscribed' \in BOOLEAN
BY DEF Subscribes, Answers

LEMMA TellsIsTyped ==
  ASSUME feed \in Feed, subscribed \in BOOLEAN,
         NEW w \in Workers, NEW o \in Orders, NEW rests, Tells(w, o, rests)
  PROVE  feed' \in Feed /\ subscribed' \in BOOLEAN
<1>1. feed' \in {feed, Indexed(feed, o), Unindexed(feed, o)}
  BY DEF Tells, Told
<1> QED
  BY <1>1, IndexedIsTyped, SubscribesIsTyped DEF Tells

-----------------------------------------------------------------------------
(***************************************************************************)
(* Every step keeps the types, and the worth of the account.               *)
(***************************************************************************)
Sound == RowsTyped /\ EnginesTyped /\ ThreadsTyped /\ Worth(funds) = Capital

\* A request that is taken: the row it becomes, the margin it blocks.
LEMMA TakenIsTyped ==
  ASSUME RowsTyped, NEW o \in Orders, NEW side \in Sides, NEW qty \in Quantities,
         NEW status \in Pending
  PROVE  /\ Row(status, side, qty, Needed(side, qty)) \in Order
         /\ [orders EXCEPT ![o] = Row(status, side, qty, Needed(side, qty))] \in [Orders -> Order]
         /\ Blocked(Needed(side, qty)) \in Account
         /\ Worth(Blocked(Needed(side, qty))) = Worth(funds)
<1>1. /\ Needed(side, qty) \in Nat
      /\ Blocked(Needed(side, qty)) \in Account
      /\ Worth(Blocked(Needed(side, qty))) = Worth(funds)
  BY OrdersAssumption, BlockKeepsWorth DEF RowsTyped, Account, Lots
<1>2. Row(status, side, qty, Needed(side, qty)) \in Order
  BY <1>1 DEF Row, Order, Statuses
<1> QED
  BY <1>1, <1>2 DEF RowsTyped

LEMMA RequestKeepsSound ==
  ASSUME Sound, NEW o \in Orders, Request(o)
  PROVE  Sound'
<1> USE DEF Sound
<1>1. ASSUME NEW side \in Sides, NEW qty \in Quantities, NEW w \in Requests,
             NEW status \in Pending, Places(w, o, side, qty, status)
      PROVE  Sound'
  <2>1. orders' \in [Orders -> Order] /\ funds' \in Account /\ Worth(funds') = Worth(funds)
    BY <1>1, TakenIsTyped DEF Places
  <2>2. ThreadsTyped'
    <3>1. Sensible(Job("checked", o, status, Flat))
      BY JobIsSensible, FlatIsLots DEF Steps, Statuses
    <3> QED
      BY <1>1, <3>1, BecomesIsTyped DEF Places, Workers
  <2> QED
    BY <1>1, <2>1, <2>2 DEF Places, RowsTyped, EnginesTyped, Worth
<1>2. ASSUME NEW side \in Sides, NEW qty \in Quantities, PlaceBreaks(o, side, qty)
      PROVE  Sound'
  <2>1. funds' \in Account /\ Worth(funds') = Worth(funds)
    BY <1>2, TakenIsTyped DEF PlaceBreaks, Pending
  <2> QED
    BY <1>2, <2>1 DEF PlaceBreaks, RowsTyped, EnginesTyped, ThreadsTyped, Worth
<1>3. ASSUME NEW qty \in Quantities, Modify(o, qty)
      PROVE  Sound'
  <2>1. orders' \in [Orders -> Order]
    BY <1>3 DEF Modify, RowsTyped, Order
  <2> QED
    BY <1>3, <2>1 DEF Modify, RowsTyped, EnginesTyped, ThreadsTyped, Worth
<1>4. ASSUME Cancel(o)
      PROVE  Sound'
  <2> DEFINE amount == IF orders[o].held > 0 THEN orders[o].held ELSE orders[o].qty
  <2>1. amount \in Nat /\ funds \in Account
    BY QuantityIsNat DEF RowsTyped, Order
  <2>2. funds' = Release(funds, amount, 0)
    BY <1>4 DEF Cancel
  <2> HIDE DEF amount
  <2>3. funds' \in Account /\ Worth(funds') = Worth(funds)
    BY <2>1, <2>2, ReleaseKeepsWorth
  <2>4. orders' \in [Orders -> Order]
    BY <1>4 DEF Cancel, RowsTyped, Order, Statuses
  <2> QED
    BY <1>4, <2>3, <2>4 DEF Cancel, RowsTyped, EnginesTyped, ThreadsTyped, Worth
<1> QED
  BY <1>1, <1>2, <1>3, <1>4 DEF Request

LEMMA ReadIsStatus ==
  ASSUME RowsTyped, EnginesTyped, NEW w \in Engines, NEW o \in Orders, Offered(w, o)
  PROVE  Read(w, o) \in Statuses
<1>1. orders[o].status \in Statuses /\ session[o] \in Copies
  BY DEF RowsTyped, EnginesTyped, Order
<1>2. w = "cycle" => session[o] # "none"
  BY DEF Offered, Loaded, Engines
<1> QED
  BY <1>1, <1>2 DEF Read, Copies, Statuses

LEMMA EvaluationKeepsSound ==
  ASSUME Sound, NEW o \in Orders, Evaluation(o)
  PROVE  Sound'
<1> USE DEF Sound
<1>1. Without(o) \in [Orders -> Copies] /\ session \in [Orders -> Copies]
  BY WithoutIsTyped DEF EnginesTyped
<1>2. ASSUME TickForgets(o)
      PROVE  Sound'
  <2>1. feed' \in Feed /\ subscribed' \in BOOLEAN
    BY <1>2, TellsIsTyped DEF TickForgets, EnginesTyped, Workers, Engines
  <2> QED
    BY <1>2, <2>1 DEF TickForgets, RowsTyped, EnginesTyped, ThreadsTyped, Worth
<1>3. ASSUME CycleSkips(o)
      PROVE  Sound'
  BY <1>1, <1>3 DEF CycleSkips, RowsTyped, EnginesTyped, ThreadsTyped, Worth
<1>4. ASSUME NEW w \in Engines, Checks(w, o)
      PROVE  Sound'
  <2>1. ThreadsTyped'
    <3>1. Read(w, o) \in Statuses
      BY <1>4, ReadIsStatus DEF Checks
    <3>2. Sensible(Job("checked", o, Read(w, o), Flat))
      BY <3>1, JobIsSensible, FlatIsLots DEF Steps
    <3> QED
      BY <1>4, <3>2, BecomesIsTyped DEF Checks, Workers
  <2>2. session' \in [Orders -> Copies]
    BY <1>1, <1>4 DEF Checks
  <2> QED
    BY <1>4, <2>1, <2>2 DEF Checks, RowsTyped, EnginesTyped, Worth
<1>5. ASSUME NEW w \in Engines, FindsTrade(w, o)
      PROVE  Sound'
  <2>1. CASE Read(w, o) = "open"
    <3>1. orders' \in [Orders -> Order]
      BY <1>5, <2>1 DEF FindsTrade, RowsTyped, Order, Statuses
    <3>2. feed' \in Feed /\ subscribed' \in BOOLEAN
      BY <1>5, <2>1, TellsIsTyped DEF FindsTrade, EnginesTyped, Workers
    <3>3. session' \in [Orders -> Copies]
      <4>1. [session EXCEPT ![o] = "none"] \in [Orders -> Copies]
        BY <1>1 DEF Without
      <4> QED
        BY <1>5, <2>1, <4>1, ExpiresIsTyped DEF FindsTrade, Workers
    <3> QED
      BY <1>5, <3>1, <3>2, <3>3 DEF FindsTrade, RowsTyped, EnginesTyped, ThreadsTyped, Worth
  <2>2. CASE Read(w, o) # "open"
    BY <1>1, <1>5, <2>2 DEF FindsTrade, RowsTyped, EnginesTyped, ThreadsTyped, Worth
  <2> QED
    BY <2>1, <2>2
<1> QED
  BY <1>2, <1>3, <1>4, <1>5 DEF Evaluation

LEMMA GoingOnKeepsSound ==
  ASSUME Sound, NEW w \in Workers, NEW o \in Orders, GoesOn(w, o)
  PROVE  Sound'
<1> USE DEF Sound
<1>1. ASSUME NEW rests, Ends(w, o, rests)
      PROVE  feed' \in Feed /\ subscribed' \in BOOLEAN /\ ThreadsTyped'
  BY <1>1, TellsIsTyped, IdleIsSensible, BecomesIsTyped DEF Ends, EnginesTyped
<1>2. Expires(w, session) => session' \in [Orders -> Copies]
  BY ExpiresIsTyped DEF EnginesTyped
<1>3. ASSUME NEW status \in Statuses, Marked(o, status)
      PROVE  orders' \in [Orders -> Order]
  BY <1>3, MarkedIsTyped DEF RowsTyped
<1>4. /\ "open" \in Statuses /\ "rejected" \in Statuses /\ "complete" \in Statuses
      /\ "new" \in Statuses
  BY DEF Statuses, Pending
<1>5. CASE Passes(w, o)
  BY <1>1, <1>5 DEF Passes, RowsTyped, EnginesTyped, Worth
<1>6. CASE Triggers(w, o)
  BY <1>1, <1>2, <1>3, <1>4, <1>6 DEF Triggers, RowsTyped, EnginesTyped, Worth
<1>7. CASE TradeCommits(w, o)
  <2>1. ThreadsTyped'
    <3>1. Sensible(Job("traded", o, "new", Flat))
      BY <1>4, JobIsSensible, FlatIsLots DEF Steps
    <3> QED
      BY <1>7, <3>1, BecomesIsTyped DEF TradeCommits
  <2>2. orders' \in [Orders -> Order] /\ trades' \in [Orders -> Nat]
    BY <1>3, <1>4, <1>7 DEF TradeCommits, RowsTyped
  <2> QED
    BY <1>2, <1>7, <2>1, <2>2 DEF TradeCommits, RowsTyped, EnginesTyped, Worth
<1>8. CASE TradeFails(w, o)
  <2>1. orders' \in [Orders -> Order]
    BY <1>3, <1>4, <1>8 DEF TradeFails, RowsTyped
  <2>2. EnginesTyped' /\ ThreadsTyped'
    BY <1>1, <1>2, <1>8 DEF TradeFails, EnginesTyped
  <2> QED
    BY <1>8, <2>1, <2>2 DEF TradeFails, RowsTyped, Worth
<1>9. CASE Pays(w, o)
  <2> DEFINE r == orders[o]
  <2>1. r \in Order /\ r.qty \in Nat /\ position \in [qty : Int, margin : Nat] /\ funds \in Account
    BY QuantityIsNat DEF RowsTyped, Order, Lots
  <2>2. PICK pnl \in Profits : funds' = Paid(funds, r, r.qty, pnl)
    BY <1>9 DEF Pays
  <2>3. Becomes(w, Job("paid", o, "new", Netted(r, r.qty)))
    BY <1>9 DEF Pays
  <2> HIDE DEF r
  <2>4. funds' \in Account /\ Worth(funds') = Worth(funds)
    BY <2>1, <2>2, OrdersAssumption, PaidKeepsWorth
  <2>5. Netted(r, r.qty) \in Lots
    BY <2>1, NettedIsTyped DEF Lots
  <2>6. ThreadsTyped'
    <3>1. Sensible(Job("paid", o, "new", Netted(r, r.qty)))
      BY <1>4, <2>5, JobIsSensible DEF Steps
    <3> QED
      BY <2>3, <3>1, BecomesIsTyped
  <2> QED
    BY <1>2, <1>9, <2>4, <2>6 DEF Pays, RowsTyped, EnginesTyped, Worth
<1>10. CASE FillFails(w, o)
  <2>1. orders' \in [Orders -> Order]
    BY <1>3, <1>4, <1>10 DEF FillFails, RowsTyped
  <2>2. EnginesTyped' /\ ThreadsTyped'
    BY <1>1, <1>2, <1>10 DEF FillFails, EnginesTyped
  <2> QED
    BY <1>10, <2>1, <2>2 DEF FillFails, RowsTyped, Worth
<1>11. CASE Nets(w, o)
  <2>1. position' \in Lots /\ position'.qty \in Int
    BY <1>11 DEF Nets, ThreadsTyped, Jobs, Lots
  <2>2. feed' \in Feed /\ subscribed' \in BOOLEAN
    BY <1>11, <2>1, HeldIsTyped, SubscribesIsTyped DEF Nets, EnginesTyped
  <2>3. ThreadsTyped'
    <3>1. Sensible(Job("netted", o, "new", Flat))
      BY <1>4, JobIsSensible, FlatIsLots DEF Steps
    <3> QED
      BY <1>11, <3>1, BecomesIsTyped DEF Nets
  <2> QED
    BY <1>2, <1>11, <2>1, <2>2, <2>3 DEF Nets, RowsTyped, EnginesTyped, Worth
<1>12. CASE Reconciles(w, o)
  <2>1. position.margin \in Nat /\ funds \in Account
    BY DEF RowsTyped, Lots
  <2>2. funds' \in Account /\ Worth(funds') = Worth(funds)
    BY <1>12, <2>1, ReconcileKeepsWorth DEF Reconciles
  <2>3. EnginesTyped' /\ ThreadsTyped'
    BY <1>1, <1>2, <1>12 DEF Reconciles, EnginesTyped
  <2> QED
    BY <1>12, <2>2, <2>3 DEF Reconciles, RowsTyped, Worth
<1> QED
  BY <1>5, <1>6, <1>7, <1>8, <1>9, <1>10, <1>11, <1>12 DEF GoesOn

LEMMA StepKeepsSound == Sound /\ [Next]_vars => Sound'
<1> SUFFICES ASSUME Sound, [Next]_vars
             PROVE  Sound'
  OBVIOUS
<1>1. ASSUME CycleReads
      PROVE  Sound'
  <2>1. session' \in [Orders -> Copies]
    BY <1>1 DEF CycleReads, IsPending, Copies
  <2> QED
    BY <1>1, <2>1 DEF Sound, CycleReads, RowsTyped, EnginesTyped, ThreadsTyped, Worth
<1>2. ASSUME FeedLost \/ FeedBack
      PROVE  Sound'
  BY <1>2 DEF Sound, FeedLost, FeedBack, RowsTyped, EnginesTyped, ThreadsTyped, Worth
<1>3. ASSUME Restart
      PROVE  Sound'
  <2>1. feed' \in Feed /\ subscribed' \in BOOLEAN /\ polling' \in BOOLEAN
    BY <1>3, RebuiltIsTyped, TypesByParts DEF Restart, Answers, Sound
  <2>2. session' \in [Orders -> Copies]
    BY <1>3 DEF Restart, Copies
  <2>3. ThreadsTyped'
    BY <1>3, IdleIsSensible, IdleIsJob DEF Restart, ThreadsTyped
  <2> QED
    BY <1>3, <2>1, <2>2, <2>3 DEF Sound, Restart, RowsTyped, EnginesTyped, Worth
<1>4. CASE UNCHANGED vars
  BY <1>4 DEF Sound, vars, RowsTyped, EnginesTyped, ThreadsTyped, Worth
<1> QED
  BY <1>1, <1>2, <1>3, <1>4, RequestKeepsSound, EvaluationKeepsSound, GoingOnKeepsSound DEF Next

LEMMA InitSound == Init => Sound
<1> SUFFICES ASSUME Init
             PROVE  Sound
  OBVIOUS
<1>1. feed \in Feed
  BY DEF Init, Index, Feed
<1>2. orders \in [Orders -> Order] /\ session \in [Orders -> Copies] /\ trades \in [Orders -> Nat]
  BY BlankIsOrder DEF Init, Copies
<1>3. position \in Lots /\ funds \in Account /\ Worth(funds) = Capital
  BY OrdersAssumption, FlatIsLots DEF Init, Worth, Account
<1>4. ThreadsTyped
  BY IdleIsSensible, IdleIsJob DEF Init, ThreadsTyped
<1> QED
  BY <1>1, <1>2, <1>3, <1>4 DEF Sound, RowsTyped, EnginesTyped, Init

LEMMA AlwaysSound == Spec => []Sound
BY InitSound, StepKeepsSound, PTL DEF Spec

\* For any orders, threads, quantities and profits the rows stay well-formed and
\* the reserve never goes below zero, in every execution.
THEOREM OrdersTypeCorrect == Spec => []TypeOK
<1>1. Sound => TypeOK
  BY TypesByParts DEF Sound
<1> QED
  BY <1>1, AlwaysSound, PTL

\* No path of placing, filling, cancelling, failing and repairing makes money
\* or loses any, however the threads interleave.
THEOREM MoneyConserved == Spec => []Conserved
<1>1. Sound => Conserved
  BY OrdersAssumption DEF Sound, Conserved, RowsTyped, Account, Worth
<1> QED
  BY <1>1, AlwaysSound, PTL

-----------------------------------------------------------------------------
(***************************************************************************)
(* An order is traded once: an evaluator that has found no trade is the    *)
(* only one about to commit one, and the order has none until it does.     *)
(***************************************************************************)

\* The assumption of the theorem on trades.
ChecksApart == "checksOverlap" \notin Admitted

AloneAtCheck(w, o) ==
  At(w, "checked", o) => trades[o] = 0 /\ \A v \in Workers \ {w} : ~At(v, "checked", o)

BlankIsUntouched(o) ==
  orders[o] = Blank => trades[o] = 0 /\ o \notin Loaded /\ \A w \in Workers : ~Has(w, o)

TradedOnce ==
  /\ FillsOnce
  /\ \A o \in Orders : IsPending(o) => trades[o] = 0
  /\ \A o \in Orders : BlankIsUntouched(o)
  /\ \A w \in Workers, o \in Orders : AloneAtCheck(w, o)

LEMMA BlankIsNew == Blank.status = "new" /\ "new" \notin Pending
BY DEF Blank, Pending

\* A step that makes no trade, and takes nothing up.
LEMMA QuietKeepsTradedOnce ==
  ASSUME TradedOnce, UNCHANGED trades,
         \A p \in Orders : orders'[p] = Blank => orders[p] = Blank,
         \A p \in Orders : IsPending(p)' => IsPending(p) \/ trades[p] = 0,
         \A p \in Orders : p \in Loaded' => p \in Loaded \/ orders[p] # Blank,
         \A v \in Workers : work'[v] = work[v] \/ work'[v].step = "idle"
  PROVE  TradedOnce'
<1>1. \A v \in Workers, p \in Orders : Has(v, p)' => Has(v, p)
  BY DEF Has
<1>2. \A v \in Workers, p \in Orders : At(v, "checked", p)' => At(v, "checked", p)
  BY DEF At
<1> QED
  BY <1>1, <1>2 DEF TradedOnce, FillsOnce, BlankIsUntouched, AloneAtCheck

\* A step in which w goes on with the order it has.
LEMMA ProgressKeepsTradedOnce ==
  ASSUME TradedOnce, NEW w \in Workers, NEW o \in Orders, Has(w, o),
         work'[w].order = o \/ work'[w].step = "idle", work'[w].step # "checked",
         \A v \in Workers \ {w} : work'[v] = work[v],
         trades' = trades \/ (At(w, "checked", o) /\ trades' = [trades EXCEPT ![o] = @ + 1]
                              /\ ~IsPending(o)'),
         trades \in [Orders -> Nat],
         orders'[o] # Blank, \A p \in Orders \ {o} : orders'[p] = orders[p],
         IsPending(o)' => IsPending(o) \/ At(w, "checked", o),
         \A p \in Orders : p \in Loaded' => p \in Loaded
  PROVE  TradedOnce'
<1>1. \A v \in Workers, p \in Orders : Has(v, p)' => Has(v, p)
  BY DEF Has
<1>2. \A v \in Workers, p \in Orders : At(v, "checked", p)' => At(v, "checked", p) /\ v # w
  BY DEF At
<1>3. \A p \in Orders \ {o} : trades'[p] = trades[p]
  OBVIOUS
<1>4. At(w, "checked", o) => trades[o] = 0 /\ \A v \in Workers \ {w} : ~At(v, "checked", o)
  BY DEF TradedOnce, AloneAtCheck
<1>5. trades'[o] \in {trades[o], 1} /\ trades'[o] <= 1 /\ (trades'[o] = trades[o] \/ At(w, "checked", o))
  BY <1>4 DEF TradedOnce, FillsOnce
<1>6. \A p \in Orders : IsPending(p)' => trades'[p] = 0
  <2>1. \A p \in Orders \ {o} : IsPending(p)' => trades'[p] = 0
    BY <1>3 DEF TradedOnce, IsPending
  <2>2. IsPending(o)' => trades'[o] = 0
    BY <1>4 DEF TradedOnce
  <2> QED
    BY <2>1, <2>2
<1>7. \A p \in Orders : BlankIsUntouched(p)'
  BY <1>1, <1>3 DEF TradedOnce, BlankIsUntouched
<1>8. ASSUME NEW v \in Workers, NEW p \in Orders, At(v, "checked", p)'
      PROVE  trades'[p] = 0 /\ \A u \in Workers \ {v} : ~At(u, "checked", p)'
  <2>1. At(v, "checked", p) /\ v # w
    BY <1>2, <1>8
  <2>2. trades[p] = 0 /\ \A u \in Workers \ {v} : ~At(u, "checked", p)
    BY <2>1 DEF TradedOnce, AloneAtCheck
  <2>3. trades'[p] = 0
    BY <1>3, <1>4, <1>5, <2>1, <2>2
  <2> QED
    BY <1>2, <2>2, <2>3
<1>9. FillsOnce'
  BY <1>3, <1>5 DEF TradedOnce, FillsOnce
<1> QED
  BY <1>6, <1>7, <1>8, <1>9 DEF TradedOnce, AloneAtCheck

LEMMA RequestKeepsTradedOnce ==
  ASSUME Sound, TradedOnce, NEW o \in Orders, Request(o)
  PROVE  TradedOnce'
<1>1. orders \in [Orders -> Order] /\ ThreadsTyped
  BY DEF Sound, RowsTyped
<1>2. IsPending(o) => orders[o] # Blank
  BY BlankIsNew DEF IsPending
<1>3. ASSUME NEW side \in Sides, NEW qty \in Quantities, NEW w \in Requests,
             NEW status \in Pending, Places(w, o, side, qty, status)
      PROVE  TradedOnce'
  <2>1. orders[o] = Blank /\ trades[o] = 0 /\ o \notin Loaded /\ \A v \in Workers : ~Has(v, o)
    BY <1>3 DEF Places, Accepts, TradedOnce, BlankIsUntouched
  <2>2. /\ Sensible(Job("checked", o, status, Flat))
        /\ Job("checked", o, status, Flat).step = "checked"
        /\ Job("checked", o, status, Flat).order = o
    BY JobIsSensible, FlatIsLots DEF Steps, Statuses
  <2>3. w \in Workers
    BY DEF Workers
  <2>4. /\ work'[w].step = "checked" /\ work'[w].order = o
        /\ \A v \in Workers \ {w} : work'[v] = work[v]
    BY <1>1, <1>3, <2>2, <2>3, BecomesIsTyped DEF Places
  <2>5. /\ orders'[o] # Blank
        /\ \A p \in Orders \ {o} : orders'[p] = orders[p]
    BY <1>1, <1>3, BlankIsNew DEF Places, Row
  <2>6. \A v \in Workers, p \in Orders : Has(v, p)' => Has(v, p) \/ p = o
    BY <2>4 DEF Has
  <2>7. ASSUME NEW v \in Workers, NEW p \in Orders, At(v, "checked", p)'
        PROVE  trades'[p] = 0 /\ \A u \in Workers \ {v} : ~At(u, "checked", p)'
    <3>1. CASE p = o
      <4>1. \A u \in Workers \ {w} : ~At(u, "checked", o)'
        BY <2>1, <2>4 DEF At, Has
      <4> QED
        BY <1>3, <2>1, <2>7, <3>1, <4>1 DEF Places
    <3>2. CASE p # o
      <4>1. ~At(w, "checked", p)' /\ At(v, "checked", p)
        BY <2>4, <2>7, <3>2 DEF At
      <4>2. trades[p] = 0 /\ \A u \in Workers \ {v} : ~At(u, "checked", p)
        BY <4>1 DEF TradedOnce, AloneAtCheck
      <4> QED
        BY <1>3, <2>4, <4>1, <4>2 DEF Places, At
    <3> QED
      BY <3>1, <3>2
  <2>8. \A p \in Orders : IsPending(p)' => trades'[p] = 0
    BY <1>3, <2>1, <2>5 DEF Places, TradedOnce, IsPending
  <2>9. \A p \in Orders : BlankIsUntouched(p)'
    BY <1>3, <2>5, <2>6 DEF Places, TradedOnce, BlankIsUntouched, Loaded
  <2> QED
    BY <1>3, <2>7, <2>8, <2>9 DEF Places, TradedOnce, AloneAtCheck, FillsOnce
<1>4. ASSUME NEW side \in Sides, NEW qty \in Quantities, PlaceBreaks(o, side, qty)
      PROVE  TradedOnce'
  BY <1>4, QuietKeepsTradedOnce DEF PlaceBreaks, IsPending, Loaded
<1>5. ASSUME NEW qty \in Quantities, Modify(o, qty)
      PROVE  TradedOnce'
  <2>1. /\ orders'[o].status = orders[o].status
        /\ \A p \in Orders \ {o} : orders'[p] = orders[p]
    BY <1>1, <1>5 DEF Modify, Order
  <2>2. orders'[o] # Blank
    BY <1>5, <2>1, BlankIsNew DEF Modify, IsPending
  <2> QED
    BY <1>2, <1>5, <2>1, <2>2, QuietKeepsTradedOnce DEF Modify, IsPending, Loaded
<1>6. ASSUME Cancel(o)
      PROVE  TradedOnce'
  <2>1. /\ orders'[o].status = "cancelled"
        /\ \A p \in Orders \ {o} : orders'[p] = orders[p]
    BY <1>1, <1>6 DEF Cancel, Order
  <2>2. orders'[o] # Blank /\ ~IsPending(o)'
    BY <2>1, BlankIsNew DEF IsPending, Pending
  <2> QED
    BY <1>2, <1>6, <2>1, <2>2, QuietKeepsTradedOnce DEF Cancel, IsPending, Loaded
<1> QED
  BY <1>3, <1>4, <1>5, <1>6 DEF Request

LEMMA EvaluationKeepsTradedOnce ==
  ASSUME ChecksApart, Sound, TradedOnce, NEW o \in Orders, Evaluation(o)
  PROVE  TradedOnce'
<1>1. /\ orders \in [Orders -> Order] /\ session \in [Orders -> Copies] /\ ThreadsTyped
      /\ Without(o) = [session EXCEPT ![o] = "none"]
      /\ [session EXCEPT ![o] = "none"] \in [Orders -> Copies]
  BY WithoutIsTyped DEF Sound, RowsTyped, EnginesTyped
<1>2. CASE TickForgets(o)
  BY <1>2, QuietKeepsTradedOnce DEF TickForgets, IsPending, Loaded
<1>3. CASE CycleSkips(o)
  BY <1>1, <1>3, QuietKeepsTradedOnce DEF CycleSkips, IsPending, Loaded
<1>4. ASSUME NEW w \in Engines, Checks(w, o)
      PROVE  TradedOnce'
  <2>1. trades[o] = 0 /\ \A v \in Workers \ {w} : ~At(v, "checked", o)
    BY <1>4 DEF Checks, Unchecked, ChecksApart
  <2>2. orders[o] # Blank
    BY <1>4, BlankIsNew DEF Checks, Offered, IsPending, TradedOnce, BlankIsUntouched
  <2>3. /\ Sensible(Job("checked", o, Read(w, o), Flat))
        /\ Job("checked", o, Read(w, o), Flat).step = "checked"
        /\ Job("checked", o, Read(w, o), Flat).order = o
    BY <1>4, JobIsSensible, FlatIsLots, ReadIsStatus DEF Steps, Checks, Sound
  <2>4. /\ work'[w].step = "checked" /\ work'[w].order = o
        /\ \A v \in Workers \ {w} : work'[v] = work[v]
    BY <1>1, <1>4, <2>3, BecomesIsTyped DEF Checks, Workers
  <2>5. \A v \in Workers, p \in Orders : Has(v, p)' => Has(v, p) \/ p = o
    BY <2>4 DEF Has
  <2>6. \A p \in Orders : p \in Loaded' => p \in Loaded
    BY <1>1, <1>4 DEF Checks, Loaded
  <2>7. ASSUME NEW v \in Workers, NEW p \in Orders, At(v, "checked", p)'
        PROVE  trades'[p] = 0 /\ \A u \in Workers \ {v} : ~At(u, "checked", p)'
    <3>1. CASE p = o
      BY <1>4, <2>1, <2>4, <2>7, <3>1 DEF At, Checks
    <3>2. CASE p # o
      <4>1. ~At(w, "checked", p)' /\ At(v, "checked", p)
        BY <2>4, <2>7, <3>2 DEF At
      <4>2. trades[p] = 0 /\ \A u \in Workers \ {v} : ~At(u, "checked", p)
        BY <4>1 DEF TradedOnce, AloneAtCheck
      <4> QED
        BY <1>4, <2>4, <4>1, <4>2 DEF Checks, At
    <3> QED
      BY <3>1, <3>2
  <2>8. \A p \in Orders : BlankIsUntouched(p)'
    BY <1>4, <2>2, <2>5, <2>6 DEF Checks, TradedOnce, BlankIsUntouched
  <2> QED
    BY <1>4, <2>7, <2>8 DEF Checks, TradedOnce, AloneAtCheck, FillsOnce, IsPending
<1>5. ASSUME NEW w \in Engines, FindsTrade(w, o)
      PROVE  TradedOnce'
  <2>1. CASE Read(w, o) = "open"
    <3>1. /\ orders'[o].status = "complete"
          /\ \A p \in Orders \ {o} : orders'[p] = orders[p]
      BY <1>1, <1>5, <2>1 DEF FindsTrade, Order
    <3>2. orders'[o] # Blank /\ ~IsPending(o)'
      BY <3>1, BlankIsNew DEF IsPending, Pending
    <3>3. \A p \in Orders : p \in Loaded' => p \in Loaded
      BY <1>1, <1>5, <2>1, ExpiresIsTyped DEF FindsTrade, Loaded, Workers
    <3> QED
      BY <1>5, <3>1, <3>2, <3>3, QuietKeepsTradedOnce DEF FindsTrade, IsPending
  <2>2. CASE Read(w, o) # "open"
    BY <1>1, <1>5, <2>2, QuietKeepsTradedOnce DEF FindsTrade, IsPending, Loaded
  <2> QED
    BY <2>1, <2>2
<1> QED
  BY <1>2, <1>3, <1>4, <1>5 DEF Evaluation

LEMMA GoingOnKeepsTradedOnce ==
  ASSUME Sound, TradedOnce, NEW w \in Workers, NEW o \in Orders, GoesOn(w, o)
  PROVE  TradedOnce'
<1>1. /\ orders \in [Orders -> Order] /\ trades \in [Orders -> Nat] /\ ThreadsTyped
      /\ session \in [Orders -> Copies]
  BY DEF Sound, RowsTyped, EnginesTyped
<1>2. Has(w, o) /\ orders[o] # Blank
  <2>1. Has(w, o)
    BY DEF GoesOn, Passes, Triggers, TradeCommits, TradeFails, Executable, Pays, FillFails,
           Nets, Reconciles, At, Has
  <2> QED
    BY <2>1 DEF TradedOnce, BlankIsUntouched
<1>3. ASSUME NEW rests, Ends(w, o, rests)
      PROVE  work'[w].step = "idle" /\ \A v \in Workers \ {w} : work'[v] = work[v]
  BY <1>1, <1>3, IdleIsJob, IdleIsSensible, BecomesIsTyped DEF Ends
<1>4. Expires(w, session) => \A p \in Orders : p \in Loaded' => p \in Loaded
  BY <1>1, ExpiresIsTyped DEF Loaded
<1>5. ASSUME NEW status \in Statuses, Marked(o, status), status # "new"
      PROVE  /\ orders'[o].status = status /\ orders'[o] # Blank
             /\ \A p \in Orders \ {o} : orders'[p] = orders[p]
  BY <1>1, <1>5, MarkedIsTyped, BlankIsNew
<1>6. ASSUME NEW step \in Steps, NEW after \in Lots, Becomes(w, Job(step, o, "new", after))
      PROVE  /\ work'[w].step = step /\ work'[w].order = o
             /\ \A v \in Workers \ {w} : work'[v] = work[v]
  <2>1. "new" \in Statuses
    BY DEF Statuses
  <2> QED
    BY <1>1, <1>6, <2>1, JobIsSensible, BecomesIsTyped
<1>7. /\ "open" \in Statuses /\ "rejected" \in Statuses /\ "complete" \in Statuses
      /\ "rejected" \notin Pending /\ "complete" \notin Pending
      /\ "traded" \in Steps /\ "paid" \in Steps /\ "netted" \in Steps
  BY DEF Statuses, Pending, Steps
<1>8. CASE Passes(w, o)
  BY <1>1, <1>2, <1>3, <1>8, ProgressKeepsTradedOnce DEF Passes, IsPending, Loaded
<1>9. CASE Triggers(w, o)
  <2>1. At(w, "checked", o)
    BY <1>9 DEF Triggers
  <2> QED
    BY <1>1, <1>2, <1>3, <1>4, <1>5, <1>7, <1>9, <2>1, ProgressKeepsTradedOnce DEF Triggers
<1>10. CASE TradeCommits(w, o)
  <2>1. At(w, "checked", o)
    BY <1>10 DEF TradeCommits, Executable
  <2>2. ~IsPending(o)'
    BY <1>5, <1>7, <1>10 DEF TradeCommits, IsPending
  <2> QED
    BY <1>1, <1>2, <1>4, <1>5, <1>6, <1>7, <1>10, <2>1, <2>2, FlatIsLots, ProgressKeepsTradedOnce
    DEF TradeCommits
<1>11. CASE TradeFails(w, o)
  <2>1. At(w, "checked", o)
    BY <1>11 DEF TradeFails, Executable
  <2>2. orders'[o] # Blank /\ \A p \in Orders \ {o} : orders'[p] = orders[p]
    BY <1>2, <1>5, <1>7, <1>11 DEF TradeFails
  <2> QED
    BY <1>1, <1>2, <1>3, <1>4, <1>11, <2>1, <2>2, ProgressKeepsTradedOnce DEF TradeFails
<1>12. CASE Pays(w, o)
  <2>1. orders[o] \in Order /\ orders[o].qty \in Nat /\ position \in [qty : Int, margin : Nat]
    BY <1>1, QuantityIsNat DEF Order, Sound, RowsTyped, Lots
  <2>2. Netted(orders[o], orders[o].qty) \in Lots
    BY <2>1, NettedIsTyped DEF Lots
  <2>3. Becomes(w, Job("paid", o, "new", Netted(orders[o], orders[o].qty)))
    BY <1>12 DEF Pays
  <2>4. /\ work'[w].step = "paid" /\ work'[w].order = o
        /\ \A v \in Workers \ {w} : work'[v] = work[v]
    BY <1>6, <1>7, <2>2, <2>3
  <2> QED
    BY <1>1, <1>2, <1>4, <1>12, <2>4, ProgressKeepsTradedOnce DEF Pays, IsPending
<1>13. CASE FillFails(w, o)
  <2>1. \/ /\ orders'[o] # Blank /\ ~IsPending(o)'
           /\ \A p \in Orders \ {o} : orders'[p] = orders[p]
        \/ orders' = orders
    BY <1>5, <1>7, <1>13 DEF FillFails, IsPending
  <2> QED
    BY <1>1, <1>2, <1>3, <1>4, <1>13, <2>1, ProgressKeepsTradedOnce DEF FillFails, IsPending
<1>14. CASE Nets(w, o)
  BY <1>1, <1>2, <1>4, <1>6, <1>7, <1>14, FlatIsLots, ProgressKeepsTradedOnce DEF Nets, IsPending
<1>15. CASE Reconciles(w, o)
  BY <1>1, <1>2, <1>3, <1>4, <1>15, ProgressKeepsTradedOnce DEF Reconciles, IsPending
<1> QED
  BY <1>8, <1>9, <1>10, <1>11, <1>12, <1>13, <1>14, <1>15 DEF GoesOn

LEMMA StepKeepsTradedOnce == ChecksApart /\ Sound /\ TradedOnce /\ [Next]_vars => TradedOnce'
<1> SUFFICES ASSUME ChecksApart, Sound, TradedOnce, [Next]_vars
             PROVE  TradedOnce'
  OBVIOUS
<1>1. CASE CycleReads
  <2>1. \A p \in Orders : p \in Loaded' => orders[p] # Blank
    BY <1>1, BlankIsNew DEF CycleReads, Loaded, IsPending
  <2> QED
    BY <1>1, <2>1, QuietKeepsTradedOnce DEF CycleReads, IsPending
<1>2. CASE Restart
  BY <1>2, IdleIsJob, QuietKeepsTradedOnce DEF Restart, IsPending, Loaded
<1>3. CASE FeedLost \/ FeedBack \/ UNCHANGED vars
  BY <1>3, QuietKeepsTradedOnce DEF FeedLost, FeedBack, vars, IsPending, Loaded
<1> QED
  BY <1>1, <1>2, <1>3, RequestKeepsTradedOnce, EvaluationKeepsTradedOnce, GoingOnKeepsTradedOnce
  DEF Next

LEMMA AlwaysTradedOnce == ChecksApart => (Spec => []TradedOnce)
<1>1. Init => TradedOnce
  BY BlankIsNew, IdleIsJob
  DEF Init, TradedOnce, FillsOnce, BlankIsUntouched, AloneAtCheck, At, Has, IsPending, Loaded
<1>2. ASSUME ChecksApart
      PROVE  Spec => []TradedOnce
  BY <1>1, <1>2, StepKeepsTradedOnce, AlwaysSound, PTL DEF Spec
<1> QED
  BY <1>2

\* Ticks, cycles and placements that check, commit, fail and are restarted in any
\* order, on orders that change under them: while no two of them are between the
\* check for a trade and its commit with the same order, none is traded twice.
THEOREM NeverTradedTwice ==
  ASSUME ChecksApart
  PROVE  Spec => []FillsOnce
<1>1. TradedOnce => FillsOnce
  BY DEF TradedOnce
<1> QED
  BY <1>1, AlwaysTradedOnce, PTL

-----------------------------------------------------------------------------
(***************************************************************************)
(* No order is changed under a thread that has read it: what is at hand    *)
(* rests until it is traded, and what the cycle has read rests or has      *)
(* been traded by a tick.                                                  *)
(***************************************************************************)

\* The assumption of the theorems on the index and on the contract.
Undisturbed == "changedUnderway" \notin Admitted /\ ChecksApart

RestsAtCheck(w, o) == At(w, "checked", o) => IsPending(o)

Fresh(o) == o \in Loaded => IsPending(o) \/ (orders[o].status = "complete" /\ trades[o] > 0)

AtHand ==
  /\ \A w \in Workers, o \in Orders : RestsAtCheck(w, o)
  /\ \A o \in Orders : Fresh(o)

Book == Sound /\ TradedOnce /\ AtHand

\* A step that touches one order, and gives nobody another one to go on with.
LEMMA TouchKeepsAtHand ==
  ASSUME AtHand, NEW o \in Orders,
         \A p \in Orders \ {o} : orders'[p] = orders[p] /\ trades'[p] = trades[p],
         \A p \in Orders \ {o} : p \in Loaded' => p \in Loaded,
         \A v \in Workers, p \in Orders \ {o} : At(v, "checked", p)' => At(v, "checked", p),
         Fresh(o)', \A v \in Workers : RestsAtCheck(v, o)'
  PROVE  AtHand'
<1>1. ASSUME NEW p \in Orders \ {o}
      PROVE  Fresh(p)' /\ \A v \in Workers : RestsAtCheck(v, p)'
  BY <1>1 DEF AtHand, Fresh, RestsAtCheck, IsPending
<1> QED
  BY <1>1 DEF AtHand

\* A step that leaves the orders, their trades and what is at hand alone.
LEMMA QuietKeepsAtHand ==
  ASSUME AtHand, UNCHANGED <<orders, trades>>,
         \A p \in Orders : p \in Loaded' => p \in Loaded \/ IsPending(p),
         \A v \in Workers : work'[v] = work[v] \/ work'[v].step # "checked"
  PROVE  AtHand'
<1>1. \A v \in Workers, p \in Orders : At(v, "checked", p)' => At(v, "checked", p)
  BY DEF At
<1> QED
  BY <1>1 DEF AtHand, Fresh, RestsAtCheck, IsPending

LEMMA TakenStep ==
  ASSUME Sound, NEW o \in Orders, NEW w \in Requests, NEW side \in Sides,
         NEW qty \in Quantities, NEW status \in Pending, Places(w, o, side, qty, status)
  PROVE  /\ work'[w] = Job("checked", o, status, Flat)
         /\ work'[w].step = "checked" /\ work'[w].order = o
         /\ \A v \in Workers \ {w} : work'[v] = work[v]
         /\ orders'[o].status = status /\ orders'[o].side = side /\ orders'[o].qty = qty
         /\ \A p \in Orders \ {o} : orders'[p] = orders[p]
<1>1. /\ Sensible(Job("checked", o, status, Flat))
      /\ Job("checked", o, status, Flat).step = "checked"
      /\ Job("checked", o, status, Flat).order = o
  BY JobIsSensible, FlatIsLots DEF Steps, Statuses
<1>2. w \in Workers /\ ThreadsTyped /\ orders \in [Orders -> Order]
  BY DEF Workers, Sound, RowsTyped
<1>3. /\ work'[w] = Job("checked", o, status, Flat)
      /\ \A v \in Workers \ {w} : work'[v] = work[v]
  BY <1>1, <1>2, BecomesIsTyped DEF Places
<1>4. /\ orders'[o] = Row(status, side, qty, Needed(side, qty))
      /\ \A p \in Orders \ {o} : orders'[p] = orders[p]
  BY <1>2 DEF Places
<1> QED
  BY <1>1, <1>3, <1>4 DEF Row

LEMMA CheckedStep ==
  ASSUME Sound, NEW w \in Engines, NEW o \in Orders, Checks(w, o)
  PROVE  /\ work'[w].step = "checked" /\ work'[w].order = o
         /\ \A v \in Workers \ {w} : work'[v] = work[v]
         /\ \A p \in Orders : p \in Loaded' => p \in Loaded
<1>1. /\ Sensible(Job("checked", o, Read(w, o), Flat))
      /\ Job("checked", o, Read(w, o), Flat).step = "checked"
      /\ Job("checked", o, Read(w, o), Flat).order = o
  BY JobIsSensible, FlatIsLots, ReadIsStatus DEF Steps, Checks, Sound
<1>2. w \in Workers /\ ThreadsTyped /\ session \in [Orders -> Copies]
  BY DEF Workers, Sound, EnginesTyped
<1>3. /\ work'[w] = Job("checked", o, Read(w, o), Flat)
      /\ \A v \in Workers \ {w} : work'[v] = work[v]
  BY <1>1, <1>2, BecomesIsTyped DEF Checks
<1>4. \A p \in Orders : p \in Loaded' => p \in Loaded
  BY <1>2, WithoutIsTyped DEF Checks, Loaded
<1> QED
  BY <1>1, <1>3, <1>4

\* What is true of a thread that goes on with an order.
LEMMA GoingStep ==
  ASSUME Sound, NEW w \in Workers, NEW o \in Orders
  PROVE  /\ GoesOn(w, o) => Has(w, o) /\ \A p \in Orders : p \in Loaded' => p \in Loaded
         /\ \A rests : Ends(w, o, rests) => /\ work'[w].step = "idle"
                                            /\ \A v \in Workers \ {w} : work'[v] = work[v]
         /\ \A status \in Statuses :
              Marked(o, status) => /\ orders'[o].status = status
                                   /\ orders'[o].side = orders[o].side
                                   /\ orders'[o].qty = orders[o].qty
                                   /\ \A p \in Orders \ {o} : orders'[p] = orders[p]
         /\ \A step \in Steps, after \in Lots :
              Becomes(w, Job(step, o, "new", after)) =>
                /\ work'[w].step = step /\ work'[w].order = o /\ work'[w].after = after
                /\ \A v \in Workers \ {w} : work'[v] = work[v]
<1>1. ThreadsTyped /\ session \in [Orders -> Copies] /\ orders \in [Orders -> Order]
  BY DEF Sound, EnginesTyped, RowsTyped
<1>2. ASSUME GoesOn(w, o)
      PROVE  Has(w, o) /\ \A p \in Orders : p \in Loaded' => p \in Loaded
  <2>1. Has(w, o)
    BY <1>2 DEF GoesOn, Passes, Triggers, TradeCommits, TradeFails, Executable, Pays, FillFails,
                Nets, Reconciles, At, Has
  <2>2. Expires(w, session) \/ UNCHANGED session
    BY <1>2 DEF GoesOn, Passes, Triggers, TradeCommits, TradeFails, Pays, FillFails, Nets,
                Reconciles
  <2>3. Expires(w, session) => \A p \in Orders : p \in Loaded' => p \in Loaded
    BY <1>1, ExpiresIsTyped DEF Loaded
  <2> QED
    BY <2>1, <2>2, <2>3 DEF Loaded
<1>3. ASSUME NEW rests, Ends(w, o, rests)
      PROVE  work'[w].step = "idle" /\ \A v \in Workers \ {w} : work'[v] = work[v]
  BY <1>1, <1>3, IdleIsJob, IdleIsSensible, BecomesIsTyped DEF Ends
<1>4. ASSUME NEW step \in Steps, NEW after \in Lots, Becomes(w, Job(step, o, "new", after))
      PROVE  /\ work'[w].step = step /\ work'[w].order = o /\ work'[w].after = after
             /\ \A v \in Workers \ {w} : work'[v] = work[v]
  <2>1. "new" \in Statuses
    BY DEF Statuses
  <2> QED
    BY <1>1, <1>4, <2>1, JobIsSensible, BecomesIsTyped
<1>5. ASSUME NEW status \in Statuses, Marked(o, status)
      PROVE  /\ orders'[o].status = status
             /\ orders'[o].side = orders[o].side
             /\ orders'[o].qty = orders[o].qty
             /\ \A p \in Orders \ {o} : orders'[p] = orders[p]
  BY <1>1, <1>5, MarkedIsTyped
<1> QED
  BY <1>2, <1>3, <1>4, <1>5

\* An order found traded is complete already, and only the cycle finds one.
LEMMA FoundIsComplete ==
  ASSUME Book, NEW w \in Engines, NEW o \in Orders, FindsTrade(w, o)
  PROVE  w = "cycle" /\ o \in Loaded /\ orders[o].status = "complete" /\ ~IsPending(o)
<1>1. ~IsPending(o)
  BY DEF FindsTrade, Book, TradedOnce
<1>2. w = "cycle" /\ o \in Loaded
  BY <1>1 DEF FindsTrade, Offered
<1> QED
  BY <1>1, <1>2 DEF Book, AtHand, Fresh

LEMMA FoundStep ==
  ASSUME Book, NEW w \in Engines, NEW o \in Orders, FindsTrade(w, o)
  PROVE  /\ orders' = orders /\ UNCHANGED <<trades, position, funds, feed, work>>
         /\ \A p \in Orders : p \in Loaded' => p \in Loaded
<1>1. /\ session \in [Orders -> Copies] /\ orders \in [Orders -> Order]
      /\ Without(o) = [session EXCEPT ![o] = "none"]
      /\ [session EXCEPT ![o] = "none"] \in [Orders -> Copies]
  BY WithoutIsTyped DEF Book, Sound, RowsTyped, EnginesTyped
<1>2. w = "cycle" /\ orders[o].status = "complete"
  BY FoundIsComplete
<1>3. [orders EXCEPT ![o].status = "complete"] = orders
  BY <1>1, <1>2 DEF Order
<1>4. CASE Read(w, o) = "open"
  <2>1. UNCHANGED feed
    BY <1>2, <1>4, OrdersAssumption DEF FindsTrade, Tells, Told, Engines
  <2>2. \A p \in Orders : p \in Loaded' => p \in Loaded
    BY <1>1, <1>4, ExpiresIsTyped DEF FindsTrade, Loaded, Workers
  <2> QED
    BY <1>3, <1>4, <2>1, <2>2 DEF FindsTrade
<1>5. CASE Read(w, o) # "open"
  BY <1>1, <1>5 DEF FindsTrade, Loaded
<1> QED
  BY <1>4, <1>5

LEMMA RequestKeepsAtHand ==
  ASSUME Undisturbed, Book, NEW o \in Orders, Request(o)
  PROVE  AtHand'
<1>1. AtHand /\ Sound
  BY DEF Book
<1>2. ASSUME NEW side \in Sides, NEW qty \in Quantities, NEW w \in Requests,
             NEW status \in Pending, Places(w, o, side, qty, status)
      PROVE  AtHand'
  <2>1. /\ work'[w].step = "checked" /\ work'[w].order = o
        /\ \A v \in Workers \ {w} : work'[v] = work[v]
        /\ orders'[o].status = status
        /\ \A p \in Orders \ {o} : orders'[p] = orders[p]
    BY <1>1, <1>2, TakenStep
  <2>2. IsPending(o)'
    BY <2>1 DEF IsPending
  <2>3. \A v \in Workers, p \in Orders \ {o} : At(v, "checked", p)' => At(v, "checked", p)
    BY <2>1 DEF At
  <2> QED
    BY <1>1, <1>2, <2>1, <2>2, <2>3, TouchKeepsAtHand DEF Places, Loaded, Fresh, RestsAtCheck
<1>3. ASSUME NEW side \in Sides, NEW qty \in Quantities, PlaceBreaks(o, side, qty)
      PROVE  AtHand'
  BY <1>1, <1>3, QuietKeepsAtHand DEF PlaceBreaks, Loaded
<1>4. ASSUME \/ \E qty \in Quantities : Modify(o, qty)
             \/ Cancel(o)
      PROVE  AtHand'
  <2>1. /\ o \notin Loaded /\ \A v \in Workers : ~Has(v, o)
        /\ UNCHANGED <<trades, session, work>>
    BY <1>4 DEF Modify, Cancel, Settled, Undisturbed
  <2>2. \A p \in Orders \ {o} : orders'[p] = orders[p]
    BY <1>1, <1>4 DEF Modify, Cancel, Sound, RowsTyped
  <2>3. Fresh(o)' /\ \A v \in Workers : RestsAtCheck(v, o)'
    BY <2>1 DEF Fresh, RestsAtCheck, Loaded, At, Has
  <2> QED
    BY <1>1, <2>1, <2>2, <2>3, TouchKeepsAtHand DEF Loaded, At
<1> QED
  BY <1>2, <1>3, <1>4 DEF Request

LEMMA EvaluationKeepsAtHand ==
  ASSUME Undisturbed, Book, NEW o \in Orders, Evaluation(o)
  PROVE  AtHand'
<1>1. AtHand /\ Sound
  BY DEF Book
<1>2. CASE TickForgets(o)
  BY <1>1, <1>2, QuietKeepsAtHand DEF TickForgets, Loaded
<1>3. CASE CycleSkips(o)
  BY <1>1, <1>3, WithoutIsTyped, QuietKeepsAtHand DEF CycleSkips, Loaded, Sound, EnginesTyped
<1>4. ASSUME NEW w \in Engines, Checks(w, o)
      PROVE  AtHand'
  <2>1. /\ work'[w].step = "checked" /\ work'[w].order = o
        /\ \A v \in Workers \ {w} : work'[v] = work[v]
        /\ \A p \in Orders : p \in Loaded' => p \in Loaded
        /\ UNCHANGED <<orders, trades>> /\ trades[o] = 0
    BY <1>1, <1>4, CheckedStep DEF Checks
  <2>2. IsPending(o)
    BY <1>1, <1>4, <2>1 DEF Checks, Offered, AtHand, Fresh
  <2>3. \A v \in Workers, p \in Orders \ {o} : At(v, "checked", p)' => At(v, "checked", p)
    BY <2>1 DEF At
  <2>4. IsPending(o)'
    BY <2>1, <2>2 DEF IsPending
  <2> QED
    BY <1>1, <2>1, <2>3, <2>4, TouchKeepsAtHand DEF Fresh, RestsAtCheck
<1>5. ASSUME NEW w \in Engines, FindsTrade(w, o)
      PROVE  AtHand'
  BY <1>1, <1>5, FoundStep, QuietKeepsAtHand
<1> QED
  BY <1>2, <1>3, <1>4, <1>5 DEF Evaluation

LEMMA GoingOnKeepsAtHand ==
  ASSUME Undisturbed, Book, NEW w \in Workers, NEW o \in Orders, GoesOn(w, o)
  PROVE  AtHand'
<1>1. AtHand /\ Sound /\ trades \in [Orders -> Nat]
  BY DEF Book, Sound, RowsTyped
<1>2. Has(w, o) /\ \A p \in Orders : p \in Loaded' => p \in Loaded
  BY <1>1, GoingStep
<1>3. /\ "open" \in Statuses /\ "rejected" \in Statuses /\ "complete" \in Statuses
      /\ "open" \in Pending
      /\ "traded" \in Steps /\ "paid" \in Steps /\ "netted" \in Steps
  BY DEF Statuses, Pending, Steps
<1>4. ASSUME UNCHANGED <<orders, trades>>, work'[w].step # "checked",
             \A v \in Workers \ {w} : work'[v] = work[v]
      PROVE  AtHand'
  BY <1>1, <1>2, <1>4, QuietKeepsAtHand
<1>5. ASSUME Undisturbing(w, o), Marked(o, "rejected"), UNCHANGED trades,
             work'[w].step = "idle", \A v \in Workers \ {w} : work'[v] = work[v]
      PROVE  AtHand'
  <2>1. o \notin Loaded /\ \A v \in Workers \ {w} : ~Has(v, o)
    BY <1>5 DEF Undisturbing, Undisturbed
  <2>2. \A p \in Orders \ {o} : orders'[p] = orders[p]
    BY <1>1, <1>3, <1>5, GoingStep
  <2>3. \A v \in Workers, p \in Orders : At(v, "checked", p)' => At(v, "checked", p) /\ v # w
    BY <1>5 DEF At
  <2>4. Fresh(o)' /\ \A v \in Workers : RestsAtCheck(v, o)'
    BY <1>2, <2>1, <2>3 DEF Fresh, RestsAtCheck, At, Has
  <2> QED
    BY <1>1, <1>2, <1>5, <2>2, <2>3, <2>4, TouchKeepsAtHand
<1>6. CASE Passes(w, o)
  BY <1>1, <1>4, <1>6, GoingStep DEF Passes
<1>7. CASE Triggers(w, o)
  <2>1. /\ orders'[o].status = "open" /\ work'[w].step = "idle"
        /\ \A p \in Orders \ {o} : orders'[p] = orders[p]
        /\ \A v \in Workers \ {w} : work'[v] = work[v]
    BY <1>1, <1>3, <1>7, GoingStep DEF Triggers
  <2>2. IsPending(o)'
    BY <1>3, <2>1 DEF IsPending
  <2>3. \A v \in Workers, p \in Orders : At(v, "checked", p)' => At(v, "checked", p)
    BY <2>1 DEF At
  <2> QED
    BY <1>1, <1>2, <1>7, <2>1, <2>2, <2>3, TouchKeepsAtHand DEF Triggers, Fresh, RestsAtCheck
<1>8. CASE TradeCommits(w, o)
  <2>1. /\ orders'[o].status = "complete" /\ work'[w].step = "traded"
        /\ \A p \in Orders \ {o} : orders'[p] = orders[p]
        /\ \A v \in Workers \ {w} : work'[v] = work[v]
    BY <1>1, <1>3, <1>8, FlatIsLots, GoingStep DEF TradeCommits
  <2>2. At(w, "checked", o) /\ trades' = [trades EXCEPT ![o] = @ + 1]
    BY <1>8 DEF TradeCommits, Executable
  <2>3. trades'[o] > 0 /\ \A p \in Orders \ {o} : trades'[p] = trades[p]
    BY <1>1, <2>2
  <2>4. \A v \in Workers, p \in Orders : At(v, "checked", p)' => At(v, "checked", p) /\ v # w
    BY <2>1 DEF At
  <2>5. \A v \in Workers \ {w} : ~At(v, "checked", o)
    BY <2>2 DEF Book, TradedOnce, AloneAtCheck
  <2>6. Fresh(o)' /\ \A v \in Workers : RestsAtCheck(v, o)'
    BY <2>1, <2>3, <2>4, <2>5 DEF Fresh, RestsAtCheck
  <2> QED
    BY <1>1, <1>2, <2>1, <2>3, <2>4, <2>6, TouchKeepsAtHand
<1>9. CASE TradeFails(w, o)
  <2>1. \E rests : Ends(w, o, rests)
    BY <1>9 DEF TradeFails
  <2>2. work'[w].step = "idle" /\ \A v \in Workers \ {w} : work'[v] = work[v]
    BY <1>1, <2>1, GoingStep
  <2> QED
    BY <1>4, <1>5, <1>9, <2>2 DEF TradeFails
<1>10. CASE Pays(w, o)
  <2>1. work'[w].step = "paid" /\ \A v \in Workers \ {w} : work'[v] = work[v]
    <3>1. orders[o] \in Order /\ orders[o].qty \in Nat /\ position \in [qty : Int, margin : Nat]
      BY QuantityIsNat DEF Order, Book, Sound, RowsTyped, Lots
    <3>2. Netted(orders[o], orders[o].qty) \in Lots
      BY <3>1, NettedIsTyped DEF Lots
    <3> QED
      BY <1>1, <1>3, <1>10, <3>2, GoingStep DEF Pays
  <2> QED
    BY <1>4, <1>10, <2>1 DEF Pays
<1>11. CASE FillFails(w, o)
  <2>1. \E rests : Ends(w, o, rests)
    BY <1>11 DEF FillFails
  <2>2. work'[w].step = "idle" /\ \A v \in Workers \ {w} : work'[v] = work[v]
    BY <1>1, <2>1, GoingStep
  <2> QED
    BY <1>4, <1>5, <1>11, <2>2 DEF FillFails
<1>12. CASE Nets(w, o)
  BY <1>1, <1>3, <1>4, <1>12, FlatIsLots, GoingStep DEF Nets
<1>13. CASE Reconciles(w, o)
  BY <1>1, <1>4, <1>13, GoingStep DEF Reconciles
<1> QED
  BY <1>6, <1>7, <1>8, <1>9, <1>10, <1>11, <1>12, <1>13 DEF GoesOn

LEMMA StepKeepsAtHand == Undisturbed /\ Book /\ [Next]_vars => AtHand'
<1> SUFFICES ASSUME Undisturbed, Book, [Next]_vars
             PROVE  AtHand'
  OBVIOUS
<1>1. AtHand
  BY DEF Book
<1>2. CASE CycleReads
  BY <1>1, <1>2, QuietKeepsAtHand DEF CycleReads, Loaded
<1>3. CASE Restart
  <2>1. \A p \in Orders : p \notin Loaded'
    BY <1>3 DEF Restart, Loaded
  <2>2. \A v \in Workers : work'[v].step # "checked"
    BY <1>3, IdleIsJob DEF Restart
  <2> QED
    BY <1>1, <1>3, <2>1, <2>2, QuietKeepsAtHand DEF Restart
<1>4. CASE FeedLost \/ FeedBack \/ UNCHANGED vars
  BY <1>1, <1>4, QuietKeepsAtHand DEF FeedLost, FeedBack, vars, Loaded
<1> QED
  BY <1>2, <1>3, <1>4, RequestKeepsAtHand, EvaluationKeepsAtHand, GoingOnKeepsAtHand DEF Next

LEMMA AlwaysBook == Undisturbed => (Spec => []Book)
<1>1. Init => AtHand
  BY IdleIsJob DEF Init, AtHand, RestsAtCheck, Fresh, Loaded, At
<1>2. Undisturbed => ChecksApart
  BY DEF Undisturbed
<1>3. Sound /\ TradedOnce /\ AtHand <=> Book
  BY DEF Book
<1>4. ASSUME Undisturbed
      PROVE  Spec => []Book
  BY <1>1, <1>2, <1>3, <1>4, StepKeepsAtHand, AlwaysSound, AlwaysTradedOnce, PTL DEF Spec
<1> QED
  BY <1>4

-----------------------------------------------------------------------------
(***************************************************************************)
(* The index and its count: what rests is in the index, or on its way in   *)
(* the hands of the request that placed it, and no order is counted twice. *)
(***************************************************************************)

\* The assumption of the theorem on the index.
NoticesCome == "noticeLost" \notin Admitted

\* The references are those of the orders in the index and of the position.
Counts(f) == f.refs = Cardinality(f.orders) + f.position

\* A tick has at hand what the index holds; a placement, what it does not hold yet.
OnItsWay(o) ==
  /\ Has("tick", o) => o \in feed.orders
  /\ \A w \in Requests :
       Has(w, o) => o \notin feed.orders /\ \A v \in Requests \ {w} : ~Has(v, o)

Tracks ==
  /\ FeedFollowsBook
  /\ \A o \in feed.orders : orders[o] # Blank
  /\ \A o \in Orders : OnItsWay(o)

LEMMA IndexedCounts ==
  ASSUME NEW f \in Feed, NEW o \in Orders, o \notin f.orders, Counts(f)
  PROVE  Counts(Indexed(f, o)) /\ Indexed(f, o).orders = f.orders \cup {o}
<1>1. IsFiniteSet(f.orders) /\ f.refs \in Nat /\ f.position \in {0, 1}
  BY OrdersAssumption, FS_Subset DEF Feed
<1>2. Cardinality(f.orders \cup {o}) = Cardinality(f.orders) + 1 /\ Cardinality(f.orders) \in Nat
  BY <1>1, FS_AddElement, FS_CardinalityType
<1>3. /\ Indexed(f, o).orders = f.orders \cup {o}
      /\ Indexed(f, o).refs = f.refs + 1
      /\ Indexed(f, o).position = f.position
  BY DEF Indexed, Index
<1> QED
  BY <1>1, <1>2, <1>3 DEF Counts

LEMMA UnindexedCounts ==
  ASSUME NEW f \in Feed, NEW o \in f.orders, Counts(f)
  PROVE  /\ Counts(Unindexed(f, o)) /\ Unindexed(f, o).orders = f.orders \ {o}
         /\ Unindexed(f, o).position = f.position
<1>1. IsFiniteSet(f.orders) /\ f.refs \in Nat
  BY OrdersAssumption, FS_Subset DEF Feed
<1>2. /\ Cardinality(f.orders \ {o}) = Cardinality(f.orders) - 1
      /\ Cardinality(f.orders \ {o}) \in Nat
  BY <1>1, FS_RemoveElement, FS_CardinalityType
<1>3. /\ Unindexed(f, o).orders = f.orders \ {o}
      /\ Unindexed(f, o).refs = Fewer(f.refs)
      /\ Unindexed(f, o).position = f.position
  BY DEF Unindexed, Index
<1>4. Cardinality(f.orders) \in Nat /\ Cardinality(f.orders) >= 1
  BY <1>1, <1>2, FS_CardinalityType
<1>5. f.position \in Nat
  BY DEF Feed
<1>6. f.refs >= 1 /\ Fewer(f.refs) = f.refs - 1
  BY <1>1, <1>4, <1>5 DEF Counts, Fewer
<1>7. Fewer(f.refs) = Cardinality(f.orders \ {o}) + f.position
  BY <1>2, <1>4, <1>5, <1>6 DEF Counts
<1> QED
  BY <1>3, <1>7 DEF Counts

LEMMA HeldCounts ==
  ASSUME NEW f \in Feed, NEW lots \in Int, Counts(f)
  PROVE  /\ Counts(Held(f, lots)) /\ Held(f, lots).orders = f.orders
         /\ Held(f, lots).position = (IF lots # 0 THEN 1 ELSE 0)
<1>1. Cardinality(f.orders) \in Nat /\ f.refs \in Nat /\ f.position \in {0, 1}
  BY OrdersAssumption, FS_Subset, FS_CardinalityType DEF Feed
<1>2. CASE lots # 0 /\ f.position = 0
  BY <1>1, <1>2 DEF Held, Index, Counts
<1>3. CASE lots = 0 /\ f.position = 1
  BY <1>1, <1>3 DEF Held, Index, Counts, Fewer
<1>4. CASE ~(lots # 0 /\ f.position = 0) /\ ~(lots = 0 /\ f.position = 1)
  BY <1>1, <1>4 DEF Held
<1> QED
  BY <1>2, <1>3, <1>4

LEMMA RebuiltCounts ==
  /\ Counts(Rebuilt) /\ Rebuilt.orders = {o \in Orders : IsPending(o)}
  /\ Rebuilt.position = (IF position.qty # 0 THEN 1 ELSE 0)
BY DEF Rebuilt, Index, Counts

\* The order in question and the index after a step of w, the only thread that
\* gets or loses an order.
LEMMA StepKeepsTracks ==
  ASSUME Tracks, NEW o \in Orders, NEW w \in Workers,
         feed' \in Feed, Counts(feed'), feed.orders \in SUBSET Orders,
         feed'.position = (IF position'.qty # 0 THEN 1 ELSE 0),
         \A p \in Orders \ {o} : p \in feed'.orders <=> p \in feed.orders,
         \A p \in Orders \ {o} : orders'[p] = orders[p],
         o \in feed'.orders => orders'[o] # Blank,
         IsPending(o)' => o \in feed'.orders \/ (\E v \in Requests : Has(v, o)'),
         \A v \in Workers \ {w} : work'[v] = work[v],
         \A p \in Orders \ {o} : Has(w, p)' => Has(w, p),
         \A p \in Orders \ {o} : Has(w, p) => Has(w, p)',
         OnItsWay(o)'
  PROVE  Tracks'
<1>1. \A v \in Workers, p \in Orders \ {o} : Has(v, p)' <=> Has(v, p)
  BY DEF Has
<1>2. "tick" \in Workers /\ Requests \subseteq Workers
  BY DEF Workers, Engines
<1>3. ASSUME NEW p \in Orders \ {o}
      PROVE  /\ OnItsWay(p)'
             /\ IsPending(p)' => p \in feed'.orders \/ \E v \in Requests : Has(v, p)'
  BY <1>1, <1>2, <1>3 DEF Tracks, FeedFollowsBook, OnItsWay, IsPending
<1>4. \A p \in feed'.orders : orders'[p] # Blank
  BY DEF Tracks, Feed
<1>5. FeedFollowsBook'
  BY <1>3 DEF FeedFollowsBook, Counts
<1> QED
  BY <1>3, <1>4, <1>5 DEF Tracks

\* A step that leaves the index, the position and what is at hand alone.
LEMMA QuietKeepsTracks ==
  ASSUME Tracks, UNCHANGED <<feed, position, work>>,
         \A p \in Orders : IsPending(p)' => IsPending(p),
         \A p \in Orders : orders[p] # Blank => orders'[p] # Blank,
         feed \in Feed
  PROVE  Tracks'
<1>1. \A v, p : Has(v, p)' <=> Has(v, p)
  BY DEF Has
<1>2. (\A p \in Orders : OnItsWay(p))'
  BY <1>1 DEF Tracks, OnItsWay
<1>3. FeedFollowsBook'
  BY <1>1 DEF Tracks, FeedFollowsBook
<1> QED
  BY <1>2, <1>3 DEF Tracks, Feed

\* What a thread that ends with an order leaves in the index.
LEMMA EndKeepsTracks ==
  ASSUME NoticesCome, Book, Tracks, NEW w \in Workers, NEW o \in Orders, Has(w, o),
         NEW rests \in BOOLEAN, rests = IsPending(o)', Ends(w, o, rests),
         IsPending(o)' => IsPending(o), orders'[o] # Blank,
         \A p \in Orders \ {o} : orders'[p] = orders[p], UNCHANGED position
  PROVE  Tracks'
<1>1. /\ feed \in Feed /\ Counts(feed) /\ feed.orders \in SUBSET Orders
      /\ feed.position = (IF position.qty # 0 THEN 1 ELSE 0)
  BY DEF Book, Sound, EnginesTyped, Feed, Tracks, FeedFollowsBook, Counts
<1>2. work'[w].step = "idle" /\ \A v \in Workers \ {w} : work'[v] = work[v]
  BY GoingStep DEF Book
<1>3. "tick" \notin Requests /\ "tick" \in Workers /\ Requests \subseteq Workers
  BY OrdersAssumption DEF Engines, Workers
<1>4. feed' \in Told(w, o, rests)
  BY DEF Ends, Tells
<1>5. \A p \in Orders : ~Has(w, p)' /\ \A v \in Workers \ {w} : Has(v, p)' <=> Has(v, p)
  BY <1>2 DEF Has
<1>6. \A p \in Orders \ {o} : ~Has(w, p)
  BY DEF Has
<1>7. CASE w = "tick" /\ ~rests
  <2>1. feed' = Unindexed(feed, o) /\ o \in feed.orders
    BY <1>4, <1>7 DEF Told, Tracks, OnItsWay
  <2>2. /\ feed' \in Feed /\ Counts(feed') /\ feed'.orders = feed.orders \ {o}
        /\ feed'.position = feed.position
    BY <1>1, <2>1, UnindexedCounts, IndexedIsTyped
  <2>3. OnItsWay(o)'
    BY <1>3, <1>5, <1>7, <2>1 DEF Tracks, OnItsWay
  <2> HIDE DEF OnItsWay
  <2> QED
    BY <1>1, <1>2, <1>5, <1>6, <1>7, <2>2, <2>3, StepKeepsTracks
<1>8. CASE w \in Requests /\ rests
  <2>1. feed' = Indexed(feed, o) /\ o \notin feed.orders
    BY <1>3, <1>4, <1>8 DEF Told, Tracks, OnItsWay, NoticesCome
  <2>2. /\ feed' \in Feed /\ Counts(feed') /\ feed'.orders = feed.orders \cup {o}
        /\ feed'.position = feed.position
    BY <1>1, <2>1, IndexedCounts, IndexedIsTyped DEF Indexed, Index
  <2>3. OnItsWay(o)'
    BY <1>3, <1>5, <1>8, <2>2 DEF Tracks, OnItsWay
  <2> QED
    BY <1>1, <1>2, <1>5, <1>6, <1>8, <2>2, <2>3, StepKeepsTracks
<1>9. CASE ~(w = "tick" /\ ~rests) /\ ~(w \in Requests /\ rests)
  <2>1. feed' = feed
    BY <1>4, <1>9 DEF Told
  <2>2. OnItsWay(o)'
    BY <1>3, <1>5, <2>1 DEF Tracks, OnItsWay
  <2>3. IsPending(o)' => o \in feed'.orders \/ \E v \in Requests : Has(v, o)'
    <3>1. \A v \in Requests : Has(v, o) /\ rests => v # w
      BY <1>9
    <3> QED
      BY <1>3, <1>5, <2>1, <3>1 DEF Tracks, FeedFollowsBook
  <2>4. o \in feed'.orders => orders'[o] # Blank
    OBVIOUS
  <2> QED
    BY <1>1, <1>2, <1>5, <1>6, <2>1, <2>2, <2>3, <2>4, StepKeepsTracks
<1> QED
  BY <1>7, <1>8, <1>9

\* What a thread that goes on with an order leaves there.
LEMMA GoesKeepsTracks ==
  ASSUME Book, Tracks, NEW w \in Workers, NEW o \in Orders, Has(w, o), Has(w, o)',
         \A v \in Workers \ {w} : work'[v] = work[v],
         IsPending(o)' => IsPending(o), orders'[o] # Blank,
         \A p \in Orders \ {o} : orders'[p] = orders[p],
         feed' \in Feed, Counts(feed'), feed'.orders = feed.orders,
         feed'.position = (IF position'.qty # 0 THEN 1 ELSE 0)
  PROVE  Tracks'
<1>1. \A v \in Workers, p \in Orders : Has(v, p)' <=> Has(v, p)
  BY DEF Has
<1>2. "tick" \in Workers /\ Requests \subseteq Workers
  BY DEF Engines, Workers
<1>3. OnItsWay(o)'
  BY <1>1, <1>2 DEF Tracks, OnItsWay
<1>4. IsPending(o)' => o \in feed'.orders \/ \E v \in Requests : Has(v, o)'
  BY <1>1, <1>2 DEF Tracks, FeedFollowsBook
<1>5. feed.orders \in SUBSET Orders
  BY DEF Book, Sound, EnginesTyped, Feed
<1>6. \A p \in Orders \ {o} : p \in feed'.orders <=> p \in feed.orders
  OBVIOUS
<1>7. o \in feed'.orders => orders'[o] # Blank
  OBVIOUS
<1>8. \A p \in Orders \ {o} : (Has(w, p)' => Has(w, p)) /\ (Has(w, p) => Has(w, p)')
  BY <1>1
<1> HIDE DEF OnItsWay
<1> QED
  BY <1>3, <1>4, <1>5, <1>6, <1>7, <1>8, StepKeepsTracks

LEMMA RequestKeepsTracks ==
  ASSUME Undisturbed, Book, Tracks, NEW o \in Orders, Request(o)
  PROVE  Tracks'
<1>1. /\ feed \in Feed /\ Counts(feed) /\ feed.orders \in SUBSET Orders
      /\ feed.position = (IF position.qty # 0 THEN 1 ELSE 0)
  BY DEF Book, Sound, EnginesTyped, Feed, Tracks, FeedFollowsBook, Counts
<1>2. orders \in [Orders -> Order]
  BY DEF Book, Sound, RowsTyped
<1>3. "tick" \notin Requests /\ "tick" \in Workers /\ Requests \subseteq Workers
  BY OrdersAssumption DEF Engines, Workers
<1>4. ASSUME NEW side \in Sides, NEW qty \in Quantities, NEW w \in Requests,
             NEW status \in Pending, Places(w, o, side, qty, status)
      PROVE  Tracks'
  <2>1. /\ work'[w].step = "checked" /\ work'[w].order = o
        /\ \A v \in Workers \ {w} : work'[v] = work[v]
        /\ orders'[o].status = status
        /\ \A p \in Orders \ {o} : orders'[p] = orders[p]
    BY <1>4, TakenStep DEF Book
  <2>2. orders[o] = Blank /\ o \notin feed.orders /\ \A v \in Workers : ~Has(v, o)
    BY <1>4 DEF Places, Accepts, Book, TradedOnce, BlankIsUntouched, Tracks
  <2>3. Has(w, o)' /\ \A v \in Workers \ {w} : ~Has(v, o)'
    BY <2>1, <2>2 DEF Has
  <2>4. work[w].step = "idle"
    BY <1>4, IdleIsJob DEF Places
  <2>5. \A p \in Orders \ {o} : ~Has(w, p)' /\ ~Has(w, p)
    BY <2>1, <2>4 DEF Has
  <2>6. UNCHANGED <<feed, position>>
    BY <1>4 DEF Places
  <2>7. OnItsWay(o)'
    BY <1>3, <2>2, <2>3, <2>6 DEF OnItsWay
  <2>8. IsPending(o)' => \E v \in Requests : Has(v, o)'
    BY <2>3
  <2> QED
    BY <1>1, <1>3, <2>1, <2>2, <2>5, <2>6, <2>7, <2>8, StepKeepsTracks
<1>5. ASSUME NEW side \in Sides, NEW qty \in Quantities, PlaceBreaks(o, side, qty)
      PROVE  Tracks'
  BY <1>1, <1>5, QuietKeepsTracks DEF PlaceBreaks, IsPending
<1>6. ASSUME NEW qty \in Quantities, Modify(o, qty)
      PROVE  Tracks'
  <2>1. /\ orders'[o].status = orders[o].status /\ orders'[o] # Blank
        /\ \A p \in Orders \ {o} : orders'[p] = orders[p]
    <3>1. orders'[o].status = orders[o].status /\ \A p \in Orders \ {o} : orders'[p] = orders[p]
      BY <1>2, <1>6 DEF Modify, Order
    <3> QED
      BY <1>6, <3>1, BlankIsNew DEF Modify, IsPending
  <2> QED
    BY <1>1, <1>6, <2>1, QuietKeepsTracks DEF Modify, IsPending
<1>7. ASSUME Cancel(o)
      PROVE  Tracks'
  <2>1. /\ orders'[o].status = "cancelled" /\ orders'[o] # Blank
        /\ \A p \in Orders \ {o} : orders'[p] = orders[p]
    <3>1. orders'[o].status = "cancelled" /\ \A p \in Orders \ {o} : orders'[p] = orders[p]
      BY <1>2, <1>7 DEF Cancel, Order
    <3> QED
      BY <3>1, BlankIsNew
  <2> QED
    BY <1>1, <1>7, <2>1, QuietKeepsTracks DEF Cancel, IsPending
<1> QED
  BY <1>4, <1>5, <1>6, <1>7 DEF Request

LEMMA EvaluationKeepsTracks ==
  ASSUME Undisturbed, Book, Tracks, NEW o \in Orders, Evaluation(o)
  PROVE  Tracks'
<1>1. /\ feed \in Feed /\ Counts(feed) /\ feed.orders \in SUBSET Orders
      /\ feed.position = (IF position.qty # 0 THEN 1 ELSE 0)
  BY DEF Book, Sound, EnginesTyped, Feed, Tracks, FeedFollowsBook, Counts
<1>2. "tick" \notin Requests /\ "tick" \in Workers /\ Requests \subseteq Workers
  BY OrdersAssumption DEF Engines, Workers
<1>3. CASE TickForgets(o)
  <2>1. o \in feed.orders /\ work["tick"].step = "idle" /\ UNCHANGED <<orders, position, work>>
    BY <1>3, IdleIsJob DEF TickForgets, Ticked
  <2>2. feed' = Unindexed(feed, o)
    BY <1>3 DEF TickForgets, Tells, Told
  <2>3. /\ feed' \in Feed /\ Counts(feed') /\ feed'.orders = feed.orders \ {o}
        /\ feed'.position = feed.position
    BY <1>1, <2>1, <2>2, UnindexedCounts, IndexedIsTyped
  <2>4. \A v, p : Has(v, p)' <=> Has(v, p)
    BY <2>1 DEF Has
  <2>5. ~Has("tick", o)
    BY <2>1 DEF Has
  <2>6. OnItsWay(o)'
    BY <2>1, <2>4, <2>5 DEF Tracks, OnItsWay
  <2>7. ~IsPending(o)'
    BY <1>3, <2>1 DEF TickForgets, IsPending
  <2> QED
    BY <1>1, <1>2, <2>1, <2>3, <2>4, <2>6, <2>7, StepKeepsTracks
<1>4. CASE CycleSkips(o)
  BY <1>1, <1>4, QuietKeepsTracks DEF CycleSkips, IsPending
<1>5. ASSUME NEW w \in Engines, Checks(w, o)
      PROVE  Tracks'
  <2>1. /\ work'[w].step = "checked" /\ work'[w].order = o
        /\ \A v \in Workers \ {w} : work'[v] = work[v]
    BY <1>5, CheckedStep DEF Book
  <2>2. UNCHANGED <<orders, position, feed>> /\ work[w].step = "idle" /\ w \in Workers /\ w \notin Requests
    BY <1>5, OrdersAssumption, IdleIsJob DEF Checks, Offered, Ticked, Workers, Engines
  <2>3. w = "tick" => o \in feed.orders
    BY <1>5 DEF Checks, Offered, Ticked
  <2>4. \A v \in Workers \ {w}, p \in Orders : Has(v, p)' <=> Has(v, p)
    BY <2>1 DEF Has
  <2>5. \A p \in Orders \ {o} : ~Has(w, p)' /\ ~Has(w, p)
    BY <2>1, <2>2 DEF Has
  <2>6. OnItsWay(o)'
    BY <1>2, <2>2, <2>3, <2>4 DEF Tracks, OnItsWay
  <2>7. IsPending(o)' => o \in feed'.orders \/ \E v \in Requests : Has(v, o)'
    BY <1>2, <2>2, <2>4 DEF Tracks, FeedFollowsBook, IsPending
  <2> QED
    BY <1>1, <2>1, <2>2, <2>5, <2>6, <2>7, StepKeepsTracks DEF Tracks
<1>6. ASSUME NEW w \in Engines, FindsTrade(w, o)
      PROVE  Tracks'
  BY <1>1, <1>6, FoundStep, QuietKeepsTracks DEF IsPending
<1> QED
  BY <1>3, <1>4, <1>5, <1>6 DEF Evaluation

LEMMA GoingOnKeepsTracks ==
  ASSUME Undisturbed, NoticesCome, Book, Tracks, NEW w \in Workers, NEW o \in Orders, GoesOn(w, o)
  PROVE  Tracks'
<1>1. /\ feed \in Feed /\ Counts(feed) /\ feed.orders \in SUBSET Orders
      /\ feed.position = (IF position.qty # 0 THEN 1 ELSE 0)
  BY DEF Book, Sound, EnginesTyped, Feed, Tracks, FeedFollowsBook, Counts
<1>2. Sound /\ Has(w, o) /\ orders[o] # Blank
  BY GoingStep DEF Book, TradedOnce, BlankIsUntouched
<1>3. /\ "open" \in Statuses /\ "rejected" \in Statuses /\ "complete" \in Statuses
      /\ "rejected" \notin Pending /\ "complete" \notin Pending
      /\ "traded" \in Steps /\ "paid" \in Steps /\ "netted" \in Steps
  BY DEF Statuses, Pending, Steps
<1>4. \A status \in Statuses : Marked(o, status) /\ status # "new" => orders'[o] # Blank
  BY <1>2, GoingStep, BlankIsNew
<1>5. ASSUME UNCHANGED <<orders, position>>, Ends(w, o, IsPending(o))
      PROVE  Tracks'
  <2>1. IsPending(o)' = IsPending(o) /\ IsPending(o) \in BOOLEAN
    BY <1>5 DEF IsPending
  <2> QED
    BY <1>2, <1>5, <2>1, EndKeepsTracks
<1>6. ASSUME Marked(o, "rejected"), Ends(w, o, FALSE), UNCHANGED position
      PROVE  Tracks'
  <2>1. /\ orders'[o].status = "rejected" /\ orders'[o] # Blank
        /\ \A p \in Orders \ {o} : orders'[p] = orders[p]
    BY <1>2, <1>3, <1>4, <1>6, GoingStep
  <2>2. IsPending(o)' = FALSE
    BY <1>3, <2>1 DEF IsPending
  <2> QED
    BY <1>2, <1>6, <2>1, <2>2, EndKeepsTracks
<1>7. ASSUME NEW step \in Steps, step # "idle", NEW after \in Lots,
             Becomes(w, Job(step, o, "new", after))
      PROVE  Has(w, o)' /\ \A v \in Workers \ {w} : work'[v] = work[v]
  <2>1. /\ work'[w].step = step /\ work'[w].order = o
        /\ \A v \in Workers \ {w} : work'[v] = work[v]
    BY ONLY <1>2, <1>7, GoingStep
  <2> QED
    BY <1>7, <2>1 DEF Has
<1>8. CASE Passes(w, o)
  BY <1>5, <1>8 DEF Passes
<1>9. CASE Triggers(w, o)
  <2>1. /\ orders'[o].status = "open" /\ orders'[o] # Blank
        /\ \A p \in Orders \ {o} : orders'[p] = orders[p]
    BY <1>2, <1>3, <1>4, <1>9, GoingStep DEF Triggers
  <2>2. IsPending(o)' = TRUE /\ IsPending(o)
    BY <1>9, <2>1 DEF Triggers, IsPending, Pending, Book, AtHand, RestsAtCheck
  <2> QED
    BY <1>2, <1>9, <2>1, <2>2, EndKeepsTracks DEF Triggers
<1>10. CASE TradeCommits(w, o)
  <2>1. /\ orders'[o].status = "complete" /\ orders'[o] # Blank
        /\ \A p \in Orders \ {o} : orders'[p] = orders[p]
    BY <1>2, <1>3, <1>4, <1>10, GoingStep DEF TradeCommits
  <2>2. ~IsPending(o)'
    BY <1>3, <2>1 DEF IsPending
  <2>3. Has(w, o)' /\ \A v \in Workers \ {w} : work'[v] = work[v]
    BY <1>3, <1>7, <1>10, FlatIsLots DEF TradeCommits
  <2> QED
    BY <1>1, <1>2, <1>10, <2>1, <2>2, <2>3, GoesKeepsTracks DEF TradeCommits
<1>11. CASE TradeFails(w, o)
  BY <1>5, <1>6, <1>11 DEF TradeFails
<1>12. CASE Pays(w, o)
  <2>1. Has(w, o)' /\ \A v \in Workers \ {w} : work'[v] = work[v]
    <3>1. orders[o] \in Order /\ orders[o].qty \in Nat /\ position \in [qty : Int, margin : Nat]
      BY QuantityIsNat DEF Order, Book, Sound, RowsTyped, Lots
    <3>2. Netted(orders[o], orders[o].qty) \in Lots
      BY <3>1, NettedIsTyped DEF Lots
    <3> QED
      BY <1>3, <1>7, <1>12, <3>2 DEF Pays
  <2>2. UNCHANGED <<orders, position, feed>>
    BY <1>12 DEF Pays
  <2> QED
    BY <1>1, <1>2, <2>1, <2>2, GoesKeepsTracks DEF IsPending
<1>13. CASE FillFails(w, o)
  BY <1>5, <1>6, <1>13 DEF FillFails
<1>14. CASE Nets(w, o)
  <2>1. Has(w, o)' /\ \A v \in Workers \ {w} : work'[v] = work[v]
    BY <1>3, <1>7, <1>14, FlatIsLots DEF Nets
  <2>2. position' \in Lots /\ position'.qty \in Int
    BY <1>2, <1>14 DEF Nets, Sound, ThreadsTyped, Jobs, Lots
  <2>3. feed' = Held(feed, position'.qty) /\ UNCHANGED orders
    BY <1>14 DEF Nets
  <2>4. /\ feed' \in Feed /\ Counts(feed') /\ feed'.orders = feed.orders
        /\ feed'.position = (IF position'.qty # 0 THEN 1 ELSE 0)
    BY ONLY <1>1, <2>2, <2>3, HeldCounts, HeldIsTyped
  <2> QED
    BY <1>2, <2>1, <2>3, <2>4, GoesKeepsTracks DEF IsPending
<1>15. CASE Reconciles(w, o)
  BY <1>5, <1>15 DEF Reconciles
<1> QED
  BY <1>8, <1>9, <1>10, <1>11, <1>12, <1>13, <1>14, <1>15 DEF GoesOn

LEMMA NextKeepsTracks == Undisturbed /\ NoticesCome /\ Book /\ Tracks /\ [Next]_vars => Tracks'
<1> SUFFICES ASSUME Undisturbed, NoticesCome, Book, Tracks, [Next]_vars
             PROVE  Tracks'
  OBVIOUS
<1>1. feed \in Feed
  BY DEF Book, Sound, EnginesTyped
<1>2. CASE CycleReads \/ FeedLost \/ FeedBack \/ UNCHANGED vars
  BY <1>1, <1>2, QuietKeepsTracks DEF CycleReads, FeedLost, FeedBack, vars, IsPending
<1>3. CASE Restart
  <2>1. feed' = Rebuilt /\ UNCHANGED <<orders, position>>
    BY <1>3 DEF Restart
  <2>2. /\ Counts(feed') /\ feed'.orders = {o \in Orders : IsPending(o)}
        /\ feed'.position = (IF position'.qty # 0 THEN 1 ELSE 0)
    BY <2>1, RebuiltCounts
  <2>3. \A v \in Workers, p \in Orders : ~Has(v, p)'
    BY <1>3, IdleIsJob DEF Restart, Has
  <2>4. \A p \in Orders : OnItsWay(p)'
    BY <2>3 DEF OnItsWay, Workers, Engines
  <2>5. \A p \in feed'.orders : orders'[p] # Blank
    BY <2>1, <2>2, BlankIsNew DEF IsPending
  <2>6. FeedFollowsBook'
    BY <2>1, <2>2 DEF FeedFollowsBook, Counts, IsPending
  <2> QED
    BY <2>4, <2>5, <2>6 DEF Tracks
<1> QED
  BY <1>2, <1>3, RequestKeepsTracks, EvaluationKeepsTracks, GoingOnKeepsTracks DEF Next

\* Whatever the orders, the threads and the order of their steps, every resting
\* order is where the ticks look, but for the instants between its placement and
\* the notice, and the references are counted once each.
THEOREM IndexFollowsBook ==
  ASSUME Undisturbed, NoticesCome
  PROVE  Spec => []FeedFollowsBook
<1>1. Init => Tracks
  <2> SUFFICES ASSUME Init
               PROVE  Tracks
    OBVIOUS
  <2>1. \A o \in Orders : ~IsPending(o)
    BY BlankIsNew DEF Init, IsPending
  <2>2. feed.orders = {} /\ feed.refs = 0 /\ feed.position = 0 /\ position.qty = 0
    BY DEF Init, Index, Flat
  <2>3. \A v \in Workers, p \in Orders : ~Has(v, p)
    BY IdleIsJob DEF Init, Has
  <2>4. \A p \in Orders : OnItsWay(p)
    BY <2>3 DEF OnItsWay, Workers, Engines
  <2>5. FeedFollowsBook
    BY <2>1, <2>2, FS_EmptySet DEF FeedFollowsBook
  <2> QED
    BY <2>2, <2>4, <2>5 DEF Tracks
<1>2. Tracks => FeedFollowsBook
  BY DEF Tracks
<1> QED
  BY <1>1, <1>2, NextKeepsTracks, AlwaysBook, PTL DEF Spec

-----------------------------------------------------------------------------
(***************************************************************************)
(* Fills: a traded order is complete and in the hands of one thread until  *)
(* its position is committed, and what that thread commits is the position *)
(* as it is, moved by the order.                                           *)
(***************************************************************************)

\* The assumption of the theorem on the contract.
FillsApart == "fillsOverlap" \notin Admitted /\ "fillDies" \notin Admitted

Fills(w, o) == At(w, "traded", o) \/ At(w, "paid", o)

FillsAlone(w, o) ==
  Fills(w, o) => orders[o].status = "complete" /\ \A v \in Workers \ {w} : ~Fills(v, o)

PaysForThePosition(w, o) ==
  At(w, "paid", o) => /\ work[w].after.qty = position.qty + Size(o)
                      /\ \A v \in Workers \ {w} : work[v].step # "paid"

Filling == \A w \in Workers, o \in Orders : FillsAlone(w, o) /\ PaysForThePosition(w, o)

CompleteIsNotPending ==
  \A o \in Orders : orders[o].status \in {"complete", "new"} => ~IsPending(o)

LEMMA CompleteHolds == CompleteIsNotPending
BY DEF CompleteIsNotPending, IsPending, Pending

\* A step after which nobody is nearer to a fill, and whoever is filling an order
\* finds it, and the position, as they were.
LEMMA QuietKeepsFilling ==
  ASSUME Filling, UNCHANGED position,
         \A v \in Workers : work'[v] = work[v] \/ work'[v].step \notin {"traded", "paid"},
         \A v \in Workers, p \in Orders :
            Fills(v, p)' => orders'[p].status = "complete" /\ Size(p)' = Size(p)
  PROVE  Filling'
<1>1. \A v \in Workers, p \in Orders : Fills(v, p)' => Fills(v, p) /\ work'[v] = work[v]
  BY DEF Fills, At
<1>2. \A v \in Workers : work'[v].step = "paid" => work'[v] = work[v]
  OBVIOUS
<1>3. ASSUME NEW v \in Workers, NEW p \in Orders
      PROVE  FillsAlone(v, p)' /\ PaysForThePosition(v, p)'
  <2>1. FillsAlone(v, p)'
    BY <1>1 DEF FillsAlone, Filling
  <2>2. ASSUME At(v, "paid", p)'
        PROVE  /\ work'[v].after.qty = position'.qty + Size(p)'
               /\ \A u \in Workers \ {v} : work'[u].step # "paid"
    <3>1. Fills(v, p)' /\ At(v, "paid", p) /\ work'[v] = work[v]
      BY <1>2, <2>2 DEF Fills, At
    <3> QED
      BY <1>2, <3>1 DEF Filling, PaysForThePosition
  <2> QED
    BY <2>1, <2>2 DEF PaysForThePosition
<1> QED
  BY <1>3 DEF Filling

-----------------------------------------------------------------------------
(***************************************************************************)
(* What the contract sees of each step.                                    *)
(***************************************************************************)
Phases == [p \in Orders |-> Phase(p)]
Sized == [p \in Orders |-> Size(p)]

\* One order changes, to a phase and a size.
Turns(o, phase, size) ==
  /\ Phase(o)' = phase /\ Size(o)' = size
  /\ \A p \in Orders \ {o} : orders'[p] = orders[p] /\ (Unfilled(p)' <=> Unfilled(p))

LEMMA TurnsChanges ==
  ASSUME NEW o \in Orders, NEW phase, NEW size, Turns(o, phase, size)
  PROVE  /\ Phases' = [Phases EXCEPT ![o] = phase]
         /\ Sized' = [Sized EXCEPT ![o] = size]
         /\ phase = Phase(o) => Phases' = Phases
         /\ size = Size(o) => Sized' = Sized
<1>1. \A p \in Orders \ {o} : Phase(p)' = Phase(p) /\ Size(p)' = Size(p)
  BY DEF Turns, Phase, IsPending, Size
<1>2. Phase(o)' = phase /\ Size(o)' = size
  BY DEF Turns
<1>3. /\ \A p \in Orders : Phase(p)' = (IF p = o THEN phase ELSE Phase(p))
      /\ \A p \in Orders : Size(p)' = (IF p = o THEN size ELSE Size(p))
  BY <1>1, <1>2
<1> QED
  BY <1>3 DEF Phases, Sized

LEMMA SizeIsSigned ==
  ASSUME NEW side \in Sides, NEW qty \in Quantities
  PROVE  side * qty \in Contract!Sizes
<1>1. side * qty = qty \/ side * qty = -qty
  BY QuantityIsNat DEF Sides
<1> QED
  BY <1>1 DEF Contract!Sizes

\* The phases, by the status of the order and whether it is being filled.
LEMMA PhaseIs ==
  ASSUME NEW o \in Orders
  PROVE  /\ Phases[o] = Phase(o) /\ Sized[o] = Size(o)
         /\ orders[o] = Blank => Phase(o) = "none"
         /\ IsPending(o) => Phase(o) = "resting"
         /\ orders[o].status = "complete" /\ Unfilled(o) => Phase(o) = "resting"
         /\ orders[o].status = "complete" /\ ~Unfilled(o) => Phase(o) = "filled"
         /\ orders[o].status \in {"cancelled", "rejected"} => Phase(o) = "dead"
<1>1. orders[o] = Blank => orders[o].status = "new"
  BY DEF Blank
<1>2. IsPending(o) => orders[o].status # "new"
  BY DEF IsPending, Pending
<1>3. orders[o].status \in {"complete", "cancelled", "rejected"} => ~IsPending(o)
  BY DEF IsPending, Pending
<1>4. Phases[o] = Phase(o) /\ Sized[o] = Size(o)
  BY DEF Phases, Sized
<1> QED
  BY <1>1, <1>2, <1>3, <1>4 DEF Phase

LEMMA TakeImplements ==
  ASSUME NEW o \in Orders, orders[o] = Blank, NEW size \in Contract!Sizes,
         Turns(o, "resting", size), UNCHANGED position
  PROVE  Contract!Next
<1>1. Phases[o] = "none"
  BY PhaseIs
<1>2. Phases' = [Phases EXCEPT ![o] = "resting"] /\ Sized' = [Sized EXCEPT ![o] = size]
  BY TurnsChanges
<1>3. Contract!Take(o, size)
  BY <1>1, <1>2 DEF Contract!Take, Contract!Ends, Phases, Sized
<1> QED
  BY <1>3 DEF Contract!Next

LEMMA AmendImplements ==
  ASSUME NEW o \in Orders, Phase(o) = "resting", NEW size \in Contract!Sizes,
         Turns(o, "resting", size), UNCHANGED position
  PROVE  Contract!Next
<1>1. Phases[o] = "resting"
  BY PhaseIs
<1>2. Phases' = Phases /\ Sized' = [Sized EXCEPT ![o] = size]
  BY TurnsChanges
<1>3. Contract!Amend(o, size)
  BY <1>1, <1>2 DEF Contract!Amend, Phases, Sized
<1> QED
  BY <1>3 DEF Contract!Next

LEMMA FillImplements ==
  ASSUME NEW o \in Orders, Phase(o) = "resting",
         Turns(o, "filled", Size(o)), position'.qty = position.qty + Size(o)
  PROVE  Contract!Next
<1>1. Phases[o] = "resting" /\ Sized[o] = Size(o)
  BY PhaseIs
<1>2. Phases' = [Phases EXCEPT ![o] = "filled"] /\ Sized' = Sized
  BY TurnsChanges
<1>3. Contract!Fill(o)
  BY <1>1, <1>2 DEF Contract!Fill, Contract!Ends, Phases, Sized
<1> QED
  BY <1>3 DEF Contract!Next

LEMMA WithdrawImplements ==
  ASSUME NEW o \in Orders, Phase(o) = "resting",
         Turns(o, "dead", Size(o)), UNCHANGED position
  PROVE  Contract!Next
<1>1. Phases[o] = "resting"
  BY PhaseIs
<1>2. Phases' = [Phases EXCEPT ![o] = "dead"] /\ Sized' = Sized
  BY TurnsChanges
<1>3. Contract!Withdraw(o)
  BY <1>1, <1>2 DEF Contract!Withdraw, Contract!Ends, Phases, Sized
<1> QED
  BY <1>3 DEF Contract!Next

LEMMA StutterImplements ==
  ASSUME NEW o \in Orders, Turns(o, Phase(o), Size(o)), UNCHANGED position
  PROVE  UNCHANGED Contract!vars
<1>1. Phases' = Phases /\ Sized' = Sized
  BY TurnsChanges
<1> QED
  BY <1>1 DEF Contract!vars, Phases, Sized

LEMMA NothingImplements ==
  ASSUME UNCHANGED <<orders, position>>, \A o \in Orders : Unfilled(o)' <=> Unfilled(o)
  PROVE  UNCHANGED Contract!vars
<1>1. \A o \in Orders : Phase(o)' = Phase(o) /\ Size(o)' = Size(o)
  BY DEF Phase, IsPending, Size
<1>2. Phases' = Phases /\ Sized' = Sized
  BY <1>1 DEF Phases, Sized
<1> QED
  BY <1>2 DEF Contract!vars, Phases, Sized

\* The other orders are filled, or not, by whom they were.
LEMMA OthersFilled ==
  ASSUME NEW w \in Workers, NEW o \in Orders,
         Has(w, o) \/ work[w].step \notin {"traded", "paid"},
         work'[w].order = o \/ work'[w].step \notin {"traded", "paid"},
         \A v \in Workers \ {w} : work'[v] = work[v]
  PROVE  /\ \A p \in Orders \ {o} : Unfilled(p)' <=> Unfilled(p)
         /\ Unfilled(o)' <=> Fills(w, o)' \/ \E v \in Workers \ {w} : Fills(v, o)
<1>1. \A v \in Workers \ {w}, p \in Orders : Fills(v, p)' <=> Fills(v, p)
  BY DEF Fills, At
<1>2. \A p \in Orders \ {o} : ~Fills(w, p)' /\ ~Fills(w, p)
  BY DEF Fills, At, Has
<1>3. \A p \in Orders : /\ Unfilled(p) <=> \E v \in Workers : Fills(v, p)
                        /\ Unfilled(p)' <=> \E v \in Workers : Fills(v, p)'
  BY DEF Unfilled, Fills
<1> QED
  BY <1>1, <1>2, <1>3

-----------------------------------------------------------------------------
(***************************************************************************)
(* Each step leaves the fills in order and is a step of the contract, or   *)
(* none.                                                                   *)
(***************************************************************************)
Honours == Filling' /\ (Contract!Next \/ UNCHANGED Contract!vars)

\* A step that leaves the orders, the position and the fills alone.
LEMMA QuietHonours ==
  ASSUME Filling, UNCHANGED <<orders, position>>,
         \A v \in Workers : \/ work'[v] = work[v]
                            \/ /\ work[v].step \notin {"traded", "paid"}
                               /\ work'[v].step \notin {"traded", "paid"}
  PROVE  Honours
<1>1. \A v \in Workers, p \in Orders : Fills(v, p)' <=> Fills(v, p)
  BY DEF Fills, At
<1>2. \A p \in Orders : Unfilled(p)' <=> Unfilled(p)
  BY <1>1 DEF Unfilled, Fills
<1>3. Filling'
  BY <1>1, QuietKeepsFilling DEF Filling, FillsAlone, Size
<1> QED
  BY <1>2, <1>3, NothingImplements DEF Honours

\* A step that changes an order which nobody is filling.
LEMMA TouchKeepsFilling ==
  ASSUME Filling, NEW o \in Orders, UNCHANGED position,
         \A v \in Workers : ~Fills(v, o)',
         \A v \in Workers : work'[v] = work[v] \/ work'[v].step \notin {"traded", "paid"},
         \A p \in Orders \ {o} : orders'[p] = orders[p]
  PROVE  Filling'
<1>1. ASSUME NEW v \in Workers, NEW p \in Orders, Fills(v, p)'
      PROVE  orders'[p].status = "complete" /\ Size(p)' = Size(p)
  <2>1. p # o /\ Fills(v, p)
    BY <1>1 DEF Fills, At
  <2> QED
    BY <2>1 DEF Filling, FillsAlone, Size
<1> QED
  BY <1>1, QuietKeepsFilling

LEMMA RequestHonours ==
  ASSUME Undisturbed, Book, Filling, NEW o \in Orders, Request(o)
  PROVE  Honours
<1>1. Sound /\ orders \in [Orders -> Order]
  BY DEF Book, Sound, RowsTyped
<1>2. ASSUME NEW side \in Sides, NEW qty \in Quantities, NEW w \in Requests,
             NEW status \in Pending, Places(w, o, side, qty, status)
      PROVE  Honours
  <2>1. /\ work'[w].step = "checked" /\ work'[w].order = o
        /\ \A v \in Workers \ {w} : work'[v] = work[v]
        /\ orders'[o].status = status /\ orders'[o].side = side /\ orders'[o].qty = qty
        /\ \A p \in Orders \ {o} : orders'[p] = orders[p]
    BY <1>1, <1>2, TakenStep
  <2>2. orders[o] = Blank /\ UNCHANGED position /\ w \in Workers /\ work[w].step = "idle"
    BY <1>2, IdleIsJob DEF Places, Accepts, Workers
  <2>3. \A v \in Workers : ~Has(v, o)
    BY <2>2 DEF Book, TradedOnce, BlankIsUntouched
  <2>4. \A v \in Workers : ~Fills(v, o)'
    BY <2>1, <2>3 DEF Fills, At, Has
  <2>5. Filling'
    BY <2>1, <2>2, <2>4, TouchKeepsFilling
  <2>6. Phase(o)' = "resting"
    <3>1. IsPending(o)'
      BY <2>1 DEF IsPending
    <3>2. orders'[o].status # "new"
      BY <2>1 DEF Pending
    <3> QED
      BY <3>1, <3>2 DEF Phase, IsPending, Pending
  <2>7. \A p \in Orders \ {o} : Unfilled(p)' <=> Unfilled(p)
    BY <2>1, <2>2, OthersFilled
  <2>8. Turns(o, "resting", side * qty)
    BY <2>1, <2>6, <2>7 DEF Turns, Size
  <2> QED
    BY <2>2, <2>5, <2>8, SizeIsSigned, TakeImplements DEF Honours
<1>3. ASSUME NEW side \in Sides, NEW qty \in Quantities, PlaceBreaks(o, side, qty)
      PROVE  Honours
  BY <1>3, QuietHonours DEF PlaceBreaks
<1>4. ASSUME o \notin Loaded, \A v \in Workers : ~Has(v, o), UNCHANGED <<position, work>>,
             \A p \in Orders \ {o} : orders'[p] = orders[p]
      PROVE  /\ Filling' /\ ~Unfilled(o)'
             /\ \A p \in Orders \ {o} : Unfilled(p)' <=> Unfilled(p)
  <2>1. \A v, p : Fills(v, p)' <=> Fills(v, p)
    BY <1>4 DEF Fills, At
  <2>2. \A v \in Workers : ~Fills(v, o)
    BY <1>4 DEF Fills, At, Has
  <2>3. \A p \in Orders : /\ Unfilled(p) <=> \E v \in Workers : Fills(v, p)
                          /\ Unfilled(p)' <=> \E v \in Workers : Fills(v, p)'
    BY DEF Unfilled, Fills
  <2> QED
    BY <1>4, <2>1, <2>2, <2>3, TouchKeepsFilling
<1>5. ASSUME NEW qty \in Quantities, Modify(o, qty)
      PROVE  Honours
  <2>1. /\ IsPending(o) /\ o \notin Loaded /\ \A v \in Workers : ~Has(v, o)
        /\ UNCHANGED <<position, work>>
    BY <1>5 DEF Modify, Settled, Undisturbed
  <2>2. /\ orders'[o].status = orders[o].status /\ orders'[o].side = orders[o].side
        /\ orders'[o].qty = qty
        /\ \A p \in Orders \ {o} : orders'[p] = orders[p]
    BY <1>1, <1>5 DEF Modify, Order
  <2>3. Phase(o) = "resting" /\ Phase(o)' = "resting"
    <3>1. orders[o].status # "new" /\ IsPending(o)'
      BY <2>1, <2>2 DEF IsPending, Pending
    <3> QED
      BY <2>1, <2>2, <3>1 DEF Phase, IsPending, Pending
  <2>4. Turns(o, "resting", orders[o].side * qty)
    BY <1>4, <2>1, <2>2, <2>3 DEF Turns, Size
  <2>5. orders[o].side * qty \in Contract!Sizes
    BY <1>1, SizeIsSigned DEF Order
  <2> QED
    BY <1>4, <2>1, <2>2, <2>3, <2>4, <2>5, AmendImplements DEF Honours
<1>6. ASSUME Cancel(o)
      PROVE  Honours
  <2>1. /\ IsPending(o) /\ o \notin Loaded /\ \A v \in Workers : ~Has(v, o)
        /\ UNCHANGED <<position, work>>
    BY <1>6 DEF Cancel, Settled, Undisturbed
  <2>2. /\ orders'[o].status = "cancelled" /\ orders'[o].side = orders[o].side
        /\ orders'[o].qty = orders[o].qty
        /\ \A p \in Orders \ {o} : orders'[p] = orders[p]
    BY <1>1, <1>6 DEF Cancel, Order
  <2>3. Phase(o)' = "dead"
    <3>1. ~IsPending(o)' /\ ~Unfilled(o)'
      BY <1>4, <2>1, <2>2 DEF IsPending, Pending
    <3> QED
      BY <2>2, <3>1 DEF Phase
  <2>4. Turns(o, "dead", Size(o))
    BY <1>4, <2>1, <2>2, <2>3 DEF Turns, Size
  <2> QED
    BY <1>4, <2>1, <2>2, <2>4, PhaseIs, WithdrawImplements DEF Honours
<1> QED
  BY <1>2, <1>3, <1>5, <1>6 DEF Request

LEMMA EvaluationHonours ==
  ASSUME Undisturbed, Book, Filling, NEW o \in Orders, Evaluation(o)
  PROVE  Honours
<1>1. CASE TickForgets(o)
  BY <1>1, QuietHonours DEF TickForgets
<1>2. CASE CycleSkips(o)
  BY <1>2, QuietHonours DEF CycleSkips
<1>3. ASSUME NEW w \in Engines, Checks(w, o)
      PROVE  Honours
  <2>1. work[w].step = "idle"
    BY <1>3, IdleIsJob DEF Checks, Offered, Ticked
  <2>2. work'[w].step = "checked" /\ \A v \in Workers \ {w} : work'[v] = work[v]
    BY <1>3, CheckedStep DEF Book
  <2> QED
    BY <1>3, <2>1, <2>2, QuietHonours DEF Checks
<1>4. ASSUME NEW w \in Engines, FindsTrade(w, o)
      PROVE  Honours
  BY <1>4, FoundStep, QuietHonours
<1> QED
  BY <1>1, <1>2, <1>3, <1>4 DEF Evaluation

LEMMA GoingOnHonours ==
  ASSUME Undisturbed, FillsApart, Book, Filling, NEW w \in Workers, NEW o \in Orders, GoesOn(w, o)
  PROVE  Honours
<1>1. Sound /\ Has(w, o) /\ orders \in [Orders -> Order] /\ position \in Lots
  BY GoingStep DEF Book, Sound, RowsTyped
<1>2. /\ "open" \in Statuses /\ "rejected" \in Statuses /\ "complete" \in Statuses
      /\ "open" \in Pending /\ "traded" \in Steps /\ "paid" \in Steps /\ "netted" \in Steps
  BY DEF Statuses, Pending, Steps
<1>3. ASSUME NEW status \in Statuses, Marked(o, status)
      PROVE  /\ orders'[o].status = status /\ Size(o)' = Size(o)
             /\ \A p \in Orders \ {o} : orders'[p] = orders[p]
  BY <1>1, <1>3, GoingStep DEF Size
<1>4. ASSUME Phase(o) = "resting", Undisturbing(w, o), Marked(o, "rejected"), UNCHANGED position,
             work'[w].step = "idle", \A v \in Workers \ {w} : work'[v] = work[v]
      PROVE  Honours
  <2>1. \A v \in Workers \ {w} : ~Has(v, o)
    BY <1>4 DEF Undisturbing, Undisturbed
  <2>2. \A v \in Workers : ~Fills(v, o)'
    BY <1>4, <2>1 DEF Fills, At, Has
  <2>3. Filling'
    BY <1>2, <1>3, <1>4, <2>2, TouchKeepsFilling
  <2>4. /\ \A p \in Orders \ {o} : Unfilled(p)' <=> Unfilled(p)
        /\ ~Unfilled(o)'
    <3>1. \A p \in Orders \ {o} : Unfilled(p)' <=> Unfilled(p)
      BY <1>1, <1>4, OthersFilled
    <3>2. ~Unfilled(o)'
      BY <2>2 DEF Unfilled, Fills
    <3> QED
      BY <3>1, <3>2
  <2>5. Phase(o)' = "dead"
    <3>1. orders'[o].status = "rejected" /\ ~IsPending(o)'
      BY <1>2, <1>3, <1>4 DEF IsPending, Pending
    <3> QED
      BY <2>4, <3>1 DEF Phase
  <2>6. Turns(o, "dead", Size(o))
    BY <1>2, <1>3, <1>4, <2>4, <2>5 DEF Turns
  <2> QED
    BY <1>4, <2>3, <2>6, WithdrawImplements DEF Honours
<1>5. At(w, "checked", o) => IsPending(o) /\ Phase(o) = "resting" /\ \A v \in Workers : ~Fills(v, o)
  <2>1. At(w, "checked", o) => IsPending(o)
    BY DEF Book, AtHand, RestsAtCheck
  <2>2. IsPending(o) => \A v \in Workers : ~Fills(v, o)
    BY CompleteHolds DEF CompleteIsNotPending, Filling, FillsAlone
  <2> QED
    BY <2>1, <2>2, PhaseIs
<1>6. At(w, "traded", o) \/ At(w, "paid", o) =>
        /\ orders[o].status = "complete" /\ Unfilled(o) /\ Phase(o) = "resting"
        /\ \A v \in Workers \ {w} : ~Fills(v, o)
  BY PhaseIs DEF Filling, FillsAlone, Fills, Unfilled
<1>7. ASSUME NEW rests, Ends(w, o, rests), At(w, "checked", o) \/ At(w, "netted", o),
             UNCHANGED <<orders, position>>
      PROVE  Honours
  <2>1. work'[w].step = "idle" /\ \A v \in Workers \ {w} : work'[v] = work[v]
    BY <1>1, <1>7, GoingStep
  <2>2. work[w].step \notin {"traded", "paid"}
    BY <1>7 DEF At
  <2> QED
    BY <1>7, <2>1, <2>2, QuietHonours
<1>8. CASE Passes(w, o)
  BY <1>7, <1>8 DEF Passes
<1>9. CASE Triggers(w, o)
  <2>1. /\ orders'[o].status = "open" /\ Size(o)' = Size(o) /\ work'[w].step = "idle"
        /\ \A p \in Orders \ {o} : orders'[p] = orders[p]
        /\ \A v \in Workers \ {w} : work'[v] = work[v]
    BY <1>1, <1>2, <1>3, <1>9, GoingStep DEF Triggers
  <2>2. Phase(o) = "resting" /\ UNCHANGED position /\ \A v \in Workers : ~Fills(v, o)
    BY <1>5, <1>9 DEF Triggers
  <2>3. \A v \in Workers : ~Fills(v, o)'
    BY <2>1, <2>2 DEF Fills, At
  <2>4. Filling'
    BY <2>1, <2>2, <2>3, TouchKeepsFilling
  <2>5. Phase(o)' = "resting"
    <3>1. IsPending(o)' /\ orders'[o].status # "new"
      BY <1>2, <2>1 DEF IsPending
    <3> QED
      BY <3>1 DEF Phase, IsPending, Pending
  <2>6. \A p \in Orders \ {o} : Unfilled(p)' <=> Unfilled(p)
    BY <1>1, <2>1, OthersFilled
  <2>7. Turns(o, Phase(o), Size(o))
    BY <2>1, <2>2, <2>5, <2>6 DEF Turns
  <2> QED
    BY <2>2, <2>4, <2>7, StutterImplements DEF Honours
<1>10. CASE TradeCommits(w, o)
  <2>1. /\ orders'[o].status = "complete" /\ Size(o)' = Size(o)
        /\ work'[w].step = "traded" /\ work'[w].order = o
        /\ \A p \in Orders \ {o} : orders'[p] = orders[p]
        /\ \A v \in Workers \ {w} : work'[v] = work[v]
    BY <1>1, <1>2, <1>3, <1>10, FlatIsLots, GoingStep DEF TradeCommits
  <2>2. /\ At(w, "checked", o) /\ Phase(o) = "resting" /\ UNCHANGED position
        /\ \A v \in Workers : ~Fills(v, o)
    BY <1>5, <1>10 DEF TradeCommits, Executable
  <2>3. Filling'
    <3>1. \A v \in Workers \ {w}, p \in Orders : Fills(v, p)' <=> Fills(v, p)
      BY <2>1 DEF Fills, At
    <3>2. \A p \in Orders : Fills(w, p)' => p = o
      BY <2>1 DEF Fills, At
    <3>3. \A v \in Workers : work'[v].step = "paid" => v # w /\ work'[v] = work[v]
      BY <2>1
    <3>4. \A v \in Workers \ {w} : ~Fills(v, o)'
      BY <2>2, <3>1
    <3>5. ASSUME NEW v \in Workers, NEW p \in Orders
          PROVE  FillsAlone(v, p)'
      <4>1. CASE p = o
        BY <2>1, <3>4, <4>1 DEF FillsAlone
      <4>2. CASE p # o
        BY <2>1, <3>1, <3>2, <4>2 DEF FillsAlone, Filling
      <4> QED
        BY <4>1, <4>2
    <3>6. ASSUME NEW v \in Workers, NEW p \in Orders, At(v, "paid", p)'
          PROVE  /\ work'[v].after.qty = position'.qty + Size(p)'
                 /\ \A u \in Workers \ {v} : work'[u].step # "paid"
      <4>1. v # w /\ work'[v] = work[v] /\ At(v, "paid", p)
        BY <3>3, <3>6 DEF At
      <4>2. /\ work[v].after.qty = position.qty + Size(p)
            /\ \A u \in Workers \ {v} : work[u].step # "paid"
        BY <4>1 DEF Filling, PaysForThePosition
      <4>3. Size(p)' = Size(p)
        BY <2>1 DEF Size
      <4> QED
        BY <2>2, <3>3, <4>1, <4>2, <4>3
    <3> QED
      BY <3>5, <3>6 DEF Filling, PaysForThePosition
  <2>4. Phase(o)' = "resting"
    <3>1. Unfilled(o)'
      BY <2>1 DEF Unfilled, At
    <3> QED
      BY <2>1, <3>1 DEF Phase
  <2>5. work[w].step = "checked"
    BY <2>2 DEF At
  <2>6. \A p \in Orders \ {o} : Unfilled(p)' <=> Unfilled(p)
    BY <2>1, <2>5, OthersFilled
  <2>7. Turns(o, Phase(o), Size(o))
    BY <2>1, <2>2, <2>4, <2>6 DEF Turns
  <2> QED
    BY <2>2, <2>3, <2>7, StutterImplements DEF Honours
<1>11. CASE TradeFails(w, o)
  <2>1. At(w, "checked", o) /\ UNCHANGED position /\ \E rests : Ends(w, o, rests)
    BY <1>11 DEF TradeFails, Executable
  <2>2. work'[w].step = "idle" /\ \A v \in Workers \ {w} : work'[v] = work[v]
    BY <1>1, <2>1, GoingStep
  <2> QED
    BY <1>4, <1>5, <1>7, <1>11, <2>1, <2>2 DEF TradeFails
<1>12. CASE Pays(w, o)
  <2> DEFINE after == Netted(orders[o], orders[o].qty)
  <2>1. /\ after \in Lots /\ after.qty = position.qty + Size(o)
    <3>1. orders[o] \in Order /\ orders[o].qty \in Nat /\ position \in [qty : Int, margin : Nat]
      BY <1>1, QuantityIsNat DEF Order, Lots
    <3> QED
      BY <3>1, NettedIsTyped DEF Lots, Size
  <2>2. At(w, "traded", o) /\ UNCHANGED <<orders, position>>
    BY <1>12 DEF Pays
  <2>3. Becomes(w, Job("paid", o, "new", after))
    BY <1>12 DEF Pays
  <2>4. \A v \in Workers : work[v].step # "paid"
    BY <1>12 DEF Pays, NobodyNets, FillsApart
  <2> HIDE DEF after
  <2>5. /\ work'[w].step = "paid" /\ work'[w].order = o /\ work'[w].after = after
        /\ \A v \in Workers \ {w} : work'[v] = work[v]
    BY <1>1, <1>2, <2>1, <2>3, GoingStep
  <2>6. \A v \in Workers, p \in Orders : Fills(v, p)' <=> Fills(v, p)
    BY <2>2, <2>5 DEF Fills, At
  <2>7. Filling'
    <3>1. \A v \in Workers, p \in Orders : FillsAlone(v, p)'
      BY <2>2, <2>6 DEF Filling, FillsAlone
    <3>2. \A v \in Workers \ {w} : work'[v].step # "paid"
      BY <2>4, <2>5
    <3>3. ASSUME NEW v \in Workers, NEW p \in Orders, At(v, "paid", p)'
          PROVE  /\ work'[v].after.qty = position'.qty + Size(p)'
                 /\ \A u \in Workers \ {v} : work'[u].step # "paid"
      <4>1. v = w /\ p = o
        BY <2>5, <3>2, <3>3 DEF At
      <4>2. Size(o)' = Size(o)
        BY <2>2 DEF Size
      <4> QED
        BY <2>1, <2>2, <2>5, <3>2, <4>1, <4>2
    <3> QED
      BY <3>1, <3>3 DEF Filling, PaysForThePosition
  <2>8. \A p \in Orders : Unfilled(p)' <=> Unfilled(p)
    BY <2>6 DEF Unfilled, Fills
  <2> QED
    BY <2>2, <2>7, <2>8, NothingImplements DEF Honours
<1>13. CASE FillFails(w, o)
  <2>1. /\ At(w, "traded", o) \/ At(w, "paid", o)
        /\ Undisturbing(w, o) /\ Marked(o, "rejected") /\ Ends(w, o, FALSE)
        /\ UNCHANGED position
    BY <1>13 DEF FillFails, FillsApart
  <2>2. work'[w].step = "idle" /\ \A v \in Workers \ {w} : work'[v] = work[v]
    BY <1>1, <2>1, GoingStep
  <2> QED
    BY <1>4, <1>6, <2>1, <2>2
<1>14. CASE Nets(w, o)
  <2>1. At(w, "paid", o) /\ position' = work[w].after /\ UNCHANGED orders
    BY <1>14 DEF Nets
  <2>2. /\ work'[w].step = "netted" /\ work'[w].order = o
        /\ \A v \in Workers \ {w} : work'[v] = work[v]
    BY <1>1, <1>2, <1>14, FlatIsLots, GoingStep DEF Nets
  <2>3. /\ position'.qty = position.qty + Size(o)
        /\ \A v \in Workers \ {w} : work[v].step # "paid"
    BY <2>1 DEF Filling, PaysForThePosition
  <2>4. \A v \in Workers : work'[v].step # "paid"
    BY <2>2, <2>3
  <2>5. \A v \in Workers, p \in Orders : Fills(v, p)' => Fills(v, p) /\ v # w
    BY <2>2 DEF Fills, At
  <2>6. Filling'
    BY <2>1, <2>4, <2>5 DEF Filling, FillsAlone, PaysForThePosition, At
  <2>7. \A v \in Workers : ~Fills(v, o)'
    BY <1>6, <2>1, <2>5
  <2>8. Phase(o)' = "filled"
    <3>1. ~Unfilled(o)' /\ orders'[o].status = "complete" /\ ~IsPending(o)'
      BY <1>6, <2>1, <2>7 DEF Unfilled, Fills, IsPending, Pending
    <3> QED
      BY <3>1 DEF Phase, IsPending, Pending
  <2>9. \A p \in Orders \ {o} : Unfilled(p)' <=> Unfilled(p)
    BY <1>1, <2>2, OthersFilled
  <2>10. Turns(o, "filled", Size(o))
    BY <2>1, <2>8, <2>9 DEF Turns, Size
  <2> QED
    BY <1>6, <2>1, <2>3, <2>6, <2>10, FillImplements DEF Honours
<1>15. CASE Reconciles(w, o)
  BY <1>7, <1>15 DEF Reconciles
<1> QED
  BY <1>8, <1>9, <1>10, <1>11, <1>12, <1>13, <1>14, <1>15 DEF GoesOn

LEMMA NextHonours == Undisturbed /\ FillsApart /\ Book /\ Filling /\ [Next]_vars => Honours
<1> SUFFICES ASSUME Undisturbed, FillsApart, Book, Filling, [Next]_vars
             PROVE  Honours
  OBVIOUS
<1>1. CASE CycleReads \/ FeedLost \/ FeedBack \/ UNCHANGED vars
  BY <1>1, QuietHonours DEF CycleReads, FeedLost, FeedBack, vars
<1>2. CASE Restart
  BY <1>2, IdleIsJob, QuietHonours DEF Restart, FillsApart
<1> QED
  BY <1>1, <1>2, RequestHonours, EvaluationHonours, GoingOnHonours DEF Next

\* Requests, ticks, cycles and fills, step by step and side by side, implement the
\* contract of the order book: an order is filled once and whole or withdrawn for
\* good, and the position is the sum of the fills.
THEOREM OrdersImplementContract ==
  ASSUME Undisturbed, FillsApart
  PROVE  Spec => KeepsOrderContract
<1>1. Init => Contract!Init /\ Filling
  <2> SUFFICES ASSUME Init
               PROVE  Contract!Init /\ Filling
    OBVIOUS
  <2>1. \A o \in Orders : Phase(o) = "none" /\ Size(o) = 0
    <3>1. \A o \in Orders : orders[o] = Blank
      BY DEF Init
    <3>2. Blank.side * Blank.qty = 0
      BY DEF Blank
    <3> QED
      BY <3>1, <3>2, PhaseIs DEF Size
  <2>2. Phases = [o \in Orders |-> "none"] /\ Sized = [o \in Orders |-> 0] /\ position.qty = 0
    BY <2>1 DEF Init, Phases, Sized, Flat
  <2>3. Filling
    BY IdleIsJob DEF Init, Filling, FillsAlone, PaysForThePosition, Fills, At
  <2> QED
    BY <2>2, <2>3 DEF Contract!Init, Phases, Sized
<1>2. Book /\ Filling /\ [Next]_vars => Filling' /\ [Contract!Next]_(Contract!vars)
  BY NextHonours DEF Honours
<1> QED
  BY <1>1, <1>2, AlwaysBook, PTL DEF Spec, KeepsOrderContract, Contract!Spec
=============================================================================
