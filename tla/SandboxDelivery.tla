-------------------------- MODULE SandboxDelivery --------------------------
(***************************************************************************)
(* Delivery (CNC) shares of one sandbox user: the orders that buy and sell *)
(* them, the day's positions, and the settlement that turns positions of   *)
(* earlier days into holdings, at midnight or, when that was missed, as    *)
(* catch-up at a later start or login.                                     *)
(*                                                                         *)
(* Handlers are steps, as in SandboxOrders.  Which evaluator fills an      *)
(* order, and that a fill may fail, is its matter: here an order that is   *)
(* open may be filled.  A lot trades at one unit of money, its margin.     *)
(***************************************************************************)
EXTENDS Integers, SequencesExt

CONSTANTS
  Stocks,              \* symbols
  DeliveryQuantities,  \* lots an order may ask for
  StartingCapital,     \* starting_capital
  MaxOrders,           \* bound: orders placed
  DeliveryAdmitted     \* which of the hazards below may happen

(***************************************************************************)
(*   sellsOverlap    a sell is placed while another of the stock rests, or *)
(*                   is modified upwards: only the former is compared with *)
(*                   the shares there are, and not with what already rests *)
(*   underfunded     a fill leaves a position with less margin than its    *)
(*                   lots cost, or a cancel gives back a position's margin *)
(*   settlementDies  the process dies between two commits of a settlement  *)
(***************************************************************************)
DeliveryHazards == {"sellsOverlap", "underfunded", "settlementDies"}

ASSUME DeliveryAssumption ==
  /\ IsFiniteSet(Stocks)
  /\ DeliveryQuantities \subseteq Nat \ {0}
  /\ StartingCapital \in Nat
  /\ DeliveryAdmitted \subseteq DeliveryHazards

VARIABLES
  book,       \* the orders, in the order they came
  positions,  \* the rows of sandbox_positions; old: created before today
  holdings,   \* the rows of sandbox_holdings
  account     \* the row of sandbox_funds

deliveryVars == <<book, positions, holdings, account>>

\* The row of a stock is updated, or inserted.
Written(rows, s, row) == [t \in DOMAIN rows \cup {s} |-> IF t = s THEN row ELSE rows[t]]

Position(s) ==
  IF s \in DOMAIN positions THEN positions[s] ELSE [qty |-> 0, margin |-> 0, old |-> FALSE]

Owned(s) == IF s \in DOMAIN holdings THEN holdings[s] ELSE 0

Stock(s) == INSTANCE SandboxMargin WITH position <- Position(s), funds <- account

IsOpen(n) == book[n].status = "open"

\* What the open positions reserve.
Reserved == SumFunctionOnSet([s \in Stocks |-> Position(s).margin], Stocks)

Funded ==
  /\ account.used >= Reserved
  /\ \A s \in Stocks : Position(s).margin >= Position(s).qty

MayUndercut == "underfunded" \in DeliveryAdmitted \/ Funded'

DeliveryInit ==
  /\ book = <<>> /\ positions = <<>> /\ holdings = <<>>
  /\ account = [available |-> StartingCapital, used |-> 0, realized |-> 0]

-----------------------------------------------------------------------------
(***************************************************************************)
(* Orders.                                                                 *)
(***************************************************************************)
JoinsBook(status, s, side, qty, held) ==
  /\ Len(book) < MaxOrders
  /\ book' = Append(book, [status |-> status, stock |-> s, side |-> side,
                           qty |-> qty, held |-> held])

\* place_order: what the buy adds to the position is reserved.
Buys(s, qty) ==
  LET need == Stock(s)!Needed(1, qty)
  IN  /\ need > 0 => need <= account.available
      /\ JoinsBook("open", s, 1, qty, need)
      /\ account' = Stock(s)!Blocked(need)
      /\ UNCHANGED <<positions, holdings>>

\* Mutant: "counting only positive positions".
AvailablePositive(s) ==
  (IF Position(s).qty > 0 THEN Position(s).qty ELSE 0) + (IF Owned(s) > 0 THEN Owned(s) ELSE 0)

\* The shares that a sell is compared with; those sold today count against it.
Available(s) == Position(s).qty + (IF Owned(s) > 0 THEN Owned(s) ELSE 0)

\* place_order: a sell reserves nothing; one of more than there is goes on record
\* as rejected.
Sells(s, qty) ==
  /\ \/ "sellsOverlap" \in DeliveryAdmitted
     \/ \A n \in DOMAIN book : ~(IsOpen(n) /\ book[n].stock = s /\ book[n].side = -1)
  /\ JoinsBook(IF qty <= Available(s) THEN "open" ELSE "rejected", s, -1, qty, 0)
  /\ UNCHANGED <<positions, holdings, account>>

\* modify_order: neither margin nor shares are looked at.
Modifies(n, qty) ==
  /\ IsOpen(n)
  /\ "sellsOverlap" \in DeliveryAdmitted \/ book[n].side = 1 \/ qty < book[n].qty
  /\ book' = [book EXCEPT ![n].qty = qty]
  /\ UNCHANGED <<positions, holdings, account>>

\* cancel_order: a buy that reserved nothing gives back what its lots would.
Cancels(n) ==
  LET back == CASE book[n].held > 0 -> book[n].held
                [] book[n].held = 0 /\ book[n].side = 1 -> book[n].qty
                [] OTHER -> 0
  IN  /\ IsOpen(n)
      /\ book' = [book EXCEPT ![n].status = "cancelled"]
      /\ account' = Stock(book[n].stock)!Release(account, back, 0)
      /\ UNCHANGED <<positions, holdings>>
      /\ MayUndercut

\* _execute_order and _update_position, with the reconciliation they end with.
Executes(n) ==
  LET r == book[n]
      s == r.stock
  IN  /\ IsOpen(n)
      /\ book' = [book EXCEPT ![n].status = "complete"]
      /\ positions' = Written(positions, s,
           [qty |-> Stock(s)!Netted(r, r.qty).qty,
            margin |-> Stock(s)!Netted(r, r.qty).margin,
            old |-> Position(s).old])
      /\ account' = Stock(s)!Reconcile(Stock(s)!Paid(account, r, r.qty, 0), Reserved')
      /\ UNCHANGED holdings
      /\ MayUndercut

-----------------------------------------------------------------------------
(***************************************************************************)
(* Settlement, of an account, positions and holdings b.                    *)
(***************************************************************************)

\* Midnight: what is there was created before today.
DayPasses ==
  /\ positions' = [s \in DOMAIN positions |-> [positions[s] EXCEPT !.old = TRUE]]
  /\ UNCHANGED <<book, holdings, account>>

\* Mutant: what leaves the reserve becomes cash.
TransferredToCash(a, amount) ==
  IF amount > a.used THEN a
  ELSE [a EXCEPT !.used = @ - amount, !.available = @ + amount]

\* transfer_margin_to_holdings: refused if the reserve does not hold it.
Transferred(a, amount) == IF amount > a.used THEN a ELSE [a EXCEPT !.used = @ - amount]

\* credit_sale_proceeds
Credited(a, amount) == [a EXCEPT !.available = @ + amount]

\* The position's shares go to the holding, or come from it, and so does the
\* money, refused or not.
Moved(b, s) ==
  LET qty == b.positions[s].qty
      known == s \in DOMAIN b.holdings
      owned == IF known THEN b.holdings[s] ELSE 0
  IN  IF qty = 0 THEN b
      ELSE [b EXCEPT
              !.holdings = Written(@, s, owned + qty),
              !.account = IF known /\ qty < 0 THEN Credited(@, -qty)
                          ELSE Transferred(@, Stock(s)!Abs(qty))]

\* Mutant: only a position with nothing left is deleted.
ClearedIfEmpty(b, s) ==
  [b EXCEPT !.positions = Restrict(@, {t \in DOMAIN @ : t # s \/ @[t].qty # 0})]

\* Then the position is deleted, and so is a holding with nothing left.
Cleared(b, s) ==
  [b EXCEPT
     !.positions = Restrict(@, DOMAIN @ \ {s}),
     !.holdings = Restrict(@, {t \in DOMAIN @ : t # s \/ b.positions[s].qty = 0 \/ @[t] # 0})]

Current == [account |-> account, positions |-> positions, holdings |-> holdings]

\* process_t1_settlement on one position after the other.
Batch(stocks) ==
  LET after[k \in 0..Len(stocks)] ==
        IF k = 0 THEN Current
        ELSE Cleared(Moved(after[k - 1], stocks[k]), stocks[k])
  IN  after[Len(stocks)]

(***************************************************************************)
(* Each transfer or credit commits the session: the holding it belongs to  *)
(* and the deletions before it, but not yet its own position's.            *)
(***************************************************************************)
Torn(stocks) ==
  LET before(k) == Batch(SubSeq(stocks, 1, k - 1))
      commits(k) == Moved(before(k), stocks[k]).account # before(k).account
  IN  {Moved(before(k), stocks[k]) : k \in {j \in DOMAIN stocks : commits(j)}}

Settles ==
  LET due == {s \in DOMAIN positions : positions[s].old}
  IN  /\ due # {}
      /\ \E stocks \in SetToSeqs(due) :
           \E b \in {Batch(stocks)} \cup
                      (IF "settlementDies" \in DeliveryAdmitted THEN Torn(stocks) ELSE {}) :
             /\ account' = b.account
             /\ positions' = b.positions
             /\ holdings' = b.holdings
      /\ UNCHANGED book

DeliveryNext ==
  \/ \E s \in Stocks, qty \in DeliveryQuantities : Buys(s, qty) \/ Sells(s, qty)
  \/ \E n \in DOMAIN book : Cancels(n) \/ Executes(n)
  \/ \E n \in DOMAIN book, qty \in DeliveryQuantities : Modifies(n, qty)
  \/ DayPasses \/ Settles

DeliverySpec == DeliveryInit /\ [][DeliveryNext]_deliveryVars

-----------------------------------------------------------------------------
\* Lots of a stock that were bought and not sold.
NetFilled(s) ==
  SumFunctionOnSet([n \in DOMAIN book |-> book[n].side * book[n].qty],
                   {n \in DOMAIN book : book[n].status = "complete" /\ book[n].stock = s})

\* "Move CNC positions to holdings": whenever a settlement comes, and whatever is
\* traded before and after it, position and holding together are the shares that
\* were bought and not sold.
SharesKept == \A s \in Stocks : Position(s).qty + Owned(s) = NetFilled(s)

\* "The same shares cannot be sold twice": neither the holding nor what it will be
\* once the day's position is settled goes below nothing.
NeverOversold == \A s \in Stocks : Owned(s) >= 0 /\ Position(s).qty + Owned(s) >= 0

\* "The money is now represented in holdings value, not available cash": cash,
\* reserve and holdings add up to the capital, so settled shares have been paid.
SharesPaidFor ==
  account.available + account.used + SumFunctionOnSet([s \in Stocks |-> Owned(s)], Stocks)
    = StartingCapital
=============================================================================
