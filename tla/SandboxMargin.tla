--------------------------- MODULE SandboxMargin ---------------------------
(***************************************************************************)
(* What an order and its fill do to one position and to the account: the   *)
(* margin a new order reserves, the position a fill leaves, what is given  *)
(* back.  A lot's margin is one unit of money; shares of it are rounded    *)
(* down.                                                                   *)
(***************************************************************************)
EXTENDS Integers

VARIABLES
  position,   \* a row of sandbox_positions: size and margin
  funds       \* the row of sandbox_funds

Abs(n) == IF n < 0 THEN -n ELSE n

-----------------------------------------------------------------------------
(***************************************************************************)
(* Margin.                                                                 *)
(***************************************************************************)
Opposes(side) == position.qty * side < 0

\* What a new order must reserve: only what it adds beyond the position it closes.
Needed(side, qty) ==
  IF ~Opposes(side) THEN qty
  ELSE IF qty <= Abs(position.qty) THEN 0 ELSE qty - Abs(position.qty)

Blocked(amount) ==
  [available |-> funds.available - amount, used |-> funds.used + amount,
   realized |-> funds.realized]

\* Mutant: nothing is checked.
ReleaseUnchecked(account, amount, pnl) ==
  [available |-> account.available + amount + pnl, used |-> account.used - amount,
   realized |-> account.realized + pnl]

\* release_margin gives back nothing when more is asked for than is reserved.
Release(account, amount, pnl) ==
  IF amount > account.used THEN account
  ELSE [available |-> account.available + amount + pnl, used |-> account.used - amount,
        realized |-> account.realized + pnl]

\* Mutant: what is taken off the reserve is not given back.
ReconcileDrops(account, margin) == [account EXCEPT !.used = margin]

\* The reserve becomes the margin of the open positions, the rest is cash.
Reconcile(account, margin) ==
  [available |-> account.available + account.used - margin, used |-> margin,
   realized |-> account.realized]

-----------------------------------------------------------------------------
(***************************************************************************)
(* A fill: the position it leaves, and what it gives back.                 *)
(***************************************************************************)
Netted(r, lots) ==
  LET old == Abs(position.qty)
  IN  [qty |-> position.qty + r.side * lots,
       margin |-> CASE position.qty = 0 -> r.held
                    [] position.qty # 0 /\ ~Opposes(r.side) -> position.margin + r.held
                    [] Opposes(r.side) /\ lots <= old ->
                         position.margin - (position.margin * lots) \div old
                    [] OTHER -> (r.held * (lots - old)) \div lots]

GivenBack(r, lots) ==
  IF ~Opposes(r.side) THEN 0
  ELSE IF lots >= Abs(position.qty) THEN position.margin
  ELSE (position.margin * lots) \div Abs(position.qty)

\* Closing lots realizes a profit, credited only if margin comes back with it.
Paid(account, r, lots, pnl) ==
  IF GivenBack(r, lots) > 0 THEN Release(account, GivenBack(r, lots), pnl) ELSE account
=============================================================================
