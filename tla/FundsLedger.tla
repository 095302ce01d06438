----------------------------- MODULE FundsLedger -----------------------------
(***************************************************************************)
(* What the sandbox account promises: every movement of money is one       *)
(* indivisible entry, cash is never reserved twice, and no more is given   *)
(* back than was reserved.                                                 *)
(***************************************************************************)
EXTENDS Integers

CONSTANTS Amounts, Profits, Marks, Capital

VARIABLE book   \* the account after the entries made so far

Opening == [available |-> Capital, used |-> 0, realized |-> 0, unrealized |-> 0, total |-> 0]

Init == book = Opening

\* The cash and the margin change, the profits do not.
Moved(cash, margin) ==
  [available |-> cash, used |-> margin, realized |-> book.realized,
   unrealized |-> book.unrealized, total |-> book.total]

Block(a) ==
  /\ a <= book.available
  /\ book' = Moved(book.available - a, book.used + a)

\* Margin comes back with the profit or loss of what it was held for.
Release(a, p) ==
  /\ a <= book.used
  /\ book' = [available |-> book.available + a + p, used |-> book.used - a,
              realized |-> book.realized + p, unrealized |-> book.unrealized,
              total |-> book.realized + p + book.unrealized]

\* Margin that backed nothing comes back as cash.
Unblock(a) == a <= book.used /\ book' = Moved(book.available + a, book.used - a)

\* Margin becomes a holding.
Transfer(a) == a <= book.used /\ book' = Moved(book.available, book.used - a)

\* A holding becomes cash.
Credit(a) == book' = Moved(book.available + a, book.used)

\* Open positions are valued.
Mark(u) ==
  book' = [available |-> book.available, used |-> book.used, realized |-> book.realized,
           unrealized |-> u, total |-> book.realized + u]

Reset == book' = Opening

Next ==
  \/ \E a \in Amounts : Block(a) \/ Unblock(a) \/ Transfer(a) \/ Credit(a)
  \/ \E a \in Amounts \cup {0}, p \in Profits : Release(a, p)
  \/ \E u \in Marks : Mark(u)
  \/ Reset

Spec == Init /\ [][Next]_book
=============================================================================
