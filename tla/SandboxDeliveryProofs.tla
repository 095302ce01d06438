------------------------ MODULE SandboxDeliveryProofs ------------------------
(***************************************************************************)
(* Delivery shares, for any stocks, quantities, capital and number of      *)
(* orders: position and holding together are the shares that were traded,  *)
(* through every settlement; no more is sold than there is, while sells of *)
(* a stock do not overlap; and what is settled has been paid for.          *)
(***************************************************************************)
EXTENDS SandboxDelivery, SequenceTheorems, SumLemmas

Side == {1, -1}

DeliveryOrder == [status : {"open", "complete", "cancelled", "rejected"}, stock : Stocks,
                  side : Side, qty : DeliveryQuantities, held : Nat]

DeliveryRow == [qty : Int, margin : Int, old : BOOLEAN]

DeliveryAccount == [available : Int, used : Int, realized : Int]

\* What the settlement works on: an account, positions and holdings.
IsBundle(b) ==
  /\ b = [account |-> b.account, positions |-> b.positions, holdings |-> b.holdings]
  /\ b.account \in DeliveryAccount
  /\ DOMAIN b.positions \subseteq Stocks /\ b.positions \in [DOMAIN b.positions -> DeliveryRow]
  /\ DOMAIN b.holdings \subseteq Stocks /\ b.holdings \in [DOMAIN b.holdings -> Int]

PositionIn(b, s) ==
  IF s \in DOMAIN b.positions THEN b.positions[s] ELSE [qty |-> 0, margin |-> 0, old |-> FALSE]

OwnedIn(b, s) == IF s \in DOMAIN b.holdings THEN b.holdings[s] ELSE 0

DeliveryTypeOK ==
  /\ book \in Seq(DeliveryOrder)
  /\ IsBundle(Current)

-----------------------------------------------------------------------------
(***************************************************************************)
(* One position is settled.                                                *)
(***************************************************************************)
Settled(b, s) == Cleared(Moved(b, s), s)

\* The holding gains the position's shares.
LEMMA MovedParts ==
  ASSUME NEW b, IsBundle(b), NEW s \in DOMAIN b.positions
  PROVE  LET c == Moved(b, s)
             qty == b.positions[s].qty
         IN  /\ IsBundle(c)
             /\ c.positions = b.positions
             /\ OwnedIn(c, s) = OwnedIn(b, s) + qty
             /\ qty # 0 => s \in DOMAIN c.holdings
             /\ \A t \in Stocks \ {s} : OwnedIn(c, t) = OwnedIn(b, t)
             /\ c.account =
                  IF qty = 0 THEN b.account
                  ELSE IF s \in DOMAIN b.holdings /\ qty < 0 THEN Credited(b.account, -qty)
                  ELSE Transferred(b.account, IF qty < 0 THEN -qty ELSE qty)
<1> DEFINE qty == b.positions[s].qty
           a == IF s \in DOMAIN b.holdings /\ qty < 0 THEN Credited(b.account, -qty)
                ELSE Transferred(b.account, IF qty < 0 THEN -qty ELSE qty)
           h == Written(b.holdings, s, OwnedIn(b, s) + qty)
<1>1. /\ b = [account |-> b.account, positions |-> b.positions, holdings |-> b.holdings]
      /\ b.account \in DeliveryAccount
      /\ DOMAIN b.positions \subseteq Stocks /\ b.positions \in [DOMAIN b.positions -> DeliveryRow]
      /\ DOMAIN b.holdings \subseteq Stocks /\ b.holdings \in [DOMAIN b.holdings -> Int]
  BY DEF IsBundle
<1>2. s \in Stocks /\ qty \in Int
  BY <1>1 DEF DeliveryRow
<1>3. OwnedIn(b, s) \in Int
  BY <1>1 DEF OwnedIn
<1>4. CASE qty = 0
  <2>1. Moved(b, s) = b
    BY <1>4 DEF Moved
  <2> QED
    BY <1>3, <1>4, <2>1
<1>5. CASE qty # 0
  <2>1. Moved(b, s) = [b EXCEPT !.holdings = h, !.account = a]
    BY <1>5 DEF Moved, OwnedIn, Stock!Abs
  <2>2. Moved(b, s) = [account |-> a, positions |-> b.positions, holdings |-> h]
    BY <1>1, <2>1
  <2>3. /\ DOMAIN h = DOMAIN b.holdings \cup {s} /\ h[s] = OwnedIn(b, s) + qty
        /\ \A t \in DOMAIN b.holdings \ {s} : h[t] = b.holdings[t]
        /\ h \in [DOMAIN h -> Int]
    BY <1>1, <1>2, <1>3 DEF Written
  <2>4. a \in DeliveryAccount
    BY <1>1, <1>2 DEF Credited, Transferred, DeliveryAccount
  <2>5. IsBundle(Moved(b, s))
    BY <1>1, <1>2, <2>2, <2>3, <2>4 DEF IsBundle
  <2>6. OwnedIn(Moved(b, s), s) = OwnedIn(b, s) + qty
    BY <2>2, <2>3 DEF OwnedIn
  <2>7. \A t \in Stocks \ {s} : OwnedIn(Moved(b, s), t) = OwnedIn(b, t)
    BY <2>2, <2>3 DEF OwnedIn
  <2> QED
    BY <1>5, <2>2, <2>3, <2>5, <2>6, <2>7
<1> QED
  BY <1>4, <1>5

\* The position goes, and a holding with nothing left, which changes no count.
LEMMA ClearedParts ==
  ASSUME NEW b, IsBundle(b), NEW s \in DOMAIN b.positions
  PROVE  LET c == Cleared(b, s)
         IN  /\ IsBundle(c)
             /\ DOMAIN c.positions = DOMAIN b.positions \ {s}
             /\ \A t \in DOMAIN c.positions : c.positions[t] = b.positions[t]
             /\ \A t \in Stocks : OwnedIn(c, t) = OwnedIn(b, t)
             /\ c.account = b.account
<1> DEFINE p == Restrict(b.positions, DOMAIN b.positions \ {s})
           kept == {t \in DOMAIN b.holdings : t # s \/ b.positions[s].qty = 0 \/ b.holdings[t] # 0}
           h == Restrict(b.holdings, kept)
<1>1. /\ b = [account |-> b.account, positions |-> b.positions, holdings |-> b.holdings]
      /\ b.account \in DeliveryAccount
      /\ DOMAIN b.positions \subseteq Stocks /\ b.positions \in [DOMAIN b.positions -> DeliveryRow]
      /\ DOMAIN b.holdings \subseteq Stocks /\ b.holdings \in [DOMAIN b.holdings -> Int]
  BY DEF IsBundle
<1>2. Cleared(b, s) = [b EXCEPT !.positions = p, !.holdings = h]
  BY DEF Cleared
<1>3. /\ DOMAIN p = DOMAIN b.positions \ {s} /\ \A t \in DOMAIN p : p[t] = b.positions[t]
      /\ p \in [DOMAIN p -> DeliveryRow]
  BY <1>1 DEF Restrict
<1>4. /\ DOMAIN h = kept /\ \A t \in kept : h[t] = b.holdings[t]
      /\ h \in [DOMAIN h -> Int] /\ kept \subseteq DOMAIN b.holdings
      /\ \A t \in DOMAIN b.holdings \ kept : b.holdings[t] = 0
  BY <1>1 DEF Restrict
<1> HIDE DEF p, h, kept
<1>5. Cleared(b, s) = [account |-> b.account, positions |-> p, holdings |-> h]
  BY <1>1, <1>2
<1>6. IsBundle(Cleared(b, s))
  BY <1>1, <1>3, <1>4, <1>5 DEF IsBundle
<1>7. \A t \in Stocks : OwnedIn(Cleared(b, s), t) = OwnedIn(b, t)
  BY <1>4, <1>5 DEF OwnedIn
<1> QED
  BY <1>3, <1>5, <1>6, <1>7

\* What the settlement of a position does.
LEMMA SettledParts ==
  ASSUME NEW b, IsBundle(b), NEW s \in DOMAIN b.positions
  PROVE  LET c == Settled(b, s)
             qty == PositionIn(b, s).qty
         IN  /\ IsBundle(c)
             /\ DOMAIN c.positions = DOMAIN b.positions \ {s}
             /\ PositionIn(c, s).qty = 0 /\ PositionIn(c, s).margin = 0
             /\ OwnedIn(c, s) = OwnedIn(b, s) + qty
             /\ \A t \in Stocks \ {s} : PositionIn(c, t) = PositionIn(b, t) /\ OwnedIn(c, t) = OwnedIn(b, t)
             /\ c.account =
                  IF qty = 0 THEN b.account
                  ELSE IF s \in DOMAIN b.holdings /\ qty < 0 THEN Credited(b.account, -qty)
                  ELSE Transferred(b.account, IF qty < 0 THEN -qty ELSE qty)
<1> DEFINE m == Moved(b, s)
           c == Cleared(m, s)
           qty == b.positions[s].qty
<1>1. PositionIn(b, s) = b.positions[s] /\ s \in Stocks
  BY DEF PositionIn, IsBundle
<1>2. /\ IsBundle(m) /\ m.positions = b.positions /\ OwnedIn(m, s) = OwnedIn(b, s) + qty
      /\ \A t \in Stocks \ {s} : OwnedIn(m, t) = OwnedIn(b, t)
      /\ m.account =
           IF qty = 0 THEN b.account
           ELSE IF s \in DOMAIN b.holdings /\ qty < 0 THEN Credited(b.account, -qty)
           ELSE Transferred(b.account, IF qty < 0 THEN -qty ELSE qty)
  BY MovedParts
<1> HIDE DEF m, qty
<1>3. s \in DOMAIN m.positions
  BY <1>2
<1>4. /\ IsBundle(c)
      /\ DOMAIN c.positions = DOMAIN m.positions \ {s}
      /\ \A t \in DOMAIN c.positions : c.positions[t] = m.positions[t]
      /\ \A t \in Stocks : OwnedIn(c, t) = OwnedIn(m, t)
      /\ c.account = m.account
  BY <1>2, <1>3, ClearedParts
<1> HIDE DEF c
<1>5. PositionIn(c, s) = [qty |-> 0, margin |-> 0, old |-> FALSE]
  BY <1>4 DEF PositionIn
<1>6. \A t \in Stocks \ {s} : PositionIn(c, t) = PositionIn(b, t) /\ OwnedIn(c, t) = OwnedIn(b, t)
  BY <1>2, <1>4 DEF PositionIn
<1>7. Settled(b, s) = c
  BY DEF Settled, m, c
<1>8. qty = PositionIn(b, s).qty
  BY <1>1 DEF qty
<1> QED
  BY <1>1, <1>2, <1>4, <1>5, <1>6, <1>7, <1>8

\* Shares are neither made nor lost.
SharesIn(b, t) == PositionIn(b, t).qty + OwnedIn(b, t)

\* Nothing is short: nothing is held or owned below nothing once it is settled.
NotShort(b) == \A t \in Stocks : OwnedIn(b, t) >= 0 /\ SharesIn(b, t) >= 0

MarginsIn(b) == [t \in Stocks |-> PositionIn(b, t).margin]
HoldingsIn(b) == [t \in Stocks |-> OwnedIn(b, t)]

\* Every position has the margin of its lots, and the reserve all of it.
FundedIn(b) ==
  /\ b.account.used >= SumFunctionOnSet(MarginsIn(b), Stocks)
  /\ \A t \in Stocks : PositionIn(b, t).margin >= PositionIn(b, t).qty
                     /\ PositionIn(b, t).margin >= 0

WorthIn(b) == b.account.available + b.account.used + SumFunctionOnSet(HoldingsIn(b), Stocks)

LEMMA BundleInts ==
  ASSUME NEW b, IsBundle(b), NEW t \in Stocks
  PROVE  /\ PositionIn(b, t).qty \in Int /\ PositionIn(b, t).margin \in Int
         /\ OwnedIn(b, t) \in Int /\ SharesIn(b, t) \in Int
         /\ b.account.available \in Int /\ b.account.used \in Int
<1>1. PositionIn(b, t).qty \in Int /\ PositionIn(b, t).margin \in Int
  <2>1. CASE t \in DOMAIN b.positions
    <3>1. b.positions[t] \in DeliveryRow
      BY <2>1 DEF IsBundle
    <3> QED
      BY <2>1, <3>1 DEF PositionIn, DeliveryRow
  <2>2. CASE t \notin DOMAIN b.positions
    BY <2>2 DEF PositionIn
  <2> QED
    BY <2>1, <2>2
<1>2. OwnedIn(b, t) \in Int
  <2>1. CASE t \in DOMAIN b.holdings
    BY <2>1 DEF IsBundle, OwnedIn
  <2>2. CASE t \notin DOMAIN b.holdings
    BY <2>2 DEF OwnedIn
  <2> QED
    BY <2>1, <2>2
<1>3. b.account.available \in Int /\ b.account.used \in Int
  BY DEF IsBundle, DeliveryAccount
<1> QED
  BY <1>1, <1>2, <1>3 DEF SharesIn

\* Settling a position keeps each stock's shares, and what is not short so.
LEMMA SettledKeepsShares ==
  ASSUME NEW b, IsBundle(b), NEW s \in DOMAIN b.positions
  PROVE  /\ \A t \in Stocks : SharesIn(Settled(b, s), t) = SharesIn(b, t)
         /\ NotShort(b) => NotShort(Settled(b, s))
<1> DEFINE c == Settled(b, s)
<1>1. s \in Stocks
  BY DEF IsBundle
<1>2. /\ IsBundle(c) /\ PositionIn(c, s).qty = 0
      /\ OwnedIn(c, s) = OwnedIn(b, s) + PositionIn(b, s).qty
      /\ \A t \in Stocks \ {s} : PositionIn(c, t) = PositionIn(b, t) /\ OwnedIn(c, t) = OwnedIn(b, t)
  BY SettledParts
<1> HIDE DEF c
<1>3. SharesIn(c, s) = SharesIn(b, s) /\ OwnedIn(c, s) = SharesIn(b, s)
  BY <1>1, <1>2, BundleInts DEF SharesIn
<1>4. \A t \in Stocks : SharesIn(c, t) = SharesIn(b, t)
  BY <1>2, <1>3 DEF SharesIn
<1>5. NotShort(b) => NotShort(c)
  BY <1>2, <1>3, <1>4 DEF NotShort
<1> QED
  BY <1>4, <1>5 DEF c

\* It keeps the worth of the account too, if the reserve holds the position's
\* margin, and leaves the other positions theirs.
LEMMA SettledKeepsWorth ==
  ASSUME NEW b, IsBundle(b), NotShort(b), FundedIn(b), NEW s \in DOMAIN b.positions
  PROVE  FundedIn(Settled(b, s)) /\ WorthIn(Settled(b, s)) = WorthIn(b)
<1> DEFINE c == Settled(b, s)
           qty == PositionIn(b, s).qty
           margin == PositionIn(b, s).margin
           margins == SumFunctionOnSet(MarginsIn(b), Stocks)
           owned == SumFunctionOnSet(HoldingsIn(b), Stocks)
<1>1. s \in Stocks /\ IsFiniteSet(Stocks)
  BY DeliveryAssumption DEF IsBundle
<1>2. /\ IsBundle(c) /\ PositionIn(c, s).qty = 0 /\ PositionIn(c, s).margin = 0
      /\ OwnedIn(c, s) = OwnedIn(b, s) + qty
      /\ \A t \in Stocks \ {s} : PositionIn(c, t) = PositionIn(b, t) /\ OwnedIn(c, t) = OwnedIn(b, t)
      /\ c.account =
           IF qty = 0 THEN b.account
           ELSE IF s \in DOMAIN b.holdings /\ qty < 0 THEN Credited(b.account, -qty)
           ELSE Transferred(b.account, IF qty < 0 THEN -qty ELSE qty)
  BY SettledParts
<1> HIDE DEF c
<1>3. qty \in Int /\ margin \in Int /\ b.account \in DeliveryAccount
      /\ b.account.available \in Int /\ b.account.used \in Int
  BY <1>1, BundleInts DEF IsBundle
<1>4. \A t \in Stocks : MarginsIn(b)[t] \in Int /\ HoldingsIn(b)[t] \in Int
  BY BundleInts DEF MarginsIn, HoldingsIn
<1>5. /\ MarginsIn(c)[s] = 0 /\ \A t \in Stocks \ {s} : MarginsIn(c)[t] = MarginsIn(b)[t]
      /\ MarginsIn(b)[s] = margin
      /\ HoldingsIn(c)[s] = HoldingsIn(b)[s] + qty
      /\ \A t \in Stocks \ {s} : HoldingsIn(c)[t] = HoldingsIn(b)[t]
  BY <1>1, <1>2 DEF MarginsIn, HoldingsIn
<1>6. SumFunctionOnSet(MarginsIn(c), Stocks) = margins + 0 - margin
  BY <1>1, <1>4, <1>5, SumMovesWithOne
<1>7. SumFunctionOnSet(HoldingsIn(c), Stocks) = owned + HoldingsIn(c)[s] - HoldingsIn(b)[s]
  <2>1. HoldingsIn(c)[s] \in Int
    BY <1>1, <1>3, <1>4, <1>5
  <2> QED
    BY <1>1, <1>4, <1>5, <2>1, SumMovesWithOne
<1>8. margins \in Int /\ owned \in Int
  BY <1>1, <1>4, SumIsInt
<1>9. SumFunctionOnSet(HoldingsIn(c), Stocks) = owned + qty
  BY <1>1, <1>3, <1>4, <1>5, <1>7, <1>8
<1>10. margin >= qty /\ margin >= 0 /\ b.account.used >= margins
  BY <1>1 DEF FundedIn
<1>11. margins >= margin
  <2>1. \A t \in Stocks : MarginsIn(b)[t] >= 0
    BY DEF FundedIn, MarginsIn
  <2>2. margins = margin + SumFunctionOnSet(MarginsIn(b), Stocks \ {s})
    BY <1>1, <1>4, <1>5, SumTakesOut
  <2>3. IsFiniteSet(Stocks \ {s}) /\ \A t \in Stocks \ {s} : MarginsIn(b)[t] \in Nat
    BY <1>1, <1>4, <2>1, FS_RemoveElement
  <2>4. SumFunctionOnSet(MarginsIn(b), Stocks \ {s}) \in Nat
    BY <2>3, SumOfNats
  <2> QED
    BY <1>3, <2>2, <2>4
<1> HIDE DEF margins, owned, margin, qty
<1>12. /\ c.account.available + c.account.used = b.account.available + b.account.used - qty
       /\ c.account.used >= b.account.used - margin
  <2>1. CASE qty = 0
    BY <1>2, <1>3, <1>10, <2>1
  <2>2. CASE qty < 0
    <3>1. s \in DOMAIN b.holdings
      <4>1. SharesIn(b, s) >= 0
        BY <1>1 DEF NotShort
      <4>2. OwnedIn(b, s) # 0
        BY <1>3, <2>2, <4>1 DEF SharesIn, qty
      <4> QED
        BY <4>2 DEF OwnedIn
    <3>2. c.account = Credited(b.account, -qty)
      BY <1>2, <2>2, <3>1
    <3>3. c.account.available = b.account.available - qty /\ c.account.used = b.account.used
      BY <1>3, <3>2 DEF Credited, DeliveryAccount
    <3> QED
      BY <1>3, <1>10, <3>3
  <2>3. CASE qty > 0
    <3>1. c.account = Transferred(b.account, qty)
      BY <1>2, <1>3, <2>3
    <3>2. qty <= b.account.used
      BY <1>3, <1>8, <1>10, <1>11
    <3>3. c.account.available = b.account.available /\ c.account.used = b.account.used - qty
      BY <1>3, <3>1, <3>2 DEF Transferred, DeliveryAccount
    <3> QED
      BY <1>3, <1>10, <3>3
  <2> QED
    BY <1>3, <2>1, <2>2, <2>3
<1>13. c.account.available \in Int /\ c.account.used \in Int
  BY <1>2 DEF IsBundle, DeliveryAccount
<1>14. \A t \in Stocks : PositionIn(c, t).margin >= PositionIn(c, t).qty /\ PositionIn(c, t).margin >= 0
  BY <1>2 DEF FundedIn
<1>15. c.account.used >= margins + 0 - margin
  BY <1>3, <1>8, <1>10, <1>12, <1>13
<1>16. FundedIn(c)
  BY <1>6, <1>14, <1>15 DEF FundedIn
<1>17. WorthIn(c) = WorthIn(b)
  <2>1. WorthIn(b) = b.account.available + b.account.used + owned
    BY DEF WorthIn, owned
  <2>2. WorthIn(c) = c.account.available + c.account.used + (owned + qty)
    BY <1>9 DEF WorthIn
  <2> QED
    BY <1>3, <1>8, <1>12, <1>13, <2>1, <2>2
<1> QED
  BY <1>16, <1>17 DEF c

-----------------------------------------------------------------------------
(***************************************************************************)
(* A settlement of one position after the other.                           *)
(***************************************************************************)

\* f is the account, positions and holdings after each of the first n.
Runs(f, stocks, n) ==
  f = [k \in 0..n |-> IF k = 0 THEN Current
                      ELSE Cleared(Moved(f[k - 1], stocks[k]), stocks[k])]

\* A settlement of any number of positions runs to its end.
LEMMA BatchRuns ==
  ASSUME NEW stocks, Len(stocks) \in Nat
  PROVE  \E f : /\ Batch(stocks) = f[Len(stocks)] /\ f[0] = Current
               /\ \A k \in 1..Len(stocks) : f[k] = Settled(f[k - 1], stocks[k])
<1> DEFINE N == {n \in Nat : \E f : Runs(f, stocks, n)}
<1>1. 0 \in N
  <2> DEFINE f == [k \in 0..0 |-> Current]
  <2>1. Runs(f, stocks, 0)
    BY DEF Runs
  <2> HIDE DEF f
  <2> QED
    BY <2>1
<1>2. \A n \in Nat : n \in N => n + 1 \in N
  <2> SUFFICES ASSUME NEW n \in Nat, NEW f, Runs(f, stocks, n)
               PROVE  \E g : Runs(g, stocks, n + 1)
    OBVIOUS
  <2> DEFINE Next1(h, k) == Cleared(Moved(h[k - 1], stocks[k]), stocks[k])
             g == [k \in 0..(n + 1) |-> IF k = 0 THEN Current
                                       ELSE IF k = n + 1 THEN Next1(f, k) ELSE f[k]]
  <2>1. \A k \in 0..n : f[k] = IF k = 0 THEN Current ELSE Next1(f, k)
    BY DEF Runs
  <2> HIDE DEF Next1
  <2>2. \A k \in 0..n : g[k] = f[k]
    BY <2>1
  <2>3. \A k \in 1..(n + 1) : k - 1 \in 0..n /\ g[k - 1] = f[k - 1]
    BY <2>2
  <2>4. \A k \in 1..(n + 1) : Next1(g, k) = Next1(f, k)
    BY <2>3 DEF Next1
  <2>5. \A k \in 0..(n + 1) : g[k] = IF k = 0 THEN Current ELSE Next1(g, k)
    BY <2>1, <2>4
  <2>6. g = [k \in 0..(n + 1) |-> IF k = 0 THEN Current ELSE Next1(g, k)]
    BY <2>5
  <2>7. Runs(g, stocks, n + 1)
    BY <2>6 DEF Runs, Next1
  <2> HIDE DEF g
  <2> QED
    BY <2>7
<1> DEFINE f == CHOOSE f : Runs(f, stocks, Len(stocks))
<1>3. Runs(f, stocks, Len(stocks))
  <2>1. Len(stocks) \in N
    <3> HIDE DEF N
    <3> QED
      BY <1>1, <1>2, NatSetInduction
  <2> QED
    BY <2>1
<1>4. Batch(stocks) = f[Len(stocks)]
  BY DEF Batch, Runs
<1> HIDE DEF f
<1>5. f[0] = Current /\ \A k \in 1..Len(stocks) : f[k] = Settled(f[k - 1], stocks[k])
  BY <1>3 DEF Runs, Settled
<1> QED
  BY <1>4, <1>5

\* What is settled together.
LEMMA SeqsParts ==
  ASSUME NEW due, IsFiniteSet(due), NEW stocks \in SetToSeqs(due)
  PROVE  /\ Len(stocks) \in Nat
         /\ \A k \in 1..Len(stocks) : stocks[k] \in due
         /\ \A i, j \in 1..Len(stocks) : i # j => stocks[i] # stocks[j]
<1>1. Cardinality(due) \in Nat
  BY FS_CardinalityType
<1>2. stocks \in [1..Cardinality(due) -> due]
      /\ \A i, j \in 1..Cardinality(due) : i # j => stocks[i] # stocks[j]
  BY DEF SetToSeqs
<1>3. stocks \in Seq(due) /\ Len(stocks) = Cardinality(due)
  BY <1>1, <1>2
<1> QED
  BY <1>1, <1>2, <1>3

\* A settlement keeps each stock's shares, what is not short so, and its worth.
LEMMA BatchKeeps ==
  ASSUME IsBundle(Current), NEW due \in SUBSET DOMAIN positions,
         NEW stocks \in SetToSeqs(due)
  PROVE  LET c == Batch(stocks)
         IN  /\ IsBundle(c)
             /\ \A t \in Stocks : SharesIn(c, t) = SharesIn(Current, t)
             /\ NotShort(Current) => NotShort(c)
             /\ NotShort(Current) /\ FundedIn(Current) =>
                  FundedIn(c) /\ WorthIn(c) = WorthIn(Current)
<1>1. Current.positions = positions /\ DOMAIN positions \subseteq Stocks
  BY DEF Current, IsBundle
<1>2. IsFiniteSet(due)
  BY <1>1, FS_Subset, DeliveryAssumption
<1> DEFINE n == Len(stocks)
<1>3. /\ n \in Nat /\ \A k \in 1..n : stocks[k] \in DOMAIN positions
      /\ \A i, j \in 1..n : i # j => stocks[i] # stocks[j]
  BY <1>2, SeqsParts
<1>4. PICK f : /\ Batch(stocks) = f[n] /\ f[0] = Current
               /\ \A k \in 1..n : f[k] = Settled(f[k - 1], stocks[k])
  BY <1>3, BatchRuns
<1> HIDE DEF n
<1> DEFINE Good(b) == /\ IsBundle(b)
                      /\ \A t \in Stocks : SharesIn(b, t) = SharesIn(Current, t)
                      /\ NotShort(Current) => NotShort(b)
                      /\ NotShort(Current) /\ FundedIn(Current) =>
                           FundedIn(b) /\ WorthIn(b) = WorthIn(Current)
           Left(b, k) == \A s \in DOMAIN positions :
                           (\A i \in 1..k : stocks[i] # s) => s \in DOMAIN b.positions
           X == {k \in Nat : k <= n => Good(f[k]) /\ Left(f[k], k)}
<1>5. 0 \in X
  BY <1>1, <1>4
<1>6. \A k \in Nat : k \in X => k + 1 \in X
  <2> SUFFICES ASSUME NEW k \in Nat, k + 1 <= n, Good(f[k]), Left(f[k], k)
               PROVE  Good(f[k + 1]) /\ Left(f[k + 1], k + 1)
    BY <1>3
  <2> DEFINE b == f[k]
             s == stocks[k + 1]
             c == Settled(b, s)
  <2>1. k + 1 \in 1..n /\ f[k + 1] = c
    BY <1>3, <1>4
  <2>2. s \in DOMAIN positions /\ \A i \in 1..k : stocks[i] # s
    BY <1>3, <2>1
  <2>3. IsBundle(b) /\ s \in DOMAIN b.positions
    BY <2>2
  <2> HIDE DEF b, s
  <2>4. IsBundle(c) /\ DOMAIN c.positions = DOMAIN b.positions \ {s}
    BY <2>3, SettledParts
  <2>5. /\ \A t \in Stocks : SharesIn(c, t) = SharesIn(b, t)
        /\ NotShort(b) => NotShort(c)
    BY <2>3, SettledKeepsShares
  <2>6. NotShort(b) /\ FundedIn(b) => FundedIn(c) /\ WorthIn(c) = WorthIn(b)
    BY <2>3, SettledKeepsWorth
  <2> HIDE DEF c
  <2>7. Good(b)
    BY DEF b
  <2>8. Good(c)
    BY <2>4, <2>5, <2>6, <2>7
  <2>9. Left(c, k + 1)
    <3> SUFFICES ASSUME NEW t \in DOMAIN positions, \A i \in 1..(k + 1) : stocks[i] # t
                 PROVE  t \in DOMAIN c.positions
      OBVIOUS
    <3>1. t # s
      BY DEF s
    <3>2. t \in DOMAIN b.positions
      BY DEF b
    <3> QED
      BY <2>4, <3>1, <3>2
  <2> QED
    BY <2>1, <2>8, <2>9
<1> HIDE DEF Good, Left
<1>7. n \in X
  <2> HIDE DEF X
  <2> QED
    BY <1>3, <1>5, <1>6, NatSetInduction
<1>8. Good(f[n])
  BY <1>3, <1>7
<1> QED
  BY <1>4, <1>8 DEF Good
-----------------------------------------------------------------------------
(***************************************************************************)
(* The lots that were traded.                                              *)
(***************************************************************************)
LotsIn(bk) == [n \in DOMAIN bk |-> bk[n].side * bk[n].qty]
DoneIn(bk, s) == {n \in DOMAIN bk : bk[n].status = "complete" /\ bk[n].stock = s}
NetIn(bk, s) == SumFunctionOnSet(LotsIn(bk), DoneIn(bk, s))

LEMMA LotsAreInts ==
  ASSUME NEW bk \in Seq(DeliveryOrder), NEW s
  PROVE  /\ IsFiniteSet(DOMAIN bk) /\ IsFiniteSet(DoneIn(bk, s))
         /\ \A n \in DOMAIN bk : LotsIn(bk)[n] \in Int
<1>1. DOMAIN bk = 1..Len(bk) /\ Len(bk) \in Nat
  OBVIOUS
<1>2. IsFiniteSet(DOMAIN bk)
  BY <1>1, FS_Interval
<1>3. IsFiniteSet(DoneIn(bk, s))
  BY <1>2, FS_Subset DEF DoneIn
<1>4. ASSUME NEW n \in DOMAIN bk PROVE LotsIn(bk)[n] \in Int
  <2>1. bk[n] \in DeliveryOrder
    BY <1>1
  <2>2. bk[n].side \in {1, -1} /\ bk[n].qty \in Nat
    BY <2>1, DeliveryAssumption DEF DeliveryOrder, Side
  <2>3. bk[n].side * bk[n].qty \in Int
    BY <2>2
  <2> QED
    BY <2>3 DEF LotsIn
<1> QED
  BY <1>2, <1>3, <1>4

\* What is done to orders that are not complete does not change the lots.
LEMMA NetSame ==
  ASSUME NEW bk \in Seq(DeliveryOrder), NEW after \in Seq(DeliveryOrder), NEW s,
         DoneIn(after, s) = DoneIn(bk, s),
         \A n \in DoneIn(bk, s) : after[n] = bk[n]
  PROVE  NetIn(after, s) = NetIn(bk, s)
<1>1. /\ IsFiniteSet(DoneIn(bk, s))
      /\ \A n \in DoneIn(bk, s) : LotsIn(bk)[n] \in Int
  BY LotsAreInts DEF DoneIn
<1>2. \A n \in DoneIn(bk, s) : LotsIn(after)[n] = LotsIn(bk)[n]
  BY DEF LotsIn, DoneIn
<1> QED
  BY <1>1, <1>2, SumOfSame DEF NetIn

\* A fill adds the order's lots to its stock's.
LEMMA NetFills ==
  ASSUME NEW bk \in Seq(DeliveryOrder), NEW n \in DOMAIN bk, bk[n].status = "open",
         NEW after \in Seq(DeliveryOrder), DOMAIN after = DOMAIN bk,
         \A m \in DOMAIN bk \ {n} : after[m] = bk[m],
         after[n].status = "complete", after[n].stock = bk[n].stock,
         after[n].side = bk[n].side, after[n].qty = bk[n].qty
  PROVE  /\ NetIn(after, bk[n].stock) = NetIn(bk, bk[n].stock) + bk[n].side * bk[n].qty
         /\ \A s \in Stocks \ {bk[n].stock} : NetIn(after, s) = NetIn(bk, s)
<1> DEFINE s == bk[n].stock
           done == DoneIn(bk, s)
<1>1. n \notin done /\ DoneIn(after, s) = done \cup {n}
  BY DEF DoneIn
<1>2. LotsIn(after) = LotsIn(bk)
  BY DEF LotsIn
<1>3. IsFiniteSet(done) /\ \A m \in DOMAIN bk : LotsIn(bk)[m] \in Int
  BY LotsAreInts
<1>4. done \subseteq DOMAIN bk
  BY DEF DoneIn
<1> HIDE DEF done
<1>5. \A m \in done \cup {n} : LotsIn(bk)[m] \in Int
  BY <1>3, <1>4
<1>6. SumFunctionOnSet(LotsIn(bk), done \cup {n})
        = SumFunctionOnSet(LotsIn(bk), done) + LotsIn(bk)[n]
  <2>1. n \notin done /\ IsFiniteSet(done)
    BY <1>1, <1>3
  <2> HIDE DEF s
  <2> QED
    BY ONLY <1>5, <2>1, SumGainsOne
<1>7. LotsIn(bk)[n] = bk[n].side * bk[n].qty
  BY DEF LotsIn
<1>8. NetIn(after, s) = NetIn(bk, s) + bk[n].side * bk[n].qty
  BY <1>1, <1>2, <1>6, <1>7 DEF NetIn, done
<1>9. ASSUME NEW t \in Stocks \ {s} PROVE NetIn(after, t) = NetIn(bk, t)
  <2>1. DoneIn(after, t) = DoneIn(bk, t)
    BY DEF DoneIn
  <2>2. \A m \in DoneIn(bk, t) : after[m] = bk[m]
    BY DEF DoneIn
  <2> QED
    BY <2>1, <2>2, NetSame
<1> QED
  BY <1>8, <1>9

-----------------------------------------------------------------------------
(***************************************************************************)
(* The actions, in the terms above.                                        *)
(***************************************************************************)

\* Positions and holdings, as the settlement sees them and as the orders do.
LEMMA CurrentParts ==
  ASSUME NEW s
  PROVE  /\ PositionIn(Current, s) = Position(s) /\ OwnedIn(Current, s) = Owned(s)
         /\ PositionIn(Current', s) = Position(s)' /\ OwnedIn(Current', s) = Owned(s)'
BY DEF Current, PositionIn, OwnedIn, Position, Owned

LEMMA NetParts ==
  ASSUME NEW s
  PROVE  NetFilled(s) = NetIn(book, s) /\ NetFilled(s)' = NetIn(book', s)
BY DEF NetFilled, NetIn, LotsIn, DoneIn

\* The types of a state, one by one.
LEMMA CurrentTypes ==
  ASSUME DeliveryTypeOK
  PROVE  /\ book \in Seq(DeliveryOrder) /\ Len(book) \in Nat /\ DOMAIN book = 1..Len(book)
         /\ \A n \in DOMAIN book : book[n] \in DeliveryOrder
         /\ account \in DeliveryAccount
         /\ DOMAIN positions \subseteq Stocks /\ positions \in [DOMAIN positions -> DeliveryRow]
         /\ DOMAIN holdings \subseteq Stocks /\ holdings \in [DOMAIN holdings -> Int]
<1>1. book \in Seq(DeliveryOrder) /\ IsBundle(Current)
  BY DEF DeliveryTypeOK
<1>2. \A n \in DOMAIN book : book[n] \in DeliveryOrder
  BY <1>1
<1> QED
  BY <1>1, <1>2 DEF IsBundle, Current

\* An order joins the book.
LEMMA JoinsBookParts ==
  ASSUME DeliveryTypeOK, NEW status \in {"open", "rejected"},
         NEW s \in Stocks, NEW side \in Side, NEW qty \in DeliveryQuantities, NEW held \in Nat,
         JoinsBook(status, s, side, qty, held)
  PROVE  /\ book' \in Seq(DeliveryOrder) /\ DOMAIN book' = DOMAIN book \cup {Len(book) + 1}
         /\ Len(book) + 1 \notin DOMAIN book
         /\ \A n \in DOMAIN book : book'[n] = book[n]
         /\ book'[Len(book) + 1] = [status |-> status, stock |-> s, side |-> side,
                                    qty |-> qty, held |-> held]
         /\ \A t : NetIn(book', t) = NetIn(book, t)
<1> DEFINE r == [status |-> status, stock |-> s, side |-> side, qty |-> qty, held |-> held]
<1>1. r \in DeliveryOrder /\ r.status # "complete"
  BY DEF DeliveryOrder
<1>2. book' = Append(book, r)
  BY DEF JoinsBook
<1> HIDE DEF r
<1>3. book \in Seq(DeliveryOrder) /\ Len(book) \in Nat /\ DOMAIN book = 1..Len(book)
  BY CurrentTypes
<1>4. /\ book' \in Seq(DeliveryOrder) /\ DOMAIN book' = DOMAIN book \cup {Len(book) + 1}
      /\ Len(book) + 1 \notin DOMAIN book
      /\ \A n \in DOMAIN book : book'[n] = book[n]
      /\ book'[Len(book) + 1] = r
  BY <1>1, <1>2, <1>3
<1>5. ASSUME NEW t PROVE NetIn(book', t) = NetIn(book, t)
  <2>1. DoneIn(book', t) = DoneIn(book, t)
    BY <1>1, <1>4 DEF DoneIn
  <2>2. \A n \in DoneIn(book, t) : book'[n] = book[n]
    BY <1>4 DEF DoneIn
  <2> QED
    BY <1>3, <1>4, <2>1, <2>2, NetSame
<1> QED
  BY <1>4, <1>5 DEF r

\* A row is written and the others stay.
LEMMA OrderChanges ==
  ASSUME DeliveryTypeOK, NEW n \in DOMAIN book, NEW r \in DeliveryOrder,
         book' = [book EXCEPT ![n] = r], book[n].status = "open"
  PROVE  /\ book' \in Seq(DeliveryOrder) /\ DOMAIN book' = DOMAIN book /\ book'[n] = r
         /\ \A m \in DOMAIN book \ {n} : book'[m] = book[m]
         /\ r.status # "complete" => \A t : NetIn(book', t) = NetIn(book, t)
<1>1. book \in Seq(DeliveryOrder) /\ Len(book) \in Nat /\ DOMAIN book = 1..Len(book)
  BY CurrentTypes
<1>2. /\ book' \in Seq(DeliveryOrder) /\ DOMAIN book' = DOMAIN book /\ book'[n] = r
      /\ \A m \in DOMAIN book \ {n} : book'[m] = book[m]
  BY <1>1
<1>3. ASSUME r.status # "complete", NEW t PROVE NetIn(book', t) = NetIn(book, t)
  <2>1. DoneIn(book', t) = DoneIn(book, t)
    BY <1>2, <1>3 DEF DoneIn
  <2>2. \A m \in DoneIn(book, t) : book'[m] = book[m]
    BY <1>2 DEF DoneIn
  <2> QED
    BY <1>1, <1>2, <2>1, <2>2, NetSame
<1> QED
  BY <1>2, <1>3

\* A buy moves what it reserves from the cash to the reserve.
LEMMA BuyParts ==
  ASSUME DeliveryTypeOK, NEW s \in Stocks, NEW qty \in DeliveryQuantities, Buys(s, qty)
  PROVE  /\ \E need \in Nat : JoinsBook("open", s, 1, qty, need)
         /\ account' \in DeliveryAccount /\ account'.used >= account.used
         /\ account'.available + account'.used = account.available + account.used
         /\ UNCHANGED <<positions, holdings>>
<1> DEFINE need == Stock(s)!Needed(1, qty)
<1>1. need \in Nat
  <2>1. qty \in Nat
    BY DeliveryAssumption
  <2>2. Position(s).qty \in Int
    BY CurrentParts, BundleInts DEF DeliveryTypeOK
  <2> QED
    BY <2>1, <2>2 DEF Stock!Needed, Stock!Opposes, Stock!Abs
<1>2. account \in DeliveryAccount
  BY CurrentTypes
<1>3. /\ JoinsBook("open", s, 1, qty, need)
      /\ account' = [available |-> account.available - need, used |-> account.used + need,
                     realized |-> account.realized]
      /\ UNCHANGED <<positions, holdings>>
  BY DEF Buys, Stock!Blocked
<1> HIDE DEF need
<1> QED
  BY <1>1, <1>2, <1>3 DEF DeliveryAccount

\* Money that is given back, or not, moves between the reserve and the cash.
LEMMA ReleaseParts ==
  ASSUME NEW s, NEW a \in DeliveryAccount, NEW amount \in Int
  PROVE  LET after == Stock(s)!Release(a, amount, 0)
         IN  /\ after \in DeliveryAccount
             /\ after.available + after.used = a.available + a.used
BY DEF Stock!Release, DeliveryAccount

LEMMA ReconcileParts ==
  ASSUME NEW s, NEW a \in DeliveryAccount, NEW margin \in Int
  PROVE  LET after == Stock(s)!Reconcile(a, margin)
         IN  /\ after \in DeliveryAccount
             /\ after.available + after.used = a.available + a.used
BY DEF Stock!Reconcile, DeliveryAccount

LEMMA CancelParts ==
  ASSUME DeliveryTypeOK, NEW n \in DOMAIN book, Cancels(n)
  PROVE  /\ IsOpen(n)
         /\ book' = [book EXCEPT ![n] = [book[n] EXCEPT !.status = "cancelled"]]
         /\ [book[n] EXCEPT !.status = "cancelled"] \in DeliveryOrder
         /\ account' \in DeliveryAccount
         /\ account'.available + account'.used = account.available + account.used
         /\ UNCHANGED <<positions, holdings>> /\ MayUndercut
<1> DEFINE back == CASE book[n].held > 0 -> book[n].held
                     [] book[n].held = 0 /\ book[n].side = 1 -> book[n].qty
                     [] OTHER -> 0
<1>1. book[n] \in DeliveryOrder /\ account \in DeliveryAccount
  BY CurrentTypes
<1>2. back \in Int
  BY <1>1, DeliveryAssumption DEF DeliveryOrder
<1>3. /\ IsOpen(n) /\ book' = [book EXCEPT ![n].status = "cancelled"]
      /\ account' = Stock(book[n].stock)!Release(account, back, 0)
      /\ UNCHANGED <<positions, holdings>> /\ MayUndercut
  BY DEF Cancels
<1> HIDE DEF back
<1>4. /\ account' \in DeliveryAccount
      /\ account'.available + account'.used = account.available + account.used
  BY <1>1, <1>2, <1>3, ReleaseParts
<1>5. [book[n] EXCEPT !.status = "cancelled"] \in DeliveryOrder
  BY <1>1 DEF DeliveryOrder
<1> QED
  BY <1>3, <1>4, <1>5

\* A share of a margin is a whole number of it, and no more than all of it.
LEMMA ShareOfMargin ==
  ASSUME NEW m \in Int, NEW part \in Nat, NEW whole \in Nat, whole > 0
  PROVE  /\ (m * part) \div whole \in Int
         /\ m >= 0 => (m * part) \div whole >= 0
         /\ m >= 0 /\ part <= whole => (m * part) \div whole <= m
<1> DEFINE p == m * part
           q == p \div whole
<1>1. p \in Int
  BY SMT
<1> HIDE DEF p
<1>2. q \in Int /\ q * whole <= p /\ p < (q + 1) * whole
  BY <1>1, SMT
<1> HIDE DEF q
<1>3. ASSUME m >= 0 PROVE q >= 0
  <2>1. p >= 0
    BY <1>3, SMT DEF p
  <2>2. CASE q + 1 <= 0
    <3>1. (q + 1) * whole <= 0
      BY <1>2, <2>2, SMT
    <3> QED
      BY <1>1, <1>2, <2>1, <3>1, SMT
  <2> QED
    BY <1>2, <2>2, SMT
<1>4. ASSUME m >= 0, part <= whole PROVE q <= m
  <2>1. p <= m * whole
    BY <1>4, SMT DEF p
  <2>2. CASE q >= m + 1
    <3>1. q * whole >= (m + 1) * whole
      BY <1>2, <2>2, SMT
    <3>2. (m + 1) * whole = m * whole + whole /\ m * whole \in Int
      BY SMT
    <3> QED
      BY <1>1, <1>2, <2>1, <3>1, <3>2, SMT
  <2> QED
    BY <1>2, <2>2, SMT
<1> QED
  BY <1>2, <1>3, <1>4 DEF p, q

\* The position that a fill leaves, and what it gives back.
LEMMA NettedParts ==
  ASSUME DeliveryTypeOK, NEW r \in DeliveryOrder
  PROVE  LET s == r.stock
             after == Stock(s)!Netted(r, r.qty)
         IN  /\ after.qty = Position(s).qty + r.side * r.qty /\ after.qty \in Int
             /\ after.margin \in Int
             /\ Position(s).margin >= 0 => after.margin >= 0
             /\ Stock(s)!GivenBack(r, r.qty) \in Int
<1> DEFINE s == r.stock
           p == Position(s)
           old == Stock(s)!Abs(p.qty)
           after == Stock(s)!Netted(r, r.qty)
<1>1. s \in Stocks /\ r.qty \in Nat /\ r.qty > 0 /\ r.side \in {1, -1} /\ r.held \in Nat
  <2>1. r.stock \in Stocks /\ r.qty \in DeliveryQuantities /\ r.side \in {1, -1} /\ r.held \in Nat
    BY DEF DeliveryOrder, Side
  <2>2. \A q \in DeliveryQuantities : q \in Nat /\ q > 0
    BY DeliveryAssumption
  <2> QED
    BY <2>1, <2>2
<1>2. p.qty \in Int /\ p.margin \in Int
  BY <1>1, CurrentParts, BundleInts DEF DeliveryTypeOK
<1>3. old \in Nat /\ (p.qty # 0 => old > 0)
  BY <1>2 DEF Stock!Abs
<1>4. after.qty = p.qty + r.side * r.qty /\ after.qty \in Int
  BY <1>1, <1>2 DEF Stock!Netted
<1> DEFINE part == (p.margin * r.qty) \div old
           new == (r.held * (r.qty - old)) \div r.qty
<1>5. after.margin = CASE p.qty = 0 -> r.held
                       [] p.qty # 0 /\ ~Stock(s)!Opposes(r.side) -> p.margin + r.held
                       [] Stock(s)!Opposes(r.side) /\ r.qty <= old -> p.margin - part
                       [] OTHER -> new
  BY DEF Stock!Netted
<1>6. Stock(s)!GivenBack(r, r.qty) = IF ~Stock(s)!Opposes(r.side) THEN 0
                                    ELSE IF r.qty >= old THEN p.margin ELSE part
  BY DEF Stock!GivenBack
<1>7. Stock(s)!Opposes(r.side) => p.qty # 0
  BY <1>1, <1>2 DEF Stock!Opposes
<1> HIDE DEF p, old, after, s
<1>8. /\ p.qty # 0 => part \in Int
      /\ p.qty # 0 /\ p.margin >= 0 /\ r.qty <= old => part <= p.margin
  BY <1>1, <1>2, <1>3, ShareOfMargin
<1>9. r.qty >= old => new \in Int /\ new >= 0
  <2> SUFFICES ASSUME r.qty >= old PROVE new \in Int /\ new >= 0
    OBVIOUS
  <2>1. r.qty - old \in Nat
    BY <1>1, <1>3
  <2> QED
    BY <1>1, <2>1, ShareOfMargin
<1> HIDE DEF part, new
<1>10. after.margin \in Int /\ (p.margin >= 0 => after.margin >= 0)
  <2>1. CASE p.qty = 0
    BY <1>1, <1>5, <1>7, <2>1
  <2>2. CASE p.qty # 0 /\ ~Stock(s)!Opposes(r.side)
    BY <1>1, <1>2, <1>5, <2>2
  <2>3. CASE Stock(s)!Opposes(r.side) /\ r.qty <= old
    BY <1>1, <1>2, <1>3, <1>5, <1>7, <1>8, <2>3
  <2>4. CASE Stock(s)!Opposes(r.side) /\ ~(r.qty <= old)
    BY <1>1, <1>2, <1>3, <1>5, <1>7, <1>9, <2>4
  <2> QED
    BY <2>1, <2>2, <2>3, <2>4
<1>11. Stock(s)!GivenBack(r, r.qty) \in Int
  BY <1>1, <1>2, <1>3, <1>6, <1>7, <1>8
<1> QED
  BY <1>4, <1>10, <1>11 DEF p, after, s

\* Rows stay rows.
LEMMA WrittenParts ==
  ASSUME DOMAIN positions \subseteq Stocks, positions \in [DOMAIN positions -> DeliveryRow],
         NEW s \in Stocks, NEW row \in DeliveryRow, positions' = Written(positions, s, row)
  PROVE  /\ DOMAIN positions' \subseteq Stocks /\ positions' \in [DOMAIN positions' -> DeliveryRow]
         /\ Position(s)' = row /\ \A t \in Stocks \ {s} : Position(t)' = Position(t)
<1>1. positions' = [t \in DOMAIN positions \cup {s} |-> IF t = s THEN row ELSE positions[t]]
  BY DEF Written
<1>2. /\ DOMAIN positions' = DOMAIN positions \cup {s} /\ positions'[s] = row
      /\ \A t \in DOMAIN positions \ {s} : positions'[t] = positions[t]
  BY <1>1
<1>3. positions' \in [DOMAIN positions' -> DeliveryRow]
  BY <1>1
<1>4. Position(s)' = row
  BY <1>2 DEF Position
<1>5. ASSUME NEW t \in Stocks \ {s} PROVE Position(t)' = Position(t)
  BY <1>2 DEF Position
<1> QED
  BY <1>2, <1>3, <1>4, <1>5

\* What the positions reserve is a whole number.
LEMMA ReservedParts ==
  ASSUME DOMAIN positions' \subseteq Stocks,
         positions' \in [DOMAIN positions' -> DeliveryRow]
  PROVE  /\ Reserved' \in Int
         /\ Reserved' = SumFunctionOnSet(MarginsIn(Current'), Stocks)
<1> DEFINE f == [s \in Stocks |-> Position(s)'.margin]
<1>1. \A s \in Stocks : f[s] \in Int
  BY DEF Position, DeliveryRow
<1>2. Reserved' = SumFunctionOnSet(f, Stocks)
  BY DEF Reserved
<1>3. f = MarginsIn(Current')
  BY CurrentParts DEF MarginsIn
<1> HIDE DEF f
<1>4. SumFunctionOnSet(f, Stocks) \in Int
  BY <1>1, SumIsInt, DeliveryAssumption
<1> QED
  BY <1>2, <1>3, <1>4

\* A fill: the order is complete, its lots are in the position, and the money is
\* in the reserve or is cash.
LEMMA FillParts ==
  ASSUME DeliveryTypeOK, NEW n \in DOMAIN book, Executes(n), NEW s, s = book[n].stock
  PROVE  LET r == book[n]
         IN  /\ DeliveryTypeOK' /\ IsOpen(n) /\ s \in Stocks /\ r \in DeliveryOrder
             /\ DOMAIN book' = DOMAIN book /\ book'[n] = [r EXCEPT !.status = "complete"]
             /\ \A m \in DOMAIN book \ {n} : book'[m] = book[m]
             /\ Position(s)'.qty = Position(s).qty + r.side * r.qty
             /\ Position(s).margin >= 0 => Position(s)'.margin >= 0
             /\ \A t \in Stocks \ {s} : Position(t)' = Position(t)
             /\ UNCHANGED holdings
             /\ account'.available + account'.used = account.available + account.used
             /\ MayUndercut
<1> DEFINE r == book[n]
           done == [r EXCEPT !.status = "complete"]
           netted == Stock(s)!Netted(r, r.qty)
           row == [qty |-> netted.qty, margin |-> netted.margin, old |-> Position(s).old]
           paid == Stock(s)!Paid(account, r, r.qty, 0)
<1>1. /\ r \in DeliveryOrder /\ account \in DeliveryAccount
      /\ DOMAIN positions \subseteq Stocks /\ positions \in [DOMAIN positions -> DeliveryRow]
      /\ DOMAIN holdings \subseteq Stocks /\ holdings \in [DOMAIN holdings -> Int]
  BY CurrentTypes
<1>2. s \in Stocks
  BY <1>1 DEF DeliveryOrder
<1>3. /\ IsOpen(n) /\ book' = [book EXCEPT ![n].status = "complete"]
      /\ positions' = Written(positions, s, row)
      /\ account' = Stock(s)!Reconcile(paid, Reserved')
      /\ UNCHANGED holdings /\ MayUndercut
  BY DEF Executes
<1>4. done \in DeliveryOrder /\ book' = [book EXCEPT ![n] = done]
  BY <1>1, <1>3 DEF DeliveryOrder
<1>5. /\ netted.qty = Position(s).qty + r.side * r.qty /\ netted.qty \in Int
      /\ netted.margin \in Int /\ (Position(s).margin >= 0 => netted.margin >= 0)
      /\ Stock(s)!GivenBack(r, r.qty) \in Int
  BY <1>1, NettedParts
<1>6. paid \in DeliveryAccount /\ paid.available + paid.used = account.available + account.used
  BY <1>1, <1>5, ReleaseParts DEF Stock!Paid
<1> HIDE DEF netted, paid
<1>7. row \in DeliveryRow
  <2>1. Position(s).old \in BOOLEAN
    BY <1>1 DEF Position, DeliveryRow
  <2> QED
    BY <1>5, <2>1 DEF DeliveryRow
<1>8. row.qty = netted.qty /\ row.margin = netted.margin
  OBVIOUS
<1> HIDE DEF row
<1>9. /\ DOMAIN positions' \subseteq Stocks /\ positions' \in [DOMAIN positions' -> DeliveryRow]
      /\ Position(s)' = row /\ \A t \in Stocks \ {s} : Position(t)' = Position(t)
  BY <1>1, <1>2, <1>3, <1>7, WrittenParts
<1>10. Reserved' \in Int
  BY <1>9, ReservedParts
<1>11. /\ account' \in DeliveryAccount
       /\ account'.available + account'.used = account.available + account.used
  BY <1>3, <1>6, <1>10, ReconcileParts
<1>12. /\ book' \in Seq(DeliveryOrder) /\ DOMAIN book' = DOMAIN book /\ book'[n] = done
       /\ \A m \in DOMAIN book \ {n} : book'[m] = book[m]
  BY <1>3, <1>4, OrderChanges DEF IsOpen
<1>13. IsBundle(Current)'
  BY <1>1, <1>3, <1>9, <1>11 DEF IsBundle, Current
<1>14. DeliveryTypeOK'
  BY <1>12, <1>13 DEF DeliveryTypeOK
<1>15. /\ Position(s)'.qty = Position(s).qty + r.side * r.qty
       /\ Position(s).margin >= 0 => Position(s)'.margin >= 0
  BY <1>5, <1>8, <1>9
<1> QED
  BY <1>1, <1>2, <1>3, <1>9, <1>11, <1>12, <1>14, <1>15

\* Midnight changes no row but for its age.
LEMMA DayParts ==
  ASSUME DeliveryTypeOK, DayPasses
  PROVE  /\ DeliveryTypeOK' /\ UNCHANGED <<book, holdings, account>>
         /\ \A s \in Stocks : Position(s)'.qty = Position(s).qty
                            /\ Position(s)'.margin = Position(s).margin
<1>1. /\ account \in DeliveryAccount /\ book \in Seq(DeliveryOrder)
      /\ DOMAIN positions \subseteq Stocks /\ positions \in [DOMAIN positions -> DeliveryRow]
      /\ DOMAIN holdings \subseteq Stocks /\ holdings \in [DOMAIN holdings -> Int]
  BY CurrentTypes
<1>2. /\ positions' = [s \in DOMAIN positions |-> [positions[s] EXCEPT !.old = TRUE]]
      /\ UNCHANGED <<book, holdings, account>>
  BY DEF DayPasses
<1>3. ASSUME NEW s \in DOMAIN positions
      PROVE  /\ positions'[s] \in DeliveryRow
             /\ positions'[s].qty = positions[s].qty /\ positions'[s].margin = positions[s].margin
  <2>1. positions[s] \in DeliveryRow /\ positions'[s] = [positions[s] EXCEPT !.old = TRUE]
    BY <1>1, <1>2
  <2> QED
    BY <2>1 DEF DeliveryRow
<1>4. DOMAIN positions' = DOMAIN positions /\ positions' \in [DOMAIN positions' -> DeliveryRow]
  BY <1>2, <1>3
<1>5. IsBundle(Current)'
  BY <1>1, <1>2, <1>4 DEF IsBundle, Current
<1>6. DeliveryTypeOK'
  BY <1>1, <1>2, <1>5 DEF DeliveryTypeOK
<1>7. \A s \in Stocks : Position(s)'.qty = Position(s).qty
                      /\ Position(s)'.margin = Position(s).margin
  BY <1>3, <1>4 DEF Position
<1> QED
  BY <1>2, <1>6, <1>7

\* A settlement that runs to its end.
LEMMA SettleParts ==
  ASSUME DeliveryTypeOK, "settlementDies" \notin DeliveryAdmitted, Settles
  PROVE  /\ DeliveryTypeOK' /\ UNCHANGED book
         /\ \A s \in Stocks : SharesIn(Current', s) = SharesIn(Current, s)
         /\ NotShort(Current) => NotShort(Current')
         /\ NotShort(Current) /\ FundedIn(Current) =>
              FundedIn(Current') /\ WorthIn(Current') = WorthIn(Current)
<1> DEFINE due == {s \in DOMAIN positions : positions[s].old}
<1>1. IsBundle(Current) /\ book \in Seq(DeliveryOrder)
  BY DEF DeliveryTypeOK
<1>2. PICK stocks \in SetToSeqs(due) : /\ account' = Batch(stocks).account
                                       /\ positions' = Batch(stocks).positions
                                       /\ holdings' = Batch(stocks).holdings
  BY DEF Settles
<1>3. UNCHANGED book
  BY DEF Settles
<1>4. due \in SUBSET DOMAIN positions
  OBVIOUS
<1> DEFINE b == Batch(stocks)
<1> HIDE DEF due
<1>5. /\ IsBundle(b)
      /\ \A t \in Stocks : SharesIn(b, t) = SharesIn(Current, t)
      /\ NotShort(Current) => NotShort(b)
      /\ NotShort(Current) /\ FundedIn(Current) => FundedIn(b) /\ WorthIn(b) = WorthIn(Current)
  BY <1>1, <1>4, BatchKeeps
<1> HIDE DEF b
<1>6. Current' = b
  <2>1. b = [account |-> b.account, positions |-> b.positions, holdings |-> b.holdings]
    BY <1>5 DEF IsBundle
  <2>2. Current' = [account |-> b.account, positions |-> b.positions, holdings |-> b.holdings]
    BY <1>2 DEF Current, b
  <2> QED
    BY <2>1, <2>2
<1>7. DeliveryTypeOK'
  BY <1>1, <1>3, <1>5, <1>6 DEF DeliveryTypeOK
<1> QED
  BY <1>3, <1>5, <1>6, <1>7

-----------------------------------------------------------------------------
(***************************************************************************)
(* Position and holding together are the shares that were traded.          *)
(***************************************************************************)

\* Orders that do not trade change no position and no holding.
LEMMA RowsSame ==
  ASSUME UNCHANGED <<positions, holdings>>
  PROVE  \A s : /\ Position(s)' = Position(s) /\ Owned(s)' = Owned(s)
                /\ PositionIn(Current', s) = PositionIn(Current, s)
                /\ OwnedIn(Current', s) = OwnedIn(Current, s)
                /\ SharesIn(Current', s) = SharesIn(Current, s)
BY DEF Position, Owned, PositionIn, OwnedIn, SharesIn, Current

\* What joins the book, or changes on it, but for fills.
LEMMA BookParts ==
  ASSUME DeliveryTypeOK,
         \/ \E s \in Stocks, qty \in DeliveryQuantities : Buys(s, qty) \/ Sells(s, qty)
         \/ \E n \in DOMAIN book : Cancels(n) \/ \E qty \in DeliveryQuantities : Modifies(n, qty)
  PROVE  /\ DeliveryTypeOK' /\ UNCHANGED <<positions, holdings>>
         /\ \A t : NetIn(book', t) = NetIn(book, t)
         /\ account'.available + account'.used = account.available + account.used
<1>1. account \in DeliveryAccount /\ IsBundle(Current) /\ book \in Seq(DeliveryOrder)
  BY CurrentTypes DEF DeliveryTypeOK
<1>2. account' \in DeliveryAccount /\ UNCHANGED <<positions, holdings>> => IsBundle(Current)'
  BY <1>1 DEF IsBundle, Current
<1>3. ASSUME NEW s \in Stocks, NEW qty \in DeliveryQuantities, Buys(s, qty)
      PROVE  /\ DeliveryTypeOK' /\ UNCHANGED <<positions, holdings>>
             /\ \A t : NetIn(book', t) = NetIn(book, t)
             /\ account'.available + account'.used = account.available + account.used
  <2>1. PICK need \in Nat : JoinsBook("open", s, 1, qty, need)
    BY <1>3, BuyParts
  <2>2. book' \in Seq(DeliveryOrder) /\ \A t : NetIn(book', t) = NetIn(book, t)
    <3>1. 1 \in Side
      BY DEF Side
    <3> QED
      BY <2>1, <3>1, JoinsBookParts
  <2> QED
    BY <1>2, <1>3, <2>2, BuyParts DEF DeliveryTypeOK
<1>4. ASSUME NEW s \in Stocks, NEW qty \in DeliveryQuantities, Sells(s, qty)
      PROVE  /\ DeliveryTypeOK' /\ UNCHANGED <<positions, holdings, account>>
             /\ \A t : NetIn(book', t) = NetIn(book, t)
  <2>1. /\ JoinsBook(IF qty <= Available(s) THEN "open" ELSE "rejected", s, -1, qty, 0)
        /\ UNCHANGED <<positions, holdings, account>>
    BY <1>4 DEF Sells
  <2>2. book' \in Seq(DeliveryOrder) /\ \A t : NetIn(book', t) = NetIn(book, t)
    <3>1. -1 \in Side /\ 0 \in Nat
      BY DEF Side
    <3>2. (IF qty <= Available(s) THEN "open" ELSE "rejected") \in {"open", "rejected"}
      OBVIOUS
    <3> QED
      BY <2>1, <3>1, <3>2, JoinsBookParts
  <2> QED
    BY <1>1, <1>2, <2>1, <2>2 DEF DeliveryTypeOK
<1>5. ASSUME NEW n \in DOMAIN book, Cancels(n)
      PROVE  /\ DeliveryTypeOK' /\ UNCHANGED <<positions, holdings>>
             /\ \A t : NetIn(book', t) = NetIn(book, t)
             /\ account'.available + account'.used = account.available + account.used
  <2> DEFINE r == [book[n] EXCEPT !.status = "cancelled"]
  <2>1. /\ book[n].status = "open" /\ book' = [book EXCEPT ![n] = r] /\ r \in DeliveryOrder
        /\ account' \in DeliveryAccount /\ UNCHANGED <<positions, holdings>>
        /\ account'.available + account'.used = account.available + account.used
    BY <1>5, CancelParts DEF IsOpen
  <2>2. r.status # "complete"
    <3>1. book[n] \in DeliveryOrder
      BY CurrentTypes
    <3> QED
      BY <3>1 DEF DeliveryOrder
  <2> HIDE DEF r
  <2>3. book' \in Seq(DeliveryOrder) /\ \A t : NetIn(book', t) = NetIn(book, t)
    BY <2>1, <2>2, OrderChanges
  <2> QED
    BY <1>2, <2>1, <2>3 DEF DeliveryTypeOK
<1>6. ASSUME NEW n \in DOMAIN book, NEW qty \in DeliveryQuantities, Modifies(n, qty)
      PROVE  /\ DeliveryTypeOK' /\ UNCHANGED <<positions, holdings, account>>
             /\ \A t : NetIn(book', t) = NetIn(book, t)
  <2> DEFINE r == [book[n] EXCEPT !.qty = qty]
  <2>1. book[n] \in DeliveryOrder
    BY CurrentTypes
  <2>2. /\ book[n].status = "open" /\ book' = [book EXCEPT ![n] = r] /\ r \in DeliveryOrder
        /\ r.status # "complete" /\ UNCHANGED <<positions, holdings, account>>
    BY <1>6, <2>1 DEF Modifies, IsOpen, DeliveryOrder
  <2> HIDE DEF r
  <2>3. book' \in Seq(DeliveryOrder) /\ \A t : NetIn(book', t) = NetIn(book, t)
    BY <2>2, OrderChanges
  <2> QED
    BY <1>1, <1>2, <2>2, <2>3 DEF DeliveryTypeOK
<1> QED
  BY <1>3, <1>4, <1>5, <1>6

\* SharesKept, in the terms of the settlement.
LEMMA KeptParts ==
  /\ SharesKept <=> \A s \in Stocks : SharesIn(Current, s) = NetIn(book, s)
  /\ SharesKept' <=> \A s \in Stocks : SharesIn(Current', s) = NetIn(book', s)
<1>1. \A s : SharesIn(Current, s) = Position(s).qty + Owned(s)
           /\ SharesIn(Current', s) = Position(s)'.qty + Owned(s)'
  BY CurrentParts DEF SharesIn
<1> QED
  BY <1>1, NetParts DEF SharesKept

LEMMA StartParts ==
  ASSUME DeliveryInit
  PROVE  /\ DeliveryTypeOK /\ \A s : Position(s).qty = 0 /\ Position(s).margin = 0 /\ Owned(s) = 0
         /\ DOMAIN book = {} /\ account.available = StartingCapital /\ account.used = 0
<1>1. /\ book = <<>> /\ positions = <<>> /\ holdings = <<>>
      /\ account = [available |-> StartingCapital, used |-> 0, realized |-> 0]
  BY DEF DeliveryInit
<1>2. book \in Seq(DeliveryOrder) /\ DOMAIN book = {}
  BY <1>1
<1>3. DOMAIN positions = {} /\ DOMAIN holdings = {}
  BY <1>1
<1>4. positions \in [DOMAIN positions -> DeliveryRow] /\ holdings \in [DOMAIN holdings -> Int]
  <2>1. positions = [s \in {} |-> 0] /\ holdings = [s \in {} |-> 0]
    BY <1>1
  <2> QED
    BY <1>3, <2>1
<1>5. account \in DeliveryAccount
  BY <1>1, DeliveryAssumption DEF DeliveryAccount
<1>6. DeliveryTypeOK
  BY <1>2, <1>3, <1>4, <1>5 DEF DeliveryTypeOK, IsBundle, Current
<1>7. \A s : Position(s).qty = 0 /\ Position(s).margin = 0 /\ Owned(s) = 0
  BY <1>3 DEF Position, Owned
<1> QED
  BY <1>1, <1>2, <1>6, <1>7

LEMMA KeptStarts == ASSUME DeliveryInit PROVE SharesKept
<1>1. \A s : Position(s).qty = 0 /\ Owned(s) = 0 /\ DoneIn(book, s) = {}
  BY StartParts DEF DoneIn
<1>2. \A s : NetFilled(s) = 0
  BY <1>1, NetParts, SumOfNone DEF NetIn
<1> QED
  BY <1>1, <1>2 DEF SharesKept

LEMMA KeptHolds ==
  ASSUME "settlementDies" \notin DeliveryAdmitted,
         DeliveryTypeOK, SharesKept, [DeliveryNext]_deliveryVars
  PROVE  DeliveryTypeOK' /\ SharesKept'
<1> DEFINE Orders == \/ \E s \in Stocks, qty \in DeliveryQuantities : Buys(s, qty) \/ Sells(s, qty)
                     \/ \E n \in DOMAIN book :
                          Cancels(n) \/ \E qty \in DeliveryQuantities : Modifies(n, qty)
<1>1. \A s \in Stocks : SharesIn(Current, s) = NetIn(book, s)
  BY KeptParts
<1>2. CASE Orders
  <2>1. /\ DeliveryTypeOK' /\ UNCHANGED <<positions, holdings>>
        /\ \A t : NetIn(book', t) = NetIn(book, t)
    BY <1>2, BookParts
  <2> HIDE DEF Orders
  <2>2. \A s \in Stocks : SharesIn(Current', s) = NetIn(book', s)
    BY <1>1, <2>1, RowsSame
  <2> QED
    BY <2>1, <2>2, KeptParts
<1> HIDE DEF Orders
<1>3. ASSUME NEW n \in DOMAIN book, Executes(n)
      PROVE  DeliveryTypeOK' /\ SharesKept'
  <2>1. PICK s : s = book[n].stock
    OBVIOUS
  <2> DEFINE r == book[n]
  <2>2. /\ DeliveryTypeOK' /\ IsOpen(n) /\ s \in Stocks /\ r \in DeliveryOrder
        /\ DOMAIN book' = DOMAIN book /\ book'[n] = [r EXCEPT !.status = "complete"]
        /\ \A m \in DOMAIN book \ {n} : book'[m] = book[m]
        /\ Position(s)'.qty = Position(s).qty + r.side * r.qty
        /\ \A t \in Stocks \ {s} : Position(t)' = Position(t)
        /\ UNCHANGED holdings
    BY <1>3, <2>1, FillParts
  <2>3. book \in Seq(DeliveryOrder) /\ book' \in Seq(DeliveryOrder)
    BY <2>2 DEF DeliveryTypeOK
  <2>4. /\ book'[n].status = "complete" /\ book'[n].stock = s
        /\ book'[n].side = r.side /\ book'[n].qty = r.qty
    BY <2>1, <2>2 DEF DeliveryOrder
  <2>5. /\ NetIn(book', s) = NetIn(book, s) + r.side * r.qty
        /\ \A t \in Stocks \ {s} : NetIn(book', t) = NetIn(book, t)
    <3>1. /\ book[n].status = "open" /\ DOMAIN book' = DOMAIN book
          /\ \A m \in DOMAIN book \ {n} : book'[m] = book[m]
          /\ book'[n].status = "complete" /\ book'[n].stock = book[n].stock
          /\ book'[n].side = book[n].side /\ book'[n].qty = book[n].qty
      BY <2>1, <2>2, <2>4 DEF IsOpen
    <3>2. /\ NetIn(book', book[n].stock) = NetIn(book, book[n].stock) + book[n].side * book[n].qty
          /\ \A t \in Stocks \ {book[n].stock} : NetIn(book', t) = NetIn(book, t)
      BY ONLY n \in DOMAIN book, <2>3, <3>1, NetFills
    <3> QED
      BY <2>1, <3>2
  <2>6. Position(s).qty \in Int /\ Owned(s) \in Int /\ r.side * r.qty \in Int
    <3>1. Position(s).qty \in Int /\ Owned(s) \in Int
      BY <2>2, CurrentParts, BundleInts DEF DeliveryTypeOK
    <3>2. r.side \in {1, -1} /\ r.qty \in Int
      BY <2>2, DeliveryAssumption DEF DeliveryOrder, Side
    <3>3. r.side * r.qty \in Int
      BY <3>2
    <3> QED
      BY <3>1, <3>3
  <2>7. \A t : Owned(t)' = Owned(t)
    BY <2>2 DEF Owned
  <2> HIDE DEF r
  <2>8. SharesIn(Current', s) = SharesIn(Current, s) + r.side * r.qty
    BY <2>2, <2>6, <2>7, CurrentParts DEF SharesIn
  <2>9. \A t \in Stocks \ {s} : SharesIn(Current', t) = SharesIn(Current, t)
    BY <2>2, <2>7, CurrentParts DEF SharesIn
  <2>10. \A t \in Stocks : SharesIn(Current', t) = NetIn(book', t)
    BY <1>1, <2>2, <2>5, <2>8, <2>9
  <2> QED
    BY <2>2, <2>10, KeptParts
<1>4. CASE DayPasses
  <2>1. /\ DeliveryTypeOK' /\ UNCHANGED <<book, holdings>>
        /\ \A s \in Stocks : Position(s)'.qty = Position(s).qty
    BY <1>4, DayParts
  <2>2. \A t : Owned(t)' = Owned(t)
    BY <2>1 DEF Owned
  <2>3. \A s \in Stocks : SharesIn(Current', s) = SharesIn(Current, s)
    BY <2>1, <2>2, CurrentParts DEF SharesIn
  <2> QED
    BY <1>1, <2>1, <2>3, KeptParts
<1>5. CASE Settles
  <2>1. /\ DeliveryTypeOK' /\ UNCHANGED book
        /\ \A s \in Stocks : SharesIn(Current', s) = SharesIn(Current, s)
    BY <1>5, SettleParts
  <2> QED
    BY <1>1, <2>1, KeptParts
<1>6. CASE UNCHANGED deliveryVars
  <2>1. UNCHANGED <<book, positions, holdings, account>>
    BY <1>6 DEF deliveryVars
  <2>2. DeliveryTypeOK'
    BY <2>1 DEF DeliveryTypeOK, Current
  <2>3. \A s \in Stocks : SharesIn(Current', s) = NetIn(book', s)
    BY <1>1, <2>1, RowsSame
  <2> QED
    BY <2>2, <2>3, KeptParts
<1> QED
  BY <1>2, <1>3, <1>4, <1>5, <1>6 DEF DeliveryNext, Orders

\* Whenever a settlement comes, for whatever is due, and whatever is traded before
\* and after it: what a position and the holding of its stock hold together is what
\* was bought and not sold.  The process must not die between two commits of the
\* settlement; overlapping sells and undercut margins do not matter.
THEOREM SettlementKeepsShares ==
  ASSUME "settlementDies" \notin DeliveryAdmitted
  PROVE  DeliverySpec => []SharesKept
<1>1. DeliveryInit => DeliveryTypeOK /\ SharesKept
  BY StartParts, KeptStarts
<1>2. DeliveryTypeOK /\ SharesKept /\ [DeliveryNext]_deliveryVars => (DeliveryTypeOK /\ SharesKept)'
  BY KeptHolds
<1> QED
  BY <1>1, <1>2, PTL DEF DeliverySpec

-----------------------------------------------------------------------------
(***************************************************************************)
(* Nothing is sold twice.                                                  *)
(***************************************************************************)

\* A sell that rests.
RestingSell(n) == IsOpen(n) /\ book[n].side = -1

\* No two rest of one stock, and each is of shares that are there.
SellsCovered ==
  /\ \A m, n \in DOMAIN book :
       RestingSell(m) /\ RestingSell(n) /\ book[m].stock = book[n].stock => m = n
  /\ \A n \in DOMAIN book :
       RestingSell(n) => book[n].qty <= SharesIn(Current, book[n].stock)

Covered == DeliveryTypeOK /\ NotShort(Current) /\ SellsCovered

\* What is not short, in the terms of the orders.
LEMMA OversoldParts == NotShort(Current) <=> NeverOversold
BY CurrentParts DEF NotShort, NeverOversold, SharesIn

LEMMA CoveredStarts == ASSUME DeliveryInit PROVE Covered
<1>1. /\ DeliveryTypeOK /\ DOMAIN book = {}
      /\ \A s : Position(s).qty = 0 /\ Owned(s) = 0
  BY StartParts
<1>2. NotShort(Current)
  BY <1>1, OversoldParts DEF NeverOversold
<1> QED
  BY <1>1, <1>2 DEF Covered, SellsCovered

\* While the rows stay, nothing becomes short: only new or larger sells need shares.
LEMMA CoveredByBook ==
  ASSUME Covered, DeliveryTypeOK', \A s \in Stocks : SharesIn(Current', s) = SharesIn(Current, s),
         NotShort(Current'),
         NEW new, new \in DOMAIN book' /\ RestingSell(new)' =>
                    /\ book'[new].qty <= SharesIn(Current, book'[new].stock)
                    /\ \A n \in DOMAIN book \ {new} :
                         ~(RestingSell(n) /\ book[n].stock = book'[new].stock),
         \A n \in DOMAIN book' \ {new} : n \in DOMAIN book /\ book'[n] = book[n]
  PROVE  Covered'
<1>1. \A n \in DOMAIN book' : book'[n].stock \in Stocks
  <2>1. book' \in Seq(DeliveryOrder)
    BY DEF DeliveryTypeOK
  <2>2. \A n \in DOMAIN book' : book'[n] \in DeliveryOrder
    BY <2>1
  <2> QED
    BY <2>2 DEF DeliveryOrder
<1>2. \A n \in DOMAIN book' \ {new} :
        /\ n \in DOMAIN book /\ book'[n] = book[n] /\ RestingSell(n)' = RestingSell(n)
  BY DEF RestingSell, IsOpen
<1>3. \A n \in DOMAIN book' : RestingSell(n)' => book'[n].qty <= SharesIn(Current', book'[n].stock)
  <2> SUFFICES ASSUME NEW n \in DOMAIN book', RestingSell(n)'
               PROVE  book'[n].qty <= SharesIn(Current', book'[n].stock)
    OBVIOUS
  <2>1. book'[n].qty <= SharesIn(Current, book'[n].stock)
    BY <1>2 DEF Covered, SellsCovered
  <2> QED
    BY <1>1, <2>1
<1>4. \A m, n \in DOMAIN book' :
        RestingSell(m)' /\ RestingSell(n)' /\ book'[m].stock = book'[n].stock => m = n
  BY <1>2 DEF Covered, SellsCovered
<1> QED
  BY <1>3, <1>4 DEF Covered, SellsCovered

LEMMA CoveredHolds ==
  ASSUME {"sellsOverlap", "settlementDies"} \cap DeliveryAdmitted = {},
         Covered, [DeliveryNext]_deliveryVars
  PROVE  Covered'
<1> DEFINE Same == \A s \in Stocks : SharesIn(Current', s) = SharesIn(Current, s)
<1>1. /\ DeliveryTypeOK /\ NotShort(Current) /\ SellsCovered
      /\ book \in Seq(DeliveryOrder) /\ IsBundle(Current)
      /\ \A n \in DOMAIN book : book[n] \in DeliveryOrder
      /\ "sellsOverlap" \notin DeliveryAdmitted /\ "settlementDies" \notin DeliveryAdmitted
  BY CurrentTypes DEF Covered, DeliveryTypeOK
<1>2. UNCHANGED <<positions, holdings>> => Same /\ NotShort(Current')
  BY <1>1, RowsSame DEF NotShort
<1> HIDE DEF Same
<1>3. ASSUME NEW s \in Stocks, NEW qty \in DeliveryQuantities, Buys(s, qty)
      PROVE  Covered'
  <2>1. DeliveryTypeOK' /\ UNCHANGED <<positions, holdings>>
    BY <1>1, <1>3, BookParts
  <2>2. PICK need \in Nat : JoinsBook("open", s, 1, qty, need)
    BY <1>1, <1>3, BuyParts
  <2>0. PICK new : new = Len(book) + 1
    OBVIOUS
  <2>3. /\ DOMAIN book' = DOMAIN book \cup {new} /\ book'[new].side = 1
        /\ \A n \in DOMAIN book : book'[n] = book[n]
    <3>0. PICK status, side : status = "open" /\ side = 1
      OBVIOUS
    <3>1. side \in Side /\ status \in {"open", "rejected"} /\ JoinsBook(status, s, side, qty, need)
      BY <2>2, <3>0 DEF Side
    <3>2. /\ DOMAIN book' = DOMAIN book \cup {Len(book) + 1}
          /\ \A n \in DOMAIN book : book'[n] = book[n]
          /\ book'[Len(book) + 1] = [status |-> status, stock |-> s, side |-> side,
                                     qty |-> qty, held |-> need]
      <4>1. DeliveryTypeOK /\ s \in Stocks /\ qty \in DeliveryQuantities /\ need \in Nat
        BY <1>1
      <4> QED
        BY ONLY <3>1, <4>1, JoinsBookParts
    <3> QED
      BY <2>0, <3>0, <3>2
  <2>4. ~RestingSell(new)'
    BY <2>3 DEF RestingSell
  <2>5. Same /\ NotShort(Current')
    BY <1>2, <2>1
  <2> QED
    BY <2>1, <2>3, <2>4, <2>5, CoveredByBook DEF Same
<1>4. ASSUME NEW s \in Stocks, NEW qty \in DeliveryQuantities, Sells(s, qty)
      PROVE  Covered'
  <2>1. DeliveryTypeOK' /\ UNCHANGED <<positions, holdings>>
    BY <1>1, <1>4, BookParts
  <2>0. PICK new, status : /\ new = Len(book) + 1
                           /\ status = IF qty <= Available(s) THEN "open" ELSE "rejected"
    OBVIOUS
  <2>2. /\ JoinsBook(status, s, -1, qty, 0)
        /\ \A n \in DOMAIN book : ~(RestingSell(n) /\ book[n].stock = s)
    BY <1>1, <1>4, <2>0 DEF Sells, RestingSell
  <2>3. /\ DOMAIN book' = DOMAIN book \cup {new}
        /\ \A n \in DOMAIN book : book'[n] = book[n]
        /\ book'[new] = [status |-> status, stock |-> s, side |-> -1, qty |-> qty, held |-> 0]
    <3>1. -1 \in Side /\ 0 \in Nat /\ status \in {"open", "rejected"}
      BY <2>0 DEF Side
    <3>2. JoinsBook(status, s, -1, qty, 0)
      BY <2>2
    <3>3. /\ DOMAIN book' = DOMAIN book \cup {Len(book) + 1}
          /\ \A n \in DOMAIN book : book'[n] = book[n]
          /\ book'[Len(book) + 1] = [status |-> status, stock |-> s, side |-> -1,
                                     qty |-> qty, held |-> 0]
      <4>1. DeliveryTypeOK /\ s \in Stocks /\ qty \in DeliveryQuantities
        BY <1>1
      <4> QED
        BY ONLY <3>1, <3>2, <4>1, JoinsBookParts
    <3> QED
      BY <2>0, <3>3
  <2>4. RestingSell(new)' => qty <= SharesIn(Current, s)
    <3>1. Owned(s) \in Int /\ Owned(s) >= 0
      BY <1>1, CurrentParts, BundleInts DEF NotShort
    <3>2. Available(s) = SharesIn(Current, s)
      BY <3>1, <1>1, CurrentParts, BundleInts DEF Available, SharesIn
    <3>3. RestingSell(new)' => status = "open"
      BY <2>3 DEF RestingSell, IsOpen
    <3> QED
      BY <2>0, <3>2, <3>3
  <2>5. book'[new].stock = s /\ book'[new].qty = qty
    BY <2>3
  <2>6. Same /\ NotShort(Current')
    BY <1>2, <2>1
  <2> QED
    BY <2>1, <2>2, <2>3, <2>4, <2>5, <2>6, CoveredByBook DEF Same
<1>5. ASSUME NEW n \in DOMAIN book, Cancels(n)
      PROVE  Covered'
  <2>1. DeliveryTypeOK' /\ UNCHANGED <<positions, holdings>>
    BY <1>1, <1>5, BookParts
  <2>2. /\ DOMAIN book' = DOMAIN book /\ book'[n].status = "cancelled"
        /\ \A m \in DOMAIN book \ {n} : book'[m] = book[m]
    BY <1>1, <1>5, CancelParts, OrderChanges DEF IsOpen, DeliveryOrder
  <2>3. ~RestingSell(n)'
    BY <2>2 DEF RestingSell, IsOpen
  <2>4. Same /\ NotShort(Current')
    BY <1>2, <2>1
  <2> QED
    BY <2>1, <2>2, <2>3, <2>4, CoveredByBook DEF Same
<1>6. ASSUME NEW n \in DOMAIN book, NEW qty \in DeliveryQuantities, Modifies(n, qty)
      PROVE  Covered'
  <2>1. DeliveryTypeOK' /\ UNCHANGED <<positions, holdings>>
    BY <1>1, <1>6, BookParts
  <2> DEFINE r == [book[n] EXCEPT !.qty = qty]
  <2>2. /\ IsOpen(n) /\ book' = [book EXCEPT ![n] = r] /\ r \in DeliveryOrder
        /\ r.side = book[n].side /\ r.qty = qty /\ r.stock = book[n].stock
        /\ book[n].side = 1 \/ qty < book[n].qty
    BY <1>1, <1>6 DEF Modifies, DeliveryOrder
  <2> HIDE DEF r
  <2>3. /\ DOMAIN book' = DOMAIN book /\ book'[n] = r
        /\ \A m \in DOMAIN book \ {n} : book'[m] = book[m]
    BY <1>1, <2>2, OrderChanges DEF IsOpen
  <2>4. RestingSell(n)' => /\ RestingSell(n)
                           /\ book'[n].qty <= SharesIn(Current, book'[n].stock)
    <3> SUFFICES ASSUME RestingSell(n)'
                 PROVE  RestingSell(n) /\ book'[n].qty <= SharesIn(Current, book'[n].stock)
      OBVIOUS
    <3>1. RestingSell(n) /\ qty < book[n].qty
      BY <2>2, <2>3 DEF RestingSell, IsOpen
    <3>2. book[n].qty <= SharesIn(Current, book[n].stock)
      BY <1>1, <3>1 DEF SellsCovered
    <3>3. book[n].stock \in Stocks /\ book[n].qty \in DeliveryQuantities
      BY <1>1 DEF DeliveryOrder
    <3>4. /\ qty \in Int /\ book[n].qty \in Int
          /\ SharesIn(Current, book[n].stock) \in Int
      <4>1. SharesIn(Current, book[n].stock) \in Int
        BY <1>1, <3>3, BundleInts
      <4>2. \A q \in DeliveryQuantities : q \in Int
        BY DeliveryAssumption
      <4> QED
        BY <3>3, <4>1, <4>2
    <3>5. qty <= SharesIn(Current, book[n].stock)
      BY <3>1, <3>2, <3>4
    <3> QED
      BY <2>2, <2>3, <3>1, <3>5
  <2>5. \A m \in DOMAIN book \ {n} :
          RestingSell(n)' => ~(RestingSell(m) /\ book[m].stock = book'[n].stock)
    BY <1>1, <2>2, <2>3, <2>4 DEF SellsCovered
  <2>6. Same /\ NotShort(Current')
    BY <1>2, <2>1
  <2> QED
    BY <2>1, <2>3, <2>4, <2>5, <2>6, CoveredByBook DEF Same
<1>7. ASSUME NEW n \in DOMAIN book, Executes(n)
      PROVE  Covered'
  <2>1. PICK s : s = book[n].stock
    OBVIOUS
  <2> DEFINE r == book[n]
  <2>2. /\ DeliveryTypeOK' /\ IsOpen(n) /\ s \in Stocks /\ r \in DeliveryOrder
        /\ DOMAIN book' = DOMAIN book /\ book'[n] = [r EXCEPT !.status = "complete"]
        /\ \A m \in DOMAIN book \ {n} : book'[m] = book[m]
        /\ Position(s)'.qty = Position(s).qty + r.side * r.qty
        /\ \A t \in Stocks \ {s} : Position(t)' = Position(t)
        /\ UNCHANGED holdings
    BY <1>1, <1>7, <2>1, FillParts
  <2>3. r.side \in {1, -1} /\ r.qty \in Nat /\ r.side * r.qty \in Int
    <3>1. r.side \in {1, -1} /\ r.qty \in Nat
      BY <2>2, DeliveryAssumption DEF DeliveryOrder, Side
    <3> QED
      BY <3>1
  <2>4. ~RestingSell(n)' /\ \A m \in DOMAIN book \ {n} : RestingSell(m)' = RestingSell(m)
    BY <2>2 DEF RestingSell, IsOpen, DeliveryOrder
  <2>5. \A t : Owned(t)' = Owned(t)
    BY <2>2 DEF Owned
  <2>6. \A t \in Stocks : Position(t).qty \in Int /\ Owned(t) \in Int
    BY <1>1, CurrentParts, BundleInts
  <2>7. \A t \in Stocks : SharesIn(Current, t) \in Int /\ SharesIn(Current, t) >= 0
    BY <1>1, BundleInts DEF NotShort
  <2>8. RestingSell(n) <=> r.side = -1
    BY <2>2 DEF RestingSell
  <2>9. RestingSell(n) => r.qty <= SharesIn(Current, s)
    BY <1>1, <2>1 DEF SellsCovered
  <2> HIDE DEF r
  <2>10. SharesIn(Current', s) = SharesIn(Current, s) + r.side * r.qty
    BY <2>2, <2>3, <2>5, <2>6, CurrentParts DEF SharesIn
  <2>11. \A t \in Stocks \ {s} : SharesIn(Current', t) = SharesIn(Current, t)
    BY <2>2, <2>5, CurrentParts DEF SharesIn
  <2>12. \/ r.side = 1 /\ SharesIn(Current', s) = SharesIn(Current, s) + r.qty
         \/ RestingSell(n) /\ SharesIn(Current', s) = SharesIn(Current, s) - r.qty
    BY <2>2, <2>3, <2>7, <2>8, <2>10
  <2>13. SharesIn(Current', s) >= 0
    BY <2>2, <2>3, <2>7, <2>9, <2>12
  <2>14. NotShort(Current')
    <3>1. \A t \in Stocks : OwnedIn(Current', t) = OwnedIn(Current, t)
      BY <2>5, CurrentParts
    <3> QED
      BY <1>1, <2>11, <2>13, <3>1 DEF NotShort
  <2>15. \A m \in DOMAIN book' : RestingSell(m)' => book'[m].qty <= SharesIn(Current', book'[m].stock)
    <3> SUFFICES ASSUME NEW m \in DOMAIN book', RestingSell(m)'
                 PROVE  book'[m].qty <= SharesIn(Current', book'[m].stock)
      OBVIOUS
    <3>1. m \in DOMAIN book \ {n} /\ RestingSell(m) /\ book'[m] = book[m]
      BY <2>2, <2>4
    <3>2. book[m].qty <= SharesIn(Current, book[m].stock)
      BY <1>1, <3>1 DEF SellsCovered
    <3>3. book[m].stock \in Stocks /\ book[m].qty \in Nat
      BY <1>1, <3>1, DeliveryAssumption DEF DeliveryOrder
    <3>4. CASE book[m].stock # s
      BY <2>11, <3>1, <3>2, <3>3, <3>4
    <3>5. CASE book[m].stock = s
      <4>1. ~RestingSell(n)
        BY <1>1, <2>1, <3>1, <3>5 DEF SellsCovered
      <4>2. SharesIn(Current', s) = SharesIn(Current, s) + r.qty
        BY <2>12, <4>1
      <4> QED
        BY <2>2, <2>3, <2>7, <3>1, <3>2, <3>3, <3>5, <4>2
    <3> QED
      BY <3>4, <3>5
  <2>16. \A l, m \in DOMAIN book' :
           RestingSell(l)' /\ RestingSell(m)' /\ book'[l].stock = book'[m].stock => l = m
    BY <1>1, <2>2, <2>4 DEF SellsCovered
  <2> QED
    BY <2>2, <2>14, <2>15, <2>16 DEF Covered, SellsCovered
<1>8. CASE DayPasses
  <2>1. /\ DeliveryTypeOK' /\ UNCHANGED <<book, holdings>>
        /\ \A s \in Stocks : Position(s)'.qty = Position(s).qty
    BY <1>1, <1>8, DayParts
  <2>2. \A t : Owned(t)' = Owned(t)
    BY <2>1 DEF Owned
  <2>3. \A s \in Stocks : /\ SharesIn(Current', s) = SharesIn(Current, s)
                          /\ OwnedIn(Current', s) = OwnedIn(Current, s)
    BY <2>1, <2>2, CurrentParts DEF SharesIn
  <2>4. NotShort(Current')
    BY <1>1, <2>3 DEF NotShort
  <2>5. 0 \notin DOMAIN book
    BY <1>1
  <2> QED
    BY <2>1, <2>3, <2>4, <2>5, CoveredByBook
<1>9. CASE Settles
  <2>1. /\ DeliveryTypeOK' /\ UNCHANGED book /\ NotShort(Current')
        /\ \A s \in Stocks : SharesIn(Current', s) = SharesIn(Current, s)
    BY <1>1, <1>9, SettleParts
  <2>2. 0 \notin DOMAIN book
    BY <1>1
  <2> QED
    BY <2>1, <2>2, CoveredByBook
<1>10. CASE UNCHANGED deliveryVars
  <2>1. UNCHANGED <<book, positions, holdings, account>>
    BY <1>10 DEF deliveryVars
  <2>2. DeliveryTypeOK'
    BY <1>1, <2>1 DEF DeliveryTypeOK, Current
  <2>3. 0 \notin DOMAIN book
    BY <1>1
  <2> QED
    BY <1>2, <2>1, <2>2, <2>3, CoveredByBook DEF Same
<1> QED
  BY <1>3, <1>4, <1>5, <1>6, <1>7, <1>8, <1>9, <1>10 DEF DeliveryNext

\* While no sell of a stock is placed, or made larger, over one that rests, and no
\* settlement dies half-way: the shares of a stock are never sold twice, before or
\* after the settlement that makes them a holding.
THEOREM SharesAreSoldOnce ==
  ASSUME {"sellsOverlap", "settlementDies"} \cap DeliveryAdmitted = {}
  PROVE  DeliverySpec => []NeverOversold
<1>1. DeliveryInit => Covered
  BY CoveredStarts
<1>2. Covered /\ [DeliveryNext]_deliveryVars => Covered'
  BY CoveredHolds
<1>3. Covered => NeverOversold
  BY OversoldParts DEF Covered
<1> QED
  BY <1>1, <1>2, <1>3, PTL DEF DeliverySpec

-----------------------------------------------------------------------------
(***************************************************************************)
(* What is settled has been paid for.                                      *)
(***************************************************************************)
PaidUp == Covered /\ FundedIn(Current) /\ WorthIn(Current) = StartingCapital

\* Worth, in the terms of the orders.
LEMMA WorthParts ==
  /\ SharesPaidFor <=> WorthIn(Current) = StartingCapital
  /\ HoldingsIn(Current) = [s \in Stocks |-> Owned(s)]
<1>1. HoldingsIn(Current) = [s \in Stocks |-> Owned(s)]
  BY CurrentParts DEF HoldingsIn
<1> QED
  BY <1>1 DEF SharesPaidFor, WorthIn, Current

\* Cash and reserve may swap money while no share is settled.
LEMMA WorthSame ==
  ASSUME UNCHANGED holdings,
         account'.available + account'.used = account.available + account.used
  PROVE  WorthIn(Current') = WorthIn(Current)
<1>1. HoldingsIn(Current') = HoldingsIn(Current)
  <2>1. \A s : OwnedIn(Current', s) = OwnedIn(Current, s)
    BY DEF OwnedIn, Current
  <2> QED
    BY <2>1 DEF HoldingsIn
<1>2. /\ Current'.account = account' /\ Current.account = account
  BY DEF Current
<1> QED
  BY <1>1, <1>2 DEF WorthIn

\* The reserve still covers positions that stay, if it has not become less.
LEMMA FundedStays ==
  ASSUME DeliveryTypeOK, DeliveryTypeOK', FundedIn(Current),
         account'.used >= account.used,
         \A s \in Stocks : Position(s)'.qty = Position(s).qty
                         /\ Position(s)'.margin = Position(s).margin
  PROVE  FundedIn(Current')
<1>1. \A s \in Stocks : /\ PositionIn(Current', s).qty = PositionIn(Current, s).qty
                        /\ PositionIn(Current', s).margin = PositionIn(Current, s).margin
  BY CurrentParts
<1>2. MarginsIn(Current') = MarginsIn(Current)
  BY <1>1 DEF MarginsIn
<1>3. SumFunctionOnSet(MarginsIn(Current), Stocks) \in Int
  <2>1. \A s \in Stocks : MarginsIn(Current)[s] \in Int
    BY BundleInts DEF MarginsIn, DeliveryTypeOK
  <2> QED
    BY <2>1, SumIsInt, DeliveryAssumption
<1>4. /\ Current.account.used = account.used /\ Current'.account.used = account'.used
      /\ account.used \in Int /\ account'.used \in Int
  BY DEF Current, DeliveryTypeOK, IsBundle, DeliveryAccount
<1> QED
  BY <1>1, <1>2, <1>3, <1>4 DEF FundedIn

\* A fill or a cancel that does not undercut what the positions cost.
LEMMA FundedAgain ==
  ASSUME DeliveryTypeOK', Funded', \A s \in Stocks : Position(s)'.margin >= 0
  PROVE  FundedIn(Current')
<1>1. DOMAIN positions' \subseteq Stocks /\ positions' \in [DOMAIN positions' -> DeliveryRow]
  BY DEF DeliveryTypeOK, IsBundle, Current
<1>2. Reserved' = SumFunctionOnSet(MarginsIn(Current'), Stocks)
  BY <1>1, ReservedParts
<1>3. account'.used >= Reserved' /\ \A s \in Stocks : Position(s)'.margin >= Position(s)'.qty
  BY DEF Funded
<1>4. Current'.account.used = account'.used
  BY DEF Current
<1> QED
  BY <1>2, <1>3, <1>4, CurrentParts DEF FundedIn

LEMMA PaidUpStarts == ASSUME DeliveryInit PROVE PaidUp
<1>1. /\ DeliveryTypeOK /\ \A s : Position(s).qty = 0 /\ Position(s).margin = 0 /\ Owned(s) = 0
      /\ account.available = StartingCapital /\ account.used = 0
  BY StartParts
<1>2. SumFunctionOnSet(MarginsIn(Current), Stocks) = 0
  <2>1. \A s \in Stocks : MarginsIn(Current)[s] = 0
    BY <1>1, CurrentParts DEF MarginsIn
  <2> QED
    BY <2>1, SumOfZeros, DeliveryAssumption
<1>3. SumFunctionOnSet(HoldingsIn(Current), Stocks) = 0
  <2>1. \A s \in Stocks : HoldingsIn(Current)[s] = 0
    BY <1>1, CurrentParts DEF HoldingsIn
  <2> QED
    BY <2>1, SumOfZeros, DeliveryAssumption
<1>4. Current.account = account
  BY DEF Current
<1>5. \A s \in Stocks : PositionIn(Current, s).qty = 0 /\ PositionIn(Current, s).margin = 0
  BY <1>1, CurrentParts
<1>6. FundedIn(Current)
  BY <1>1, <1>2, <1>4, <1>5 DEF FundedIn
<1>7. WorthIn(Current) = StartingCapital
  BY <1>1, <1>3, <1>4, DeliveryAssumption DEF WorthIn
<1> QED
  BY <1>6, <1>7, CoveredStarts DEF PaidUp

LEMMA PaidUpHolds ==
  ASSUME DeliveryHazards \cap DeliveryAdmitted = {},
         PaidUp, [DeliveryNext]_deliveryVars
  PROVE  PaidUp'
<1>1. /\ Covered /\ DeliveryTypeOK /\ NotShort(Current) /\ FundedIn(Current)
      /\ WorthIn(Current) = StartingCapital /\ account \in DeliveryAccount
      /\ \A s \in Stocks : Position(s).margin >= 0
  BY CurrentTypes, CurrentParts DEF PaidUp, Covered, FundedIn
<1>2. Covered' /\ DeliveryTypeOK'
  <2>1. {"sellsOverlap", "settlementDies"} \cap DeliveryAdmitted = {}
    BY DEF DeliveryHazards
  <2>2. Covered'
    BY <1>1, <2>1, CoveredHolds
  <2> QED
    BY <2>2 DEF Covered
<1>3. MayUndercut => Funded'
  BY DEF DeliveryHazards, MayUndercut
<1>4. UNCHANGED positions => \A s : Position(s)' = Position(s)
  BY DEF Position
<1>5. ASSUME NEW s \in Stocks, NEW qty \in DeliveryQuantities, Buys(s, qty) \/ Sells(s, qty)
      PROVE  FundedIn(Current') /\ WorthIn(Current') = StartingCapital
  <2>1. /\ UNCHANGED <<positions, holdings>>
        /\ account'.available + account'.used = account.available + account.used
    BY <1>1, <1>5, BookParts
  <2>2. account'.used >= account.used
    <3>1. CASE Buys(s, qty)
      BY <1>1, <3>1, BuyParts
    <3>2. CASE Sells(s, qty)
      BY <1>1, <3>2 DEF Sells, DeliveryAccount
    <3> QED
      BY <1>5, <3>1, <3>2
  <2> QED
    BY <1>1, <1>2, <1>4, <2>1, <2>2, FundedStays, WorthSame
<1>6. ASSUME NEW n \in DOMAIN book, Cancels(n)
      PROVE  FundedIn(Current') /\ WorthIn(Current') = StartingCapital
  <2>1. /\ UNCHANGED <<positions, holdings>> /\ Funded'
        /\ account'.available + account'.used = account.available + account.used
    BY <1>1, <1>3, <1>6, CancelParts
  <2>2. \A s \in Stocks : Position(s)'.margin >= 0
    BY <1>1, <1>4, <2>1
  <2> QED
    BY <1>1, <1>2, <2>1, <2>2, FundedAgain, WorthSame
<1>7. ASSUME NEW n \in DOMAIN book, NEW qty \in DeliveryQuantities, Modifies(n, qty)
      PROVE  FundedIn(Current') /\ WorthIn(Current') = StartingCapital
  <2>1. UNCHANGED <<positions, holdings, account>>
    BY <1>7 DEF Modifies
  <2>2. account'.used >= account.used
    BY <1>1, <2>1 DEF DeliveryAccount
  <2> QED
    BY <1>1, <1>2, <1>4, <2>1, <2>2, FundedStays, WorthSame
<1>8. ASSUME NEW n \in DOMAIN book, Executes(n)
      PROVE  FundedIn(Current') /\ WorthIn(Current') = StartingCapital
  <2>1. PICK s : s = book[n].stock
    OBVIOUS
  <2>2. /\ s \in Stocks /\ Position(s)'.margin >= 0
        /\ \A t \in Stocks \ {s} : Position(t)' = Position(t)
        /\ UNCHANGED holdings /\ Funded'
        /\ account'.available + account'.used = account.available + account.used
    BY <1>1, <1>3, <1>8, <2>1, FillParts
  <2>3. \A t \in Stocks : Position(t)'.margin >= 0
    BY <1>1, <2>2
  <2> QED
    BY <1>1, <1>2, <2>2, <2>3, FundedAgain, WorthSame
<1>9. CASE DayPasses
  <2>1. /\ UNCHANGED <<holdings, account>>
        /\ \A s \in Stocks : Position(s)'.qty = Position(s).qty
                           /\ Position(s)'.margin = Position(s).margin
    BY <1>1, <1>9, DayParts
  <2>2. account'.used >= account.used
    BY <1>1, <2>1 DEF DeliveryAccount
  <2> QED
    BY <1>1, <1>2, <2>1, <2>2, FundedStays, WorthSame DEF PaidUp
<1>10. CASE Settles
  <2>1. FundedIn(Current') /\ WorthIn(Current') = WorthIn(Current)
    BY <1>1, <1>10, SettleParts DEF DeliveryHazards
  <2> QED
    BY <1>1, <1>2, <2>1 DEF PaidUp
<1>11. CASE UNCHANGED deliveryVars
  <2>1. UNCHANGED <<book, positions, holdings, account>>
    BY <1>11 DEF deliveryVars
  <2>2. account'.used >= account.used
    BY <1>1, <2>1 DEF DeliveryAccount
  <2> QED
    BY <1>1, <1>2, <1>4, <2>1, <2>2, FundedStays, WorthSame DEF PaidUp
<1> QED
  BY <1>2, <1>5, <1>6, <1>7, <1>8, <1>9, <1>10, <1>11 DEF DeliveryNext, PaidUp

\* Cash, reserve and holdings add up to the capital through every settlement: shares
\* that become a holding leave the reserve, sold ones become cash.  No sell overlaps
\* another, no fill leaves a position with less margin than its lots cost, and no
\* settlement dies half-way; each of the three loses or makes money.
THEOREM SettlementIsPaidFor ==
  ASSUME DeliveryHazards \cap DeliveryAdmitted = {}
  PROVE  DeliverySpec => []SharesPaidFor
<1>1. DeliveryInit => PaidUp
  BY PaidUpStarts
<1>2. PaidUp /\ [DeliveryNext]_deliveryVars => PaidUp'
  BY PaidUpHolds
<1>3. PaidUp => SharesPaidFor
  BY WorthParts DEF PaidUp
<1> QED
  BY <1>1, <1>2, <1>3, PTL DEF DeliverySpec
=============================================================================
