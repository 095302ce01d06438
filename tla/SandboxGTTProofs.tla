--------------------------- MODULE SandboxGTTProofs ---------------------------
(***************************************************************************)
(* Types, and Exclusion, which is inductive when the sweep of stranded     *)
(* parents runs alone; and from it, when place_order reports the order it  *)
(* has committed: a GTT fires once, and SandboxGTT implements GttContract, *)
(* for any number of GTTs and threads, with crashes, failing statements    *)
(* and overlapping requests admitted.                                      *)
(***************************************************************************)
EXTENDS SandboxGTTExclusion, TLAPS

\* The larger leg's margin is one of the margins, and at least each of them.
LEMMA LargerIsMaximum ==
  ASSUME NEW g \in Gtts, NEW m, \A l \in LegsOf(g) : m[l] \in Nat
  PROVE  /\ Larger(g, m) \in Nat
         /\ \A l \in LegsOf(g) : Larger(g, m) >= m[l]
<1>1. PICK a, b \in Legs : LegsOf(g) = {a, b}
  BY LegsAssumption
<1>2. \E x \in {m[l] : l \in LegsOf(g)} : \A l \in LegsOf(g) : x >= m[l]
  <2>1. m[a] \in Nat /\ m[b] \in Nat
    BY <1>1
  <2>2. CASE m[a] >= m[b]
    BY <1>1, <2>1, <2>2
  <2>3. CASE m[b] >= m[a]
    BY <1>1, <2>1, <2>3
  <2> QED
    BY <2>1, <2>2, <2>3
<1> QED
  BY <1>2 DEF Larger

\* Both legs' margins together are a margin.
LEMMA BothIsNat ==
  ASSUME NEW g \in Gtts, NEW m, \A l \in LegsOf(g) : m[l] \in Nat
  PROVE  Both(g, m) \in Nat
<1> DEFINE pair == CHOOSE p \in Legs \X Legs : LegsOf(g) = {p[1], p[2]}
<1>1. \E p \in Legs \X Legs : LegsOf(g) = {p[1], p[2]}
  <2>1. PICK a, b \in Legs : LegsOf(g) = {a, b}
    BY LegsAssumption
  <2>2. <<a, b>> \in Legs \X Legs /\ LegsOf(g) = {<<a, b>>[1], <<a, b>>[2]}
    BY <2>1
  <2> QED
    BY <2>2
<1>2. LegsOf(g) = {pair[1], pair[2]}
  BY <1>1
<1>3. m[pair[1]] \in Nat /\ m[pair[2]] \in Nat
  BY <1>2
<1> QED
  BY <1>3 DEF Both

\* What place_gtt and modify_gtt reserve is never negative.
LEMMA ReservationIsNat ==
  ASSUME NEW g \in Gtts, NEW m, \A l \in LegsOf(g) : m[l] \in Nat
  PROVE  Reservation(g, m) \in Nat
BY LargerIsMaximum, BothIsNat DEF Reservation

-----------------------------------------------------------------------------
(***************************************************************************)
(* Type correctness.                                                       *)
(***************************************************************************)

\* A busy thread knows what it works on; an evaluator's GTT is its leg's.
LocalsOK ==
  /\ \A e \in Evaluators :
       pc[e] # "idle" => my[e].leg \in Legs /\ my[e].gtt = Parent[my[e].leg]
  /\ \A r \in Requests : pc[r] # "idle" => my[r].gtt \in Gtts
  /\ \A s \in Sweepers :
       pc[s] \in {"expire", "block", "rearm", "sweepReject"} => my[s].gtt \in Gtts

Typed == TypeOK /\ LocalsOK

\* The database's rows are typed; used where a step leaves the threads' part.
RowsOK ==
  /\ gttStatus \in [Gtts -> GttStates]
  /\ gttMargin \in [Gtts -> Nat]
  /\ due \in [Gtts -> BOOLEAN]
  /\ legStatus \in [Legs -> LegStates]
  /\ legMargin \in [Legs -> Nat]
  /\ stale \in [Legs -> BOOLEAN]
  /\ marked \in [Legs -> BOOLEAN]
  /\ order \in [Legs -> Nat \cup {NoOrder}]
  /\ funds \in [available : Nat, used : Nat]

ThreadsOK == pc \in [Threads -> Pcs] /\ my \in [Threads -> Locals] /\ LocalsOK

LEMMA TypedParts == Typed <=> RowsOK /\ ThreadsOK
BY DEF Typed, TypeOK, RowsOK, ThreadsOK

\* What Goto and Keep do to a thread, and to no other.
LEMMA GotoStep ==
  ASSUME ThreadsOK, NEW t \in Threads, NEW next \in Pcs, Goto(t, next)
  PROVE  /\ pc' \in [Threads -> Pcs]
         /\ pc'[t] = next
         /\ \A u \in Threads : u # t => pc'[u] = pc[u]
BY DEF Goto, ThreadsOK

LEMMA KeepStep ==
  ASSUME ThreadsOK, NEW t \in Threads, NEW locals \in Locals, Keep(t, locals)
  PROVE  /\ my' \in [Threads -> Locals]
         /\ my'[t] = locals
         /\ \A u \in Threads : u # t => my'[u] = my[u]
BY DEF Keep, ThreadsOK

LEMMA FreshIsTyped == Fresh \in Locals
BY DEF Fresh, Locals

\* Every margin a transaction writes back is a natural number.
LEMMA StagedIsTyped ==
  ASSUME funds \in [available : Nat, used : Nat], NEW delta \in Int, CanStage(delta)
  PROVE  Moved(delta) \in [available : Nat, used : Nat]
BY DEF CanStage, Moved

\* The first state is typed.
LEMMA InitTyped == Init => Typed
BY FreshIsTyped, MoneyAssumption
   DEF Init, Typed, TypeOK, LocalsOK, GttStates, LegStates, Pcs, EvaluatorPcs, NoOrder, Threads

\* A thread that returns keeps the threads typed.
LEMMA ReturnTyped ==
  ASSUME ThreadsOK, NEW t \in Threads, Return(t)
  PROVE  ThreadsOK'
<1>1. "idle" \in Pcs
  BY DEF Pcs, EvaluatorPcs
<1> QED
  BY <1>1, FreshIsTyped, GotoStep, KeepStep, ThreadsAssumption
  DEF Return, ThreadsOK, LocalsOK, Threads

\* So does a request that keeps its GTT.
LEMMA RequestTyped ==
  ASSUME ThreadsOK, NEW r \in Requests, NEW next \in Pcs, Goto(r, next),
         NEW locals \in Locals, Keep(r, locals), locals.gtt \in Gtts
  PROVE  ThreadsOK'
BY GotoStep, KeepStep, ThreadsAssumption DEF ThreadsOK, LocalsOK, Threads

\* So does an evaluator that goes on with its leg and its GTT.
LEMMA EvaluatorTyped ==
  ASSUME ThreadsOK, NEW e \in Evaluators, NEW next \in Pcs, Goto(e, next),
         NEW locals \in Locals, Keep(e, locals),
         locals.leg \in Legs, locals.gtt = Parent[locals.leg]
  PROVE  ThreadsOK'
BY GotoStep, KeepStep, ThreadsAssumption DEF ThreadsOK, LocalsOK, Threads

LEMMA EvaluatorGoesOn ==
  ASSUME ThreadsOK, NEW e \in Evaluators, pc[e] # "idle", NEW next \in Pcs, Goto(e, next),
         UNCHANGED my
  PROVE  ThreadsOK'
BY GotoStep, ThreadsAssumption DEF ThreadsOK, LocalsOK, Threads

\* So does a sweeper whose GTT is one.
LEMMA SweeperTyped ==
  ASSUME ThreadsOK, NEW s \in Sweepers, NEW next \in Pcs, Goto(s, next),
         NEW locals \in Locals, Keep(s, locals),
         next \in {"expire", "block", "rearm", "sweepReject"} => locals.gtt \in Gtts
  PROVE  ThreadsOK'
BY GotoStep, KeepStep, ThreadsAssumption DEF ThreadsOK, LocalsOK, Threads

-----------------------------------------------------------------------------
\* The user's calls keep the types.
LEMMA CallTyped ==
  ASSUME Typed, NEW r \in Requests, Call(r)
  PROVE  Typed'
<1>0. RowsOK /\ ThreadsOK /\ r \in Threads
  BY TypedParts DEF Threads
<1>1. ASSUME NEW g \in Gtts, PlaceGtt(r, g)
      PROVE  Typed'
  <2>1. PICK m \in [LegsOf(g) -> Margins] :
           /\ CanStage(Reservation(g, m))
           /\ funds' = Moved(Reservation(g, m))
           /\ gttMargin' = [gttMargin EXCEPT ![g] = Reservation(g, m)]
           /\ legMargin' = [l \in Legs |-> IF Parent[l] = g THEN m[l] ELSE legMargin[l]]
    BY <1>1 DEF PlaceGtt
  <2>2. \A l \in LegsOf(g) : m[l] \in Nat
    BY MoneyAssumption
  <2>3. Reservation(g, m) \in Nat
    BY <2>2, ReservationIsNat
  <2>4. funds' \in [available : Nat, used : Nat]
    BY <1>0, <2>1, <2>3, StagedIsTyped DEF RowsOK
  <2>5. legMargin' \in [Legs -> Nat]
    BY <1>0, <2>1, <2>2 DEF LegsOf, RowsOK
  <2>6. RowsOK'
    BY <1>0, <1>1, <2>1, <2>3, <2>4, <2>5 DEF PlaceGtt, RowsOK, GttStates, LegStates
  <2> QED
    BY <1>0, <1>1, <2>6, TypedParts DEF PlaceGtt, ThreadsOK, LocalsOK, Typed, TypeOK, RowsOK
<1>2. ASSUME NEW g \in Gtts, ModifyRead(r, g)
      PROVE  Typed'
  <2>1. PICK m \in [LegsOf(g) -> Margins] :
           Keep(r, [Fresh EXCEPT !.gtt = g, !.held = gttMargin[g],
                                 !.quote = [l \in Legs |-> IF Parent[l] = g THEN m[l] ELSE 0]])
    BY <1>2 DEF ModifyRead
  <2>2. [l \in Legs |-> IF Parent[l] = g THEN m[l] ELSE 0] \in [Legs -> Nat]
    BY MoneyAssumption DEF LegsOf
  <2> DEFINE mine == [Fresh EXCEPT !.gtt = g, !.held = gttMargin[g],
                             !.quote = [l \in Legs |-> IF Parent[l] = g THEN m[l] ELSE 0]]
  <2>3. mine \in Locals /\ mine.gtt = g
    BY <1>0, <2>2 DEF Fresh, Locals, RowsOK
  <2>4. Goto(r, "modify") /\ "modify" \in Pcs
    BY <1>2 DEF ModifyRead, ReadActive, Pcs, RequestPcs
  <2>5. ThreadsOK'
    BY <1>0, <2>1, <2>3, <2>4, RequestTyped
  <2> QED
    BY <1>0, <1>2, <2>5, TypedParts
    DEF ModifyRead, ReadActive, Typed, TypeOK, RowsOK, ThreadsOK, gtts, legs, money
<1>3. ASSUME NEW g \in Gtts, CancelRead(r, g)
      PROVE  Typed'
  <2> DEFINE mine == [Fresh EXCEPT !.gtt = g, !.held = gttMargin[g]]
  <2>1. mine \in Locals /\ mine.gtt = g
    BY <1>0 DEF Fresh, Locals, RowsOK
  <2>2. Keep(r, mine) /\ Goto(r, "cancel") /\ "cancel" \in Pcs
    BY <1>3 DEF CancelRead, ReadActive, Pcs, RequestPcs
  <2>3. ThreadsOK'
    BY <1>0, <2>1, <2>2, RequestTyped
  <2> QED
    BY <1>0, <1>3, <2>3, TypedParts
    DEF CancelRead, ReadActive, Typed, TypeOK, RowsOK, ThreadsOK, gtts, legs, money
<1> QED
  BY <1>1, <1>2, <1>3 DEF Call

\* Withdraw, the end of a cancel and of an expiry, keeps the types.
LEMMA WithdrawTyped ==
  ASSUME Typed, NEW t \in Threads, my[t].gtt \in Gtts,
         NEW outcome \in GttStates, NEW open, Withdraw(t, outcome, open)
  PROVE  Typed'
<1>0. RowsOK /\ ThreadsOK
  BY TypedParts
<1>1. my[t].held \in Nat
  BY <1>0 DEF ThreadsOK, Locals
<1>2. ThreadsOK'
  BY <1>0, ReturnTyped DEF Withdraw
<1>3. CASE gttStatus[my[t].gtt] = "active" /\ CanStage(-my[t].held)
  <2>1. funds' \in [available : Nat, used : Nat]
    BY <1>0, <1>1, <1>3, StagedIsTyped DEF Withdraw, RowsOK
  <2>2. stale' \in [Legs -> BOOLEAN]
    BY <1>3, Zenon DEF Withdraw
  <2>3. RowsOK'
    BY <1>0, <1>3, <2>1, <2>2 DEF Withdraw, RowsOK, LegStates
  <2> QED
    BY <1>2, <2>3, TypedParts DEF Typed, TypeOK, RowsOK, ThreadsOK
<1>4. CASE ~(gttStatus[my[t].gtt] = "active" /\ CanStage(-my[t].held))
  BY <1>0, <1>2, <1>4, TypedParts DEF Withdraw, Typed, TypeOK, RowsOK, ThreadsOK
<1> QED
  BY <1>3, <1>4

\* The commits of the user's calls keep the types.
LEMMA ServeTyped ==
  ASSUME Typed, NEW r \in Requests, Serve(r)
  PROVE  Typed'
<1>0. RowsOK /\ ThreadsOK /\ r \in Threads
  BY TypedParts DEF Threads
<1>1. pc[r] # "idle" => my[r].gtt \in Gtts
  BY <1>0 DEF ThreadsOK, LocalsOK
<1>2. CASE ModifyCommit(r)
  <2> DEFINE g == my[r].gtt
             new == Reservation(g, my[r].quote)
             delta == new - my[r].held
  <2>1. g \in Gtts /\ my[r].held \in Nat /\ my[r].quote \in [Legs -> Nat]
    BY <1>0, <1>1, <1>2 DEF ModifyCommit, ThreadsOK, Locals
  <2>2. \A l \in LegsOf(g) : my[r].quote[l] \in Nat
    BY <2>1 DEF LegsOf
  <2>3. new \in Nat
    BY <2>1, <2>2, ReservationIsNat
  <2> HIDE DEF new
  <2>4. ThreadsOK'
    BY <1>0, <1>2, ReturnTyped DEF ModifyCommit
  <2>5. CASE gttStatus[g] = "active" /\ CanStage(delta)
    <3>1. gttMargin' = [gttMargin EXCEPT ![g] = new] /\ funds' = Moved(delta)
      BY <1>2, <2>5 DEF ModifyCommit, new
    <3>2. funds' \in [available : Nat, used : Nat]
      BY <1>0, <2>1, <2>3, <2>5, <3>1, StagedIsTyped DEF RowsOK
    <3>3. legMargin' \in [Legs -> Nat]
      BY <1>0, <1>2, <2>1, <2>5 DEF ModifyCommit, RowsOK, new
    <3>4. RowsOK'
      BY <1>0, <1>2, <2>3, <3>1, <3>2, <3>3 DEF ModifyCommit, RowsOK
    <3> QED
      BY <2>4, <3>4, TypedParts DEF Typed, TypeOK, RowsOK, ThreadsOK
  <2>6. CASE ~(gttStatus[g] = "active" /\ CanStage(delta))
    BY <1>0, <1>2, <2>4, <2>6, TypedParts
    DEF ModifyCommit, Typed, TypeOK, RowsOK, ThreadsOK, new
  <2> QED
    BY <2>5, <2>6
<1>3. CASE CancelCommit(r)
  BY <1>0, <1>1, <1>3, WithdrawTyped DEF CancelCommit, GttStates
<1> QED
  BY <1>2, <1>3 DEF Serve

\* block_margin keeps the types, whoever calls it.
LEMMA BlockTyped ==
  ASSUME Typed, NEW t \in Evaluators \cup Sweepers, BlockMargin(t)
  PROVE  Typed'
<1>0. RowsOK /\ ThreadsOK /\ t \in Threads /\ my[t].ask \in Nat /\ my[t].undo \in BOOLEAN
  BY TypedParts DEF Threads, ThreadsOK, Locals
<1>1. Granted(t) \in Pcs /\ Refused(t) \in Pcs
  BY DEF Granted, Refused, Pcs, EvaluatorPcs, SweeperPcs, FirePcs, SweepPcs
<1>2. PICK next \in {Granted(t), Refused(t)} : Goto(t, next)
  BY DEF BlockMargin
<1>3. ThreadsOK'
  <2>1. pc[t] = "block" /\ UNCHANGED my
    BY DEF BlockMargin
  <2> QED
    BY <1>0, <1>1, <1>2, <2>1, GotoStep, ThreadsAssumption DEF ThreadsOK, LocalsOK, Threads
<1>4. funds' \in [available : Nat, used : Nat]
  BY <1>0 DEF BlockMargin, Moved, RowsOK
<1> QED
  BY <1>0, <1>3, <1>4, TypedParts
  DEF BlockMargin, Typed, TypeOK, RowsOK, ThreadsOK, gtts, legs

\* The evaluators keep the types.
LEMMA ClaimTyped ==
  ASSUME Typed, NEW e \in Evaluators, NEW l \in Legs, Claim(e, l)
  PROVE  Typed'
<1>0. RowsOK /\ ThreadsOK
  BY TypedParts
<1> DEFINE mine == [Fresh EXCEPT !.leg = l, !.gtt = Parent[l]]
<1>1. mine \in Locals /\ mine.leg = l /\ mine.gtt = Parent[l]
  BY LegsAssumption DEF Fresh, Locals
<1>2. Goto(e, "claimed") /\ Keep(e, mine) /\ "claimed" \in Pcs
  BY DEF Claim, Pcs, EvaluatorPcs
<1>3. ThreadsOK'
  BY <1>0, <1>1, <1>2, EvaluatorTyped
<1>4. RowsOK'
  BY <1>0 DEF Claim, RowsOK, LegStates, gtts, money
<1> QED
  BY <1>3, <1>4, TypedParts DEF Typed, TypeOK, RowsOK, ThreadsOK

LEMMA FireTyped ==
  ASSUME Typed, NEW e \in Evaluators, Fire(e)
  PROVE  Typed'
<1>0. RowsOK /\ ThreadsOK /\ e \in Threads /\ my[e] \in Locals
  BY TypedParts DEF Threads, ThreadsOK
<1>1. pc[e] # "idle" =>
        my[e].leg \in Legs /\ my[e].gtt = Parent[my[e].leg] /\ my[e].gtt \in Gtts
  BY <1>0, LegsAssumption DEF ThreadsOK, LocalsOK
<1>2. {"checked", "owner", "revertClaim", "release", "order", "block", "insert", "finalise",
       "compensate", "restored", "unfunded", "reject", "revertParent"} \subseteq Pcs
  BY DEF Pcs, EvaluatorPcs, FirePcs
<1>a. ASSUME RowsOK', ThreadsOK'
      PROVE  Typed'
  BY <1>a, TypedParts DEF Typed, TypeOK, RowsOK, ThreadsOK
<1>3. CASE CheckLeg(e)
  <2>1. ThreadsOK'
    BY <1>0, <1>2, <1>3, EvaluatorGoesOn, ReturnTyped DEF CheckLeg
  <2> QED
    BY <1>0, <1>3, <1>a, <2>1 DEF CheckLeg, RowsOK, gtts, legs, money
<1>4. CASE ClaimParent(e)
  <2>1. ThreadsOK'
    BY <1>0, <1>2, <1>4, EvaluatorGoesOn DEF ClaimParent
  <2>2. gttStatus' \in [Gtts -> GttStates]
    BY <1>0, <1>4 DEF ClaimParent, RowsOK, GttStates
  <2> QED
    BY <1>0, <1>4, <1>a, <2>1, <2>2 DEF ClaimParent, RowsOK, legs, money
<1>5. CASE ReadReservation(e)
  <2> DEFINE mine == [my[e] EXCEPT !.held = gttMargin[my[e].gtt]]
  <2>1. mine \in Locals /\ mine.leg = my[e].leg /\ mine.gtt = my[e].gtt
    BY <1>0, <1>1, <1>5 DEF ReadReservation, RowsOK, Locals
  <2>2. PICK next \in {"release", "order"} : Goto(e, next)
    BY <1>5 DEF ReadReservation
  <2>3. ThreadsOK'
    BY <1>0, <1>1, <1>2, <1>5, <2>1, <2>2, EvaluatorTyped DEF ReadReservation
  <2> QED
    BY <1>0, <1>5, <1>a, <2>3 DEF ReadReservation, RowsOK, gtts, legs, money
<1>6. CASE ReleaseReservation(e)
  <2>1. ThreadsOK'
    BY <1>0, <1>2, <1>6, EvaluatorGoesOn DEF ReleaseReservation
  <2>2. funds' \in [available : Nat, used : Nat]
    BY <1>0, <1>6, StagedIsTyped DEF ReleaseReservation, RowsOK, Locals
  <2> QED
    BY <1>0, <1>6, <1>a, <2>1, <2>2 DEF ReleaseReservation, RowsOK, legs
<1>7. CASE ReleaseFails(e) \/ OrderRefused(e)
  <2>1. ThreadsOK'
    BY <1>0, <1>2, <1>7, EvaluatorGoesOn DEF ReleaseFails, OrderRefused
  <2> QED
    BY <1>0, <1>7, <1>a, <2>1 DEF ReleaseFails, OrderRefused, RowsOK, gtts, legs, money
<1>8. CASE OrderPriced(e)
  <2>1. PICK m \in Margins \cup {0}, next \in {"block", "insert"} :
           Keep(e, [my[e] EXCEPT !.ask = m]) /\ Goto(e, next)
    BY <1>8 DEF OrderPriced
  <2> DEFINE mine == [my[e] EXCEPT !.ask = m]
  <2>2. mine \in Locals /\ mine.leg = my[e].leg /\ mine.gtt = my[e].gtt
    BY <1>0, MoneyAssumption DEF Locals
  <2>3. ThreadsOK'
    BY <1>0, <1>1, <1>2, <1>8, <2>1, <2>2, EvaluatorTyped DEF OrderPriced
  <2> QED
    BY <1>0, <1>8, <1>a, <2>3 DEF OrderPriced, RowsOK, gtts, legs, money
<1>9. CASE InsertOrder(e)
  <2>1. ThreadsOK'
    BY <1>0, <1>2, <1>9, EvaluatorGoesOn DEF InsertOrder
  <2>2. order' \in [Legs -> Nat \cup {NoOrder}]
    BY <1>0, <1>9 DEF InsertOrder, RowsOK, Locals
  <2> QED
    BY <1>0, <1>9, <1>a, <2>1, <2>2 DEF InsertOrder, RowsOK, gtts, legs
<1>10. CASE BlockMargin(e)
  BY <1>10, BlockTyped
<1>11. CASE Finalise(e)
  <2>1. ThreadsOK'
    BY <1>0, <1>11, ReturnTyped DEF Finalise
  <2>2. stale' \in [Legs -> BOOLEAN]
    BY <1>11, Zenon DEF Finalise
  <2>3. legStatus' \in [Legs -> LegStates]
    BY <1>0, <1>11 DEF Finalise, RowsOK, LegStates
  <2> QED
    BY <1>0, <1>11, <1>a, <2>1, <2>2, <2>3 DEF Finalise, RowsOK, gtts, money
<1>12. CASE FinaliseFails(e)
  <2>1. ThreadsOK'
    BY <1>0, <1>12, ReturnTyped DEF FinaliseFails
  <2> QED
    BY <1>0, <1>12, <1>a, <2>1 DEF FinaliseFails, RowsOK, gtts, legs, money
<1>13. CASE Compensate(e)
  <2> DEFINE mine == [my[e] EXCEPT !.undo = TRUE, !.ask = my[e].held]
  <2>1. mine \in Locals /\ mine.leg = my[e].leg /\ mine.gtt = my[e].gtt
    BY <1>0 DEF Locals
  <2>2. PICK next \in {"block", "revertParent"} : Goto(e, next)
    BY <1>13 DEF Compensate
  <2>3. ThreadsOK'
    BY <1>0, <1>1, <1>2, <1>13, <2>1, <2>2, EvaluatorTyped DEF Compensate
  <2> QED
    BY <1>0, <1>13, <1>a, <2>3 DEF Compensate, RowsOK, gtts, legs, money
<1>14. CASE PersistRestored(e) \/ PersistUnfunded(e)
  <2>1. ThreadsOK'
    BY <1>0, <1>2, <1>14, EvaluatorGoesOn DEF PersistRestored, PersistUnfunded
  <2>2. gttMargin' \in [Gtts -> Nat]
    BY <1>0, <1>14 DEF PersistRestored, PersistUnfunded, RowsOK, Locals
  <2> QED
    BY <1>0, <1>14, <1>a, <2>1, <2>2
    DEF PersistRestored, PersistUnfunded, RowsOK, legs, money
<1>15. CASE RejectGtt(e) \/ RevertParent(e)
  <2>1. ThreadsOK'
    BY <1>0, <1>2, <1>15, EvaluatorGoesOn DEF RejectGtt, RevertParent
  <2>2. gttStatus' \in [Gtts -> GttStates]
    BY <1>0, <1>15 DEF RejectGtt, RevertParent, RowsOK, GttStates
  <2> QED
    BY <1>0, <1>15, <1>a, <2>1, <2>2 DEF RejectGtt, RevertParent, RowsOK, legs, money
<1>16. CASE RevertClaim(e)
  <2>1. ThreadsOK'
    BY <1>0, <1>16, ReturnTyped DEF RevertClaim
  <2> QED
    BY <1>0, <1>16, <1>a, <2>1 DEF RevertClaim, RowsOK, LegStates, gtts, money
<1> QED
  BY <1>3, <1>4, <1>5, <1>6, <1>7, <1>8, <1>9, <1>10, <1>11, <1>12, <1>13, <1>14, <1>15,
     <1>16 DEF Fire

\* The sweepers keep the types.
LEMMA ReclaimTyped ==
  ASSUME Typed, NEW s \in Sweepers, Reclaim(s)
  PROVE  Typed'
<1>0. RowsOK /\ ThreadsOK /\ s \in Threads /\ my[s] \in Locals
  BY TypedParts DEF Threads, ThreadsOK
<1>1. pc[s] \in {"expire", "block", "rearm", "sweepReject"} => my[s].gtt \in Gtts
  BY <1>0 DEF ThreadsOK, LocalsOK
<1>2. {"stranded", "sweep", "block", "rearm", "sweepReject"} \subseteq Pcs
  BY DEF Pcs, SweeperPcs, SweepPcs
<1>a. ASSUME RowsOK', ThreadsOK'
      PROVE  Typed'
  BY <1>a, TypedParts DEF Typed, TypeOK, RowsOK, ThreadsOK
<1>3. CASE ReclaimLegs(s)
  <2>1. ThreadsOK'
    <3>1. Goto(s, "stranded") /\ UNCHANGED my
      BY <1>3 DEF ReclaimLegs
    <3> QED
      BY <1>0, <1>2, <3>1, GotoStep, ThreadsAssumption DEF ThreadsOK, LocalsOK, Threads
  <2>2. stale' \in [Legs -> BOOLEAN]
    BY <1>3, Zenon DEF ReclaimLegs
  <2> QED
    BY <1>0, <1>3, <1>a, <2>1, <2>2 DEF ReclaimLegs, RowsOK, LegStates, gtts, money
<1>4. CASE QueryStranded(s)
  <2> DEFINE mine == [Fresh EXCEPT !.todo = {g \in Gtts : gttStatus[g] = "triggered"}]
  <2>1. mine \in Locals
    BY DEF Fresh, Locals
  <2>2. Keep(s, mine) /\ Goto(s, "sweep")
    BY <1>4 DEF QueryStranded
  <2>3. ThreadsOK'
    BY <1>0, <1>2, <2>1, <2>2, SweeperTyped
  <2> QED
    BY <1>0, <1>4, <1>a, <2>3 DEF QueryStranded, RowsOK, gtts, legs, money
<1>5. CASE SweepDone(s)
  <2>1. ThreadsOK'
    BY <1>0, <1>5, ReturnTyped DEF SweepDone
  <2> QED
    BY <1>0, <1>5, <1>a, <2>1 DEF SweepDone, RowsOK, gtts, legs, money
<1>6. ASSUME NEW g \in Gtts, SweepSkips(s, g) \/ SweepFinalises(s, g)
      PROVE  Typed'
  <2> DEFINE mine == [my[s] EXCEPT !.todo = @ \ {g}]
  <2>1. mine \in Locals
    BY <1>0 DEF Locals
  <2>2. Keep(s, mine) /\ UNCHANGED pc /\ pc[s] = "sweep"
    BY <1>6 DEF SweepSkips, SweepFinalises
  <2>3. ThreadsOK'
    BY <1>0, <2>1, <2>2, KeepStep, ThreadsAssumption DEF ThreadsOK, LocalsOK, Threads
  <2>4. legStatus' \in [Legs -> LegStates]
    BY <1>0, <1>6 DEF SweepSkips, SweepFinalises, RowsOK, LegStates, LegsOf, legs
  <2>5. marked' \in [Legs -> BOOLEAN] /\ stale' \in [Legs -> BOOLEAN]
    BY <1>0, <1>6 DEF SweepSkips, SweepFinalises, RowsOK, LegsOf, legs
  <2>6. UNCHANGED <<gtts, legMargin, money>>
    BY <1>6 DEF SweepSkips, SweepFinalises, legs
  <2> QED
    BY <1>0, <1>a, <2>3, <2>4, <2>5, <2>6 DEF RowsOK, gtts, money
<1>7. ASSUME NEW g \in Gtts, SweepInspects(s, g)
      PROVE  Typed'
  <2> DEFINE mine == [my[s] EXCEPT !.todo = @ \ {g}, !.gtt = g, !.held = gttMargin[g],
                             !.ask = IF gttMargin[g] > 0 THEN 0 ELSE Larger(g, legMargin)]
  <2>1. Larger(g, legMargin) \in Nat
    BY <1>0, LargerIsMaximum DEF RowsOK, LegsOf
  <2>2. mine \in Locals /\ mine.gtt = g
    BY <1>0, <2>1 DEF RowsOK, Locals
  <2>3. PICK next \in {"rearm", "block"} : Goto(s, next)
    BY <1>7 DEF SweepInspects
  <2>4. Keep(s, mine)
    BY <1>7 DEF SweepInspects
  <2>5. ThreadsOK'
    BY <1>0, <1>2, <2>2, <2>3, <2>4, SweeperTyped
  <2> QED
    BY <1>0, <1>7, <1>a, <2>5 DEF SweepInspects, RowsOK, gtts, legs, money
<1>8. CASE BlockMargin(s)
  BY <1>8, BlockTyped
<1>9. CASE Rearm(s) \/ SweepRejects(s)
  <2> DEFINE mine == [Fresh EXCEPT !.todo = my[s].todo]
  <2>1. mine \in Locals
    BY <1>0 DEF Fresh, Locals
  <2>2. Keep(s, mine) /\ Goto(s, "sweep")
    BY <1>9 DEF Rearm, SweepRejects, NextStranded
  <2>3. ThreadsOK'
    BY <1>0, <1>2, <2>1, <2>2, SweeperTyped
  <2>4. my[s].gtt \in Gtts /\ my[s].held + my[s].ask \in Nat
    BY <1>0, <1>1, <1>9 DEF Rearm, SweepRejects, Locals
  <2>5. gttStatus' \in [Gtts -> GttStates] /\ gttMargin' \in [Gtts -> Nat]
    BY <1>0, <1>9, <2>4 DEF Rearm, SweepRejects, RowsOK, GttStates
  <2>6. legStatus' \in [Legs -> LegStates]
    BY <1>0, <1>9 DEF Rearm, SweepRejects, RowsOK, LegStates, legs
  <2>7. stale' \in [Legs -> BOOLEAN]
    <3>1. CASE Rearm(s)
      BY <3>1, Zenon DEF Rearm
    <3>2. CASE SweepRejects(s)
      BY <1>0, <3>2 DEF SweepRejects, RowsOK, legs
    <3> QED
      BY <1>9, <3>1, <3>2
  <2>8. UNCHANGED <<due, legMargin, marked, money>>
    BY <1>9 DEF Rearm, SweepRejects, legs
  <2> QED
    BY <1>0, <1>a, <2>3, <2>5, <2>6, <2>7, <2>8 DEF RowsOK, money
<1> QED
  BY <1>3, <1>4, <1>5, <1>6, <1>7, <1>8, <1>9 DEF Reclaim

LEMMA ExpireTyped ==
  ASSUME Typed, NEW s \in Sweepers,
         ExpireCommit(s) \/ \E g \in Gtts : ExpireRead(s, g)
  PROVE  Typed'
<1>0. RowsOK /\ ThreadsOK /\ s \in Threads
  BY TypedParts DEF Threads, ThreadsOK
<1>1. CASE ExpireCommit(s)
  <2>1. my[s].gtt \in Gtts
    BY <1>0, <1>1 DEF ExpireCommit, ThreadsOK, LocalsOK
  <2> QED
    BY <1>0, <1>1, <2>1, WithdrawTyped DEF ExpireCommit, GttStates
<1>2. ASSUME NEW g \in Gtts, ExpireRead(s, g)
      PROVE  Typed'
  <2> DEFINE mine == [Fresh EXCEPT !.gtt = g, !.held = gttMargin[g]]
  <2>1. mine \in Locals /\ mine.gtt = g
    BY <1>0 DEF Fresh, Locals, RowsOK
  <2>2. Keep(s, mine) /\ Goto(s, "expire") /\ "expire" \in Pcs
    BY <1>2 DEF ExpireRead, ReadActive, Pcs, SweeperPcs
  <2>3. ThreadsOK'
    BY <1>0, <2>1, <2>2, SweeperTyped
  <2> QED
    BY <1>0, <1>2, <2>3, TypedParts
    DEF ExpireRead, ReadActive, Typed, TypeOK, RowsOK, ThreadsOK, gtts, legs, money
<1> QED
  BY <1>1, <1>2

\* A statement that raises leaves the rows alone, and its thread typed.
LEMMA DatabaseFailsTyped ==
  ASSUME Typed, NEW t \in Threads, DatabaseFails(t)
  PROVE  Typed'
<1>0. RowsOK /\ ThreadsOK
  BY TypedParts
<1>1. pc[t] # "idle" /\ UNCHANGED <<gtts, legs, order, funds>>
  BY DEF DatabaseFails
<1>2. ThreadsOK'
  <2>1. CASE Return(t)
    BY <1>0, <2>1, ReturnTyped
  <2>2. CASE Goto(t, Rescue(t)) /\ UNCHANGED my
    <3>1. PICK next \in {"idle", "compensate", "sweepReject", "unfunded", "revertParent",
                         "reject", "revertClaim"} :
            Goto(t, next) /\ (next = "sweepReject" => pc[t] = "block")
      BY <2>2 DEF Rescue, Refused
    <3>2. next \in Pcs
      BY DEF Pcs, EvaluatorPcs, SweeperPcs, FirePcs, SweepPcs
    <3> QED
      BY <1>0, <1>1, <2>2, <3>1, <3>2, GotoStep, ThreadsAssumption
      DEF ThreadsOK, LocalsOK, Threads
  <2> QED
    BY <2>1, <2>2 DEF DatabaseFails
<1> QED
  BY <1>0, <1>1, <1>2, TypedParts DEF Typed, TypeOK, RowsOK, ThreadsOK, gtts, legs

\* So do the passing of time, a crash, and a step that changes nothing.
LEMMA WorldTyped ==
  ASSUME Typed,
         \/ \E l \in Legs : ClaimAges(l)
         \/ \E g \in Gtts : FallsDue(g)
         \/ Crash
         \/ UNCHANGED vars
  PROVE  Typed'
<1>1. ASSUME NEW l \in Legs, ClaimAges(l)
      PROVE  Typed'
  BY <1>1 DEF ClaimAges, Typed, TypeOK, LocalsOK, gtts, money
<1>2. ASSUME NEW g \in Gtts, FallsDue(g)
      PROVE  Typed'
  BY <1>2 DEF FallsDue, Typed, TypeOK, LocalsOK, legs, money
<1>3. CASE Crash
  BY <1>3, FreshIsTyped DEF Crash, Typed, TypeOK, LocalsOK, Threads, gtts, legs, Pcs, EvaluatorPcs
<1>4. CASE UNCHANGED vars
  BY <1>4 DEF vars, gtts, legs, money, Typed, TypeOK, LocalsOK
<1> QED
  BY <1>1, <1>2, <1>3, <1>4

LEMMA NextTyped == Typed /\ [Next]_vars => Typed'
<1> SUFFICES ASSUME Typed, [Next]_vars
             PROVE  Typed'
  OBVIOUS
<1> QED
  BY CallTyped, ServeTyped, ClaimTyped, FireTyped, ReclaimTyped, ExpireTyped,
     DatabaseFailsTyped, WorldTyped
  DEF Next, Step, Fault

\* Type correctness: no margin, balance or reservation is ever negative, and
\* every row and local variable holds what its column or use allows, whatever
\* interleaves and whatever hazards are admitted.
THEOREM TypeCorrect == Spec => []TypeOK
<1>1. Typed => TypeOK
  BY DEF Typed
<1> QED
  BY InitTyped, NextTyped, <1>1, PTL DEF Spec

-----------------------------------------------------------------------------
(***************************************************************************)
(* Exclusion is inductive.                                                 *)
(***************************************************************************)

\* No evaluator comes to own a GTT, and no sweep to hold one.
ThreadsLetGo ==
  /\ \A e \in Evaluators : Firing(e)' =>
       Firing(e) /\ my'[e].gtt = my[e].gtt /\ (pc'[e] # "finalise" => pc[e] # "finalise")
  /\ \A s \in Sweepers : Sweeping(s)' =>
       /\ Sweeping(s) /\ my'[s].todo \subseteq my[s].todo
       /\ Inspected(s)' => Inspected(s) /\ my'[s].gtt = my[s].gtt

\* In the new state no thread has the GTT g in its hands.
NobodysNext(g) ==
  /\ \A e \in Evaluators : Firing(e)' => my'[e].gtt # g
  /\ \A s \in Sweepers : Sweeping(s)' =>
       g \notin my'[s].todo /\ (Inspected(s)' => my'[s].gtt # g)

Unplaced(g) == \A l \in Legs : Parent[l] = g => ~Placed(l)

\* A GTT leaves "triggered" only out of everyone's hands, and without an order
\* that an answer told of.
StatusLetsGo ==
  \A g \in Gtts : gttStatus[g] = "triggered" /\ gttStatus'[g] # "triggered" =>
    NobodysNext(g) /\ (AnswersKept => Unplaced(g))

\* Steps that place no order and take no GTT keep the invariant.
LEMMA LettingGo ==
  ASSUME Typed, Typed', Exclusion, order' = order, ThreadsLetGo, StatusLetsGo
  PROVE  Exclusion'
<1> USE DEF Firing, Sweeping, Inspected
<1>0. /\ \A e \in Evaluators : pc'[e] \in FirePcs => my'[e].gtt \in Gtts
      /\ \A s \in Sweepers : Inspected(s)' => my'[s].gtt \in Gtts
      /\ \A l \in Legs : Parent[l] \in Gtts
  BY LegsAssumption DEF Typed, LocalsOK, FirePcs
<1>1. OwnerHoldsParent'
  BY <1>0 DEF Exclusion, OwnerHoldsParent, ThreadsLetGo, StatusLetsGo, NobodysNext
<1>2. OneOwner'
  BY DEF Exclusion, OneOwner, ThreadsLetGo
<1>3. AnswersKept => OwnerBeforeOrder'
  BY DEF Exclusion, OwnerBeforeOrder, ThreadsLetGo, Placed
<1>4. SweepsOwnerless'
  <2> SUFFICES ASSUME NEW s \in Sweepers, Sweeping(s)', NEW g \in Gtts,
                      g \in my'[s].todo \/ (Inspected(s)' /\ g = my'[s].gtt)
               PROVE  gttStatus'[g] = "triggered"
                        /\ \A e \in Evaluators : Firing(e)' => my'[e].gtt # g
    BY DEF SweepsOwnerless
  <2>1. Sweeping(s) /\ (g \in my[s].todo \/ (Inspected(s) /\ g = my[s].gtt))
    BY DEF ThreadsLetGo
  <2>2. gttStatus[g] = "triggered" /\ \A e \in Evaluators : Firing(e) => my[e].gtt # g
    BY <2>1 DEF Exclusion, SweepsOwnerless
  <2>3. gttStatus'[g] = "triggered"
    BY <2>2 DEF StatusLetsGo, NobodysNext
  <2> QED
    BY <2>2, <2>3 DEF ThreadsLetGo
<1>5. SweepsUnplaced'
  <2> SUFFICES ASSUME NEW s \in Sweepers, Inspected(s)'
               PROVE  /\ my'[s].gtt \notin my'[s].todo
                      /\ \A l \in Legs : Parent[l] = my'[s].gtt => ~Placed(l)'
    BY DEF SweepsUnplaced
  <2>1. Sweeping(s)'
    BY DEF SweepPcs
  <2> QED
    BY <2>1 DEF Exclusion, SweepsUnplaced, ThreadsLetGo, Placed
<1>6. OneSweep'
  BY DEF Exclusion, OneSweep, ThreadsLetGo
<1>7. AnswersKept => OrderMeansTriggered'
  BY <1>0 DEF Exclusion, OrderMeansTriggered, StatusLetsGo, Unplaced, Placed
<1>8. AnswersKept => OneOrderPerGtt'
  BY DEF Exclusion, OneOrderPerGtt, Placed
<1> QED
  BY <1>1, <1>2, <1>3, <1>4, <1>5, <1>6, <1>7, <1>8 DEF Exclusion

\* Only the thread t moves, to next; the others stand.
LEMMA OneMoves ==
  ASSUME ThreadsOK, NEW t \in Threads, NEW next \in Pcs, Goto(t, next)
  PROVE  /\ pc'[t] = next
         /\ \A u \in Threads : u # t => pc'[u] = pc[u]
BY GotoStep

LEMMA OneKeeps ==
  ASSUME ThreadsOK, NEW t \in Threads, NEW locals, Keep(t, locals)
  PROVE  /\ my'[t] = locals
         /\ \A u \in Threads : u # t => my'[u] = my[u]
BY DEF Keep, ThreadsOK

Others(t) == \A u \in Threads : u # t => pc'[u] = pc[u] /\ my'[u] = my[u]

\* A thread outside the fire and the sweep takes nothing.
LEMMA BystanderLetsGo ==
  ASSUME NEW t \in Threads, Others(t), ~Firing(t)', ~Sweeping(t)'
  PROVE  ThreadsLetGo
BY DEF Others, ThreadsLetGo, Firing, Sweeping, Inspected, Threads

\* Nor does an owner that goes on with its GTT.
LEMMA OwnerLetsGo ==
  ASSUME NEW e \in Evaluators, Others(e), Firing(e), my'[e].gtt = my[e].gtt,
         pc[e] # "finalise" \/ pc'[e] = "finalise"
  PROVE  ThreadsLetGo
<1>1. e \in Threads /\ e \notin Sweepers
  BY ThreadsAssumption DEF Threads
<1>2. \A f \in Evaluators : f # e => f \in Threads
  BY DEF Threads
<1>3. \A s \in Sweepers : s # e /\ s \in Threads
  BY <1>1 DEF Threads
<1> QED
  BY <1>2, <1>3 DEF Others, ThreadsLetGo, Firing, Sweeping, Inspected

\* Nor does a sweep that goes on with a shorter list.
LEMMA SweepLetsGo ==
  ASSUME NEW s \in Sweepers, Others(s), Sweeping(s), my'[s].todo \subseteq my[s].todo,
         Inspected(s)' => Inspected(s) /\ my'[s].gtt = my[s].gtt
  PROVE  ThreadsLetGo
<1>1. s \in Threads /\ s \notin Evaluators
  BY ThreadsAssumption DEF Threads
<1>2. \A u \in Evaluators \cup Sweepers : u \in Threads
  BY DEF Threads
<1> QED
  BY <1>1, <1>2 DEF Others, ThreadsLetGo, Firing, Sweeping, Inspected

-----------------------------------------------------------------------------
\* The transaction that ends a resting GTT touches no triggered one.
LEMMA WithdrawExcludes ==
  ASSUME Typed, Typed', Exclusion, NEW t \in Requests \cup Sweepers, pc[t] \notin SweepPcs,
         NEW outcome, NEW open, Withdraw(t, outcome, open)
  PROVE  Exclusion'
<1>0. ThreadsOK /\ RowsOK /\ t \in Threads /\ t \notin Evaluators
  BY TypedParts, ThreadsAssumption DEF Threads
<1>1. "idle" \in Pcs
  BY DEF Pcs, EvaluatorPcs
<1>2. Others(t) /\ pc'[t] = "idle"
  BY <1>0, <1>1, OneMoves, OneKeeps DEF Withdraw, Return, Others
<1>3. ThreadsLetGo
  BY <1>0, <1>2, BystanderLetsGo DEF Firing, Sweeping, SweepPcs
<1>4. StatusLetsGo
  BY <1>0 DEF Withdraw, StatusLetsGo, RowsOK
<1>5. order' = order
  BY DEF Withdraw
<1> QED
  BY <1>3, <1>4, <1>5, LettingGo

\* The user's calls keep the exclusion.
LEMMA RequestsExclude ==
  ASSUME Typed, Typed', Exclusion, NEW r \in Requests, Call(r) \/ Serve(r)
  PROVE  Exclusion'
<1>0. ThreadsOK /\ RowsOK /\ r \in Threads /\ r \notin Evaluators /\ r \notin Sweepers
  BY TypedParts, ThreadsAssumption DEF Threads
<1>1. {"idle", "modify", "cancel"} \subseteq Pcs
  BY DEF Pcs, EvaluatorPcs, RequestPcs
<1>2. ASSUME Others(r), StatusLetsGo, order' = order
      PROVE  Exclusion'
  BY <1>0, <1>2, BystanderLetsGo, LettingGo DEF Firing, Sweeping
<1>3. ASSUME NEW g \in Gtts, PlaceGtt(r, g)
      PROVE  Exclusion'
  <2>1. Others(r) /\ order' = order
    BY <1>3 DEF PlaceGtt, Others
  <2>2. StatusLetsGo
    BY <1>0, <1>3 DEF PlaceGtt, StatusLetsGo, RowsOK
  <2> QED
    BY <1>2, <2>1, <2>2
<1>4. ASSUME NEW g \in Gtts, ModifyRead(r, g) \/ CancelRead(r, g)
      PROVE  Exclusion'
  <2>1. Others(r)
    BY <1>0, <1>1, <1>4, OneMoves, OneKeeps DEF ModifyRead, CancelRead, ReadActive, Others
  <2>2. UNCHANGED <<gtts, money>>
    BY <1>4 DEF ModifyRead, CancelRead, ReadActive
  <2> QED
    BY <1>2, <2>1, <2>2 DEF gtts, money, StatusLetsGo
<1>5. CASE ModifyCommit(r)
  <2>1. Others(r)
    BY <1>0, <1>1, <1>5, OneMoves, OneKeeps DEF ModifyCommit, Return, Others
  <2>2. gttStatus' = gttStatus /\ order' = order
    BY <1>5 DEF ModifyCommit
  <2> QED
    BY <1>2, <2>1, <2>2 DEF StatusLetsGo
<1>6. CASE CancelCommit(r)
  BY <1>6, WithdrawExcludes DEF CancelCommit, SweepPcs
<1> QED
  BY <1>3, <1>4, <1>5, <1>6 DEF Call, Serve

-----------------------------------------------------------------------------
\* The steps of an evaluator that neither claim the parent, insert the order,
\* nor let the parent go.
LEMMA EvaluatorGoesOnAlone ==
  ASSUME Typed, Typed', Exclusion, NEW e \in Evaluators,
         \/ \E l \in Legs : Claim(e, l)
         \/ CheckLeg(e) \/ ReadReservation(e) \/ ReleaseReservation(e) \/ ReleaseFails(e)
         \/ OrderRefused(e) \/ OrderPriced(e) \/ BlockMargin(e) \/ Finalise(e)
         \/ FinaliseFails(e) \/ Compensate(e) \/ PersistRestored(e) \/ PersistUnfunded(e)
         \/ RevertClaim(e)
  PROVE  Exclusion'
<1>0. ThreadsOK /\ e \in Threads /\ e \notin Sweepers
  BY TypedParts, ThreadsAssumption DEF Threads
<1>1. gttStatus' = gttStatus /\ order' = order
  BY DEF Claim, CheckLeg, ReadReservation, ReleaseReservation, ReleaseFails, OrderRefused,
         OrderPriced, BlockMargin, Finalise, FinaliseFails, Compensate, PersistRestored,
         PersistUnfunded, RevertClaim, gtts, money
<1>2. Others(e) /\ ThreadsLetGo
  <2>1. ASSUME NEW next \in Pcs, Goto(e, next), UNCHANGED my
        PROVE  Others(e) /\ pc'[e] = next /\ my'[e].gtt = my[e].gtt
    BY <1>0, <2>1, OneMoves DEF Others
  <2>2. ASSUME NEW next \in Pcs, Goto(e, next), NEW locals, Keep(e, locals)
        PROVE  Others(e) /\ pc'[e] = next /\ my'[e] = locals
    BY <1>0, <2>2, OneMoves, OneKeeps DEF Others
  <2>3. EvaluatorPcs \subseteq Pcs /\ FirePcs \subseteq Pcs
    BY DEF Pcs, EvaluatorPcs
  <2>4. CASE (\E l \in Legs : Claim(e, l)) \/ CheckLeg(e) \/ Finalise(e) \/ FinaliseFails(e)
               \/ RevertClaim(e)
    <3>1. Others(e) /\ pc'[e] \in {"idle", "claimed", "checked"}
      BY <2>1, <2>2, <2>3, <2>4
      DEF Claim, CheckLeg, Finalise, FinaliseFails, RevertClaim, Return, EvaluatorPcs
    <3> QED
      BY <1>0, <3>1, BystanderLetsGo DEF Firing, Sweeping, FirePcs
  <2>5. CASE ReleaseReservation(e) \/ ReleaseFails(e) \/ OrderRefused(e) \/ BlockMargin(e)
               \/ PersistRestored(e) \/ PersistUnfunded(e)
    <3>1. pc[e] \in FirePcs \ {"finalise"}
      BY <2>5 DEF ReleaseReservation, ReleaseFails, OrderRefused, BlockMargin,
                  PersistRestored, PersistUnfunded, FirePcs
    <3>2. Others(e) /\ my'[e].gtt = my[e].gtt
      BY <1>0, <2>1, <2>3, <2>5 DEF ReleaseReservation, ReleaseFails, OrderRefused,
         BlockMargin, PersistRestored, PersistUnfunded, FirePcs, Granted, Refused
    <3> QED
      BY <3>1, <3>2, OwnerLetsGo DEF Firing
  <2>6. CASE ReadReservation(e) \/ OrderPriced(e) \/ Compensate(e)
    <3>1. pc[e] \in FirePcs \ {"finalise"}
      BY <2>6 DEF ReadReservation, OrderPriced, Compensate, FirePcs
    <3>2. my[e] \in Locals
      BY <1>0 DEF ThreadsOK
    <3>3. \E next \in {"release", "order", "block", "insert", "revertParent"} : Goto(e, next)
      BY <2>6 DEF ReadReservation, OrderPriced, Compensate
    <3>4. \E locals : Keep(e, locals) /\ locals.gtt = my[e].gtt
      <4>1. CASE ReadReservation(e)
        BY <3>2, <4>1 DEF ReadReservation, Locals
      <4>2. CASE OrderPriced(e)
        BY <3>2, <4>2 DEF OrderPriced, Locals
      <4>3. CASE Compensate(e)
        <5>1. [my[e] EXCEPT !.undo = TRUE, !.ask = my[e].held].gtt = my[e].gtt
          BY <3>2 DEF Locals
        <5> QED
          BY <4>3, <5>1 DEF Compensate
      <4> QED
        BY <2>6, <4>1, <4>2, <4>3
    <3>5. Others(e) /\ my'[e].gtt = my[e].gtt
      BY <2>2, <2>3, <3>3, <3>4 DEF FirePcs
    <3> QED
      BY <3>1, <3>5, OwnerLetsGo DEF Firing
  <2> QED
    BY <2>4, <2>5, <2>6
<1> QED
  BY <1>1, <1>2, LettingGo DEF StatusLetsGo

\* The UPDATE that takes the parent finds it active, so nobody has it.
LEMMA ClaimParentExcludes ==
  ASSUME Typed, Typed', Exclusion, NEW e \in Evaluators, ClaimParent(e)
  PROVE  Exclusion'
<1> DEFINE g == my[e].gtt
<1>0. ThreadsOK /\ RowsOK /\ e \in Threads /\ e \notin Sweepers /\ ~Firing(e) /\ order' = order
  BY TypedParts, ThreadsAssumption DEF Threads, ClaimParent, Firing, FirePcs, money
<1>1. g \in Gtts /\ my' = my
  BY <1>0, LegsAssumption DEF ClaimParent, ThreadsOK, LocalsOK
<1>2. CASE gttStatus[g] # "active"
  <2>1. Goto(e, "revertClaim") /\ "revertClaim" \in Pcs /\ gttStatus' = gttStatus
    BY <1>2 DEF ClaimParent, Pcs, EvaluatorPcs
  <2>2. Others(e) /\ pc'[e] = "revertClaim"
    BY <1>0, <1>1, <2>1, OneMoves DEF Others
  <2> QED
    BY <1>0, <2>1, <2>2, BystanderLetsGo, LettingGo
    DEF StatusLetsGo, Firing, Sweeping, FirePcs
<1>3. CASE gttStatus[g] = "active"
  <2>1. Goto(e, "owner") /\ "owner" \in Pcs /\ gttStatus' = [gttStatus EXCEPT ![g] = "triggered"]
    BY <1>3 DEF ClaimParent, Pcs, EvaluatorPcs, FirePcs
  <2>2. Others(e) /\ pc'[e] = "owner"
    BY <1>0, <1>1, <2>1, OneMoves DEF Others
  <2>3. /\ \A f \in Evaluators : Firing(f) => my[f].gtt # g
        /\ AnswersKept => \A l \in Legs : Parent[l] = g => ~Placed(l)
    BY <1>3 DEF Exclusion, OwnerHoldsParent, OrderMeansTriggered
  <2>4. /\ \A f \in Evaluators : f # e => (Firing(f)' <=> Firing(f)) /\ pc'[f] = pc[f]
        /\ \A s \in Sweepers : (Sweeping(s)' <=> Sweeping(s)) /\ (Inspected(s)' <=> Inspected(s))
    BY <1>0, <2>2 DEF Others, Firing, Sweeping, Inspected, Threads
  <2>5. OwnerHoldsParent'
    BY <1>0, <1>1, <2>1, <2>4 DEF Exclusion, OwnerHoldsParent, RowsOK
  <2>6. OneOwner'
    BY <1>1, <2>3, <2>4 DEF Exclusion, OneOwner
  <2>7. AnswersKept => OwnerBeforeOrder'
    BY <1>0, <1>1, <2>3, <2>4 DEF Exclusion, OwnerBeforeOrder, Placed
  <2>8. SweepsOwnerless'
    <3> SUFFICES ASSUME NEW s \in Sweepers, Sweeping(s), NEW h \in Gtts,
                        h \in my[s].todo \/ (Inspected(s) /\ h = my[s].gtt)
                 PROVE  gttStatus'[h] = "triggered"
                          /\ \A f \in Evaluators : Firing(f)' => my[f].gtt # h
      BY <1>1, <2>4 DEF SweepsOwnerless
    <3>1. gttStatus[h] = "triggered" /\ \A f \in Evaluators : Firing(f) => my[f].gtt # h
      BY DEF Exclusion, SweepsOwnerless
    <3>2. h # g
      BY <1>3, <3>1
    <3> QED
      BY <1>0, <2>1, <2>4, <3>1, <3>2 DEF RowsOK
  <2>9. SweepsUnplaced'
    BY <1>0, <1>1, <2>4 DEF Exclusion, SweepsUnplaced, Placed
  <2>10. OneSweep'
    BY <2>4 DEF Exclusion, OneSweep
  <2>11. AnswersKept => OrderMeansTriggered'
    BY <1>0, <2>1, LegsAssumption DEF Exclusion, OrderMeansTriggered, Placed, RowsOK
  <2>12. AnswersKept => OneOrderPerGtt'
    BY <1>0 DEF Exclusion, OneOrderPerGtt, Placed
  <2> QED
    BY <2>5, <2>6, <2>7, <2>8, <2>9, <2>10, <2>11, <2>12 DEF Exclusion
<1> QED
  BY <1>2, <1>3

\* The INSERT comes from the one owner, when no leg of its GTT has an order.
LEMMA InsertExcludes ==
  ASSUME Typed, Typed', Exclusion, NEW e \in Evaluators, InsertOrder(e)
  PROVE  Exclusion'
<1> DEFINE g == my[e].gtt
           l == my[e].leg
<1>0. /\ ThreadsOK /\ RowsOK /\ e \in Threads /\ e \notin Sweepers
      /\ Firing(e) /\ pc[e] = "insert" /\ my' = my /\ gttStatus' = gttStatus
  BY TypedParts, ThreadsAssumption DEF Threads, InsertOrder, Firing, FirePcs, gtts
<1>1. l \in Legs /\ g = Parent[l] /\ g \in Gtts
  BY <1>0, LegsAssumption DEF ThreadsOK, LocalsOK
<1>2. PICK next \in {"finalise", "compensate"} :
        /\ Goto(e, next)
        /\ \/ order' = order
           \/ order' = [order EXCEPT ![l] = my[e].ask] /\ (AnswersKept => next = "finalise")
  BY DEF InsertOrder, AnswersKept
<1>3. Others(e) /\ pc'[e] = next
  BY <1>0, <1>2, OneMoves DEF Others, Pcs, EvaluatorPcs, FirePcs
<1>4. CASE order' = order
  BY <1>0, <1>3, <1>4, OwnerLetsGo, LettingGo DEF StatusLetsGo
<1>5. CASE order' = [order EXCEPT ![l] = my[e].ask] /\ (AnswersKept => next = "finalise")
  <2>1. /\ \A f \in Evaluators : Firing(f)' => Firing(f)
        /\ \A f \in Evaluators : f # e => pc'[f] = pc[f]
        /\ \A s \in Sweepers : pc'[s] = pc[s]
    BY <1>0, <1>3 DEF Others, Firing, Threads
  <2>2. \A k \in Legs : k # l => Placed(k)' = Placed(k)
    BY <1>0, <1>5 DEF Placed, RowsOK
  <2>3. AnswersKept => \A k \in Legs : Parent[k] = g => ~Placed(k)
    BY <1>0 DEF Exclusion, OwnerBeforeOrder
  <2>4. gttStatus[g] = "triggered"
    BY <1>0 DEF Exclusion, OwnerHoldsParent
  <2>5. OwnerHoldsParent' /\ OneOwner'
    BY <1>0, <2>1 DEF Exclusion, OwnerHoldsParent, OneOwner
  <2>6. AnswersKept => OwnerBeforeOrder'
    BY <1>0, <1>1, <1>3, <1>5, <2>1, <2>2 DEF Exclusion, OwnerBeforeOrder, OneOwner
  <2>7. SweepsOwnerless'
    BY <1>0, <2>1 DEF Exclusion, SweepsOwnerless, Sweeping, Inspected
  <2>8. SweepsUnplaced'
    <3> SUFFICES ASSUME NEW s \in Sweepers, Inspected(s)
                 PROVE  /\ my[s].gtt \notin my[s].todo
                        /\ \A k \in Legs : Parent[k] = my[s].gtt => ~Placed(k)'
      BY <1>0, <2>1 DEF SweepsUnplaced, Inspected
    <3>1. my[s].gtt # g
      BY <1>0, <1>1 DEF Exclusion, SweepsOwnerless, Sweeping, Inspected, SweepPcs
    <3> QED
      BY <1>1, <2>2, <3>1 DEF Exclusion, SweepsUnplaced
  <2>9. OneSweep'
    BY <2>1 DEF Exclusion, OneSweep, Sweeping
  <2>10. AnswersKept => OrderMeansTriggered'
    BY <1>0, <1>1, <2>2, <2>4 DEF Exclusion, OrderMeansTriggered
  <2>11. AnswersKept => OneOrderPerGtt'
    BY <1>1, <2>2, <2>3 DEF Exclusion, OneOrderPerGtt
  <2> QED
    BY <2>5, <2>6, <2>7, <2>8, <2>9, <2>10, <2>11 DEF Exclusion
<1> QED
  BY <1>2, <1>4, <1>5

\* An owner that gives up has placed nothing, and nobody else had the GTT.
LEMMA GivingUpExcludes ==
  ASSUME Typed, Typed', Exclusion, NEW e \in Evaluators, RejectGtt(e) \/ RevertParent(e)
  PROVE  Exclusion'
<1> DEFINE g == my[e].gtt
<1>0. /\ ThreadsOK /\ RowsOK /\ e \in Threads /\ e \notin Sweepers
      /\ Firing(e) /\ pc[e] # "finalise" /\ my' = my /\ order' = order
  BY TypedParts, ThreadsAssumption DEF Threads, RejectGtt, RevertParent, Firing, FirePcs, money
<1>1. g \in Gtts
  BY <1>0, LegsAssumption DEF ThreadsOK, LocalsOK, Firing, FirePcs
<1>2. Goto(e, "revertClaim") /\ "revertClaim" \in Pcs
  BY DEF RejectGtt, RevertParent, Pcs, EvaluatorPcs
<1>3. Others(e) /\ pc'[e] = "revertClaim"
  BY <1>0, <1>2, OneMoves DEF Others
<1>4. ThreadsLetGo
  BY <1>0, <1>3, BystanderLetsGo DEF Firing, Sweeping, FirePcs
<1>5. StatusLetsGo
  <2> SUFFICES NobodysNext(g) /\ (AnswersKept => Unplaced(g))
    BY <1>0 DEF RejectGtt, RevertParent, StatusLetsGo, RowsOK
  <2>1. AnswersKept => Unplaced(g)
    BY <1>0 DEF Exclusion, OwnerBeforeOrder, Unplaced
  <2>2. \A f \in Evaluators : Firing(f)' => my'[f].gtt # g
    BY <1>0, <1>3, <1>4 DEF Exclusion, OneOwner, ThreadsLetGo, Firing, FirePcs
  <2>3. \A s \in Sweepers : Sweeping(s)' => g \notin my'[s].todo /\ (Inspected(s)' => my'[s].gtt # g)
    BY <1>0, <1>1, <1>4 DEF Exclusion, SweepsOwnerless, ThreadsLetGo
  <2> QED
    BY <2>1, <2>2, <2>3 DEF NobodysNext
<1> QED
  BY <1>0, <1>4, <1>5, LettingGo

LEMMA EvaluatorsExclude ==
  ASSUME Typed, Typed', Exclusion, NEW e \in Evaluators,
         Fire(e) \/ \E l \in Legs : Claim(e, l)
  PROVE  Exclusion'
BY EvaluatorGoesOnAlone, ClaimParentExcludes, InsertExcludes, GivingUpExcludes DEF Fire

-----------------------------------------------------------------------------
\* The query finds nobody at work, so what it lists is nobody's.
LEMMA QueryExcludes ==
  ASSUME SweepsApart, Typed, Typed', Exclusion, NEW s \in Sweepers, QueryStranded(s)
  PROVE  Exclusion'
<1>0. /\ ThreadsOK /\ s \in Threads /\ s \notin Evaluators /\ SweepAlone
      /\ gttStatus' = gttStatus /\ order' = order
  BY TypedParts, ThreadsAssumption DEF Threads, QueryStranded, SweepsApart, gtts, money
<1> DEFINE mine == [Fresh EXCEPT !.todo = {g \in Gtts : gttStatus[g] = "triggered"}]
<1>1. Goto(s, "sweep") /\ Keep(s, mine) /\ "sweep" \in Pcs
  BY DEF QueryStranded, Pcs, SweeperPcs, SweepPcs
<1>2. Others(s) /\ pc'[s] = "sweep" /\ my'[s] = mine
  BY <1>0, <1>1, OneMoves, OneKeeps DEF Others
<1>3. mine.todo = {g \in Gtts : gttStatus[g] = "triggered"}
  BY DEF Fresh
<1>4. /\ \A e \in Evaluators : ~Firing(e)'
      /\ \A t \in Sweepers : Sweeping(t)' => t = s
      /\ \A t \in Sweepers : ~Inspected(t)'
  BY <1>0, <1>2 DEF SweepAlone, Others, Firing, Sweeping, Inspected, SweepPcs, Threads
<1>5. /\ OwnerHoldsParent' /\ OneOwner' /\ SweepsUnplaced' /\ OneSweep'
      /\ OwnerBeforeOrder'
  BY <1>4 DEF OwnerHoldsParent, OneOwner, OwnerBeforeOrder, SweepsUnplaced, OneSweep
<1>6. SweepsOwnerless'
  BY <1>0, <1>2, <1>3, <1>4 DEF SweepsOwnerless
<1>7. AnswersKept => OrderMeansTriggered' /\ OneOrderPerGtt'
  BY <1>0 DEF Exclusion, OrderMeansTriggered, OneOrderPerGtt, Placed
<1> QED
  BY <1>5, <1>6, <1>7 DEF Exclusion

\* The GTT inspected comes from the list, has no order, and leaves the list.
LEMMA InspectExcludes ==
  ASSUME Typed, Typed', Exclusion, NEW s \in Sweepers, NEW g \in Gtts, SweepInspects(s, g)
  PROVE  Exclusion'
<1>0. /\ ThreadsOK /\ s \in Threads /\ s \notin Evaluators /\ Sweeping(s) /\ g \in my[s].todo
      /\ gttStatus' = gttStatus /\ order' = order /\ my[s] \in Locals
  BY TypedParts, ThreadsAssumption
  DEF Threads, SweepInspects, gtts, money, Sweeping, SweepPcs, ThreadsOK
<1>1. PICK next \in {"rearm", "block"} : Goto(s, next)
  BY DEF SweepInspects
<1> DEFINE mine == [my[s] EXCEPT !.todo = @ \ {g}, !.gtt = g, !.held = gttMargin[g],
                           !.ask = IF gttMargin[g] > 0 THEN 0 ELSE Larger(g, legMargin)]
<1>a. mine.todo = my[s].todo \ {g} /\ mine.gtt = g
  BY <1>0 DEF Locals
<1>2. PICK locals : Keep(s, locals) /\ locals.todo = my[s].todo \ {g} /\ locals.gtt = g
  BY <1>a DEF SweepInspects
<1>3. Others(s) /\ pc'[s] = next /\ my'[s] = locals
  BY <1>0, <1>1, <1>2, OneMoves, OneKeeps DEF Others, Pcs, SweeperPcs, SweepPcs
<1>4. /\ \A e \in Evaluators : pc'[e] = pc[e] /\ my'[e] = my[e]
      /\ \A t \in Sweepers : t # s => pc'[t] = pc[t] /\ my'[t] = my[t]
      /\ \A t \in Sweepers : Sweeping(t)' => Sweeping(t)
  BY <1>0, <1>3 DEF Others, Threads, Sweeping
<1>5. OwnerHoldsParent' /\ OneOwner' /\ (AnswersKept => OwnerBeforeOrder')
  BY <1>0, <1>4 DEF Exclusion, OwnerHoldsParent, OneOwner, OwnerBeforeOrder, Firing, Placed
<1>6. SweepsOwnerless'
  BY <1>0, <1>2, <1>3, <1>4 DEF Exclusion, SweepsOwnerless, Sweeping, Inspected, Firing
<1>7. SweepsUnplaced'
  <2>1. \A l \in Legs : Parent[l] = g => ~Placed(l)
    BY DEF SweepInspects, LegsOf
  <2> QED
    BY <1>0, <1>2, <1>3, <1>4, <2>1 DEF Exclusion, SweepsUnplaced, Inspected, Placed
<1>8. OneSweep'
  BY <1>4 DEF Exclusion, OneSweep
<1>9. AnswersKept => OrderMeansTriggered' /\ OneOrderPerGtt'
  BY <1>0 DEF Exclusion, OrderMeansTriggered, OneOrderPerGtt, Placed
<1> QED
  BY <1>5, <1>6, <1>7, <1>8, <1>9 DEF Exclusion

\* A sweep lets go of a GTT that has no order and that only it had.
LEMMA PuttingRightExcludes ==
  ASSUME Typed, Typed', Exclusion, NEW s \in Sweepers, Rearm(s) \/ SweepRejects(s)
  PROVE  Exclusion'
<1> DEFINE g == my[s].gtt
<1>0. /\ ThreadsOK /\ RowsOK /\ s \in Threads /\ s \notin Evaluators
      /\ Sweeping(s) /\ Inspected(s) /\ order' = order
  BY TypedParts, ThreadsAssumption
  DEF Threads, Rearm, SweepRejects, Sweeping, Inspected, SweepPcs, money
<1>1. g \in Gtts
  BY <1>0 DEF ThreadsOK, LocalsOK, Inspected
<1> DEFINE mine == [Fresh EXCEPT !.todo = my[s].todo]
<1>2. Goto(s, "sweep") /\ "sweep" \in Pcs /\ Keep(s, mine) /\ mine.todo = my[s].todo
  BY DEF Rearm, SweepRejects, NextStranded, Fresh, Pcs, SweeperPcs, SweepPcs
<1>3. Others(s) /\ pc'[s] = "sweep" /\ my'[s].todo = my[s].todo
  BY <1>0, <1>2, OneMoves, OneKeeps DEF Others
<1>4. ThreadsLetGo
  BY <1>0, <1>3, SweepLetsGo DEF Inspected
<1>5. StatusLetsGo
  <2> SUFFICES NobodysNext(g) /\ Unplaced(g)
    BY <1>0 DEF Rearm, SweepRejects, StatusLetsGo, RowsOK
  <2>1. Unplaced(g)
    BY <1>0 DEF Exclusion, SweepsUnplaced, Unplaced
  <2>2. \A e \in Evaluators : Firing(e)' => my'[e].gtt # g
    BY <1>0, <1>1, <1>4 DEF Exclusion, SweepsOwnerless, ThreadsLetGo
  <2>3. \A t \in Sweepers : Sweeping(t)' => t = s
    BY <1>0, <1>4 DEF Exclusion, OneSweep, ThreadsLetGo
  <2>4. g \notin my'[s].todo /\ ~Inspected(s)'
    BY <1>0, <1>3 DEF Exclusion, SweepsUnplaced, Inspected
  <2> QED
    BY <2>1, <2>2, <2>3, <2>4 DEF NobodysNext
<1> QED
  BY <1>0, <1>4, <1>5, LettingGo

\* The sweeper's other steps let go.
LEMMA SweepersExclude ==
  ASSUME SweepsApart, Typed, Typed', Exclusion, NEW s \in Sweepers,
         Reclaim(s) \/ ExpireCommit(s) \/ \E g \in Gtts : ExpireRead(s, g)
  PROVE  Exclusion'
<1>0. ThreadsOK /\ s \in Threads /\ s \notin Evaluators /\ my[s] \in Locals
  BY TypedParts, ThreadsAssumption DEF Threads, ThreadsOK
<1>1. {"idle", "stranded", "expire", "rearm", "sweepReject"} \subseteq Pcs
  BY DEF Pcs, EvaluatorPcs, SweeperPcs, SweepPcs
<1>2. ASSUME ThreadsLetGo, gttStatus' = gttStatus, order' = order
      PROVE  Exclusion'
  BY <1>2, LettingGo DEF StatusLetsGo
<1>3. CASE ReclaimLegs(s) \/ SweepDone(s) \/ \E g \in Gtts : ExpireRead(s, g)
  <2>1. Others(s) /\ pc'[s] \in {"idle", "stranded", "expire"}
    <3>1. CASE ReclaimLegs(s)
      BY <1>0, <1>1, <3>1, OneMoves DEF ReclaimLegs, Others
    <3>2. CASE SweepDone(s)
      BY <1>0, <1>1, <3>2, OneMoves, OneKeeps DEF SweepDone, Return, Others
    <3>3. CASE \E g \in Gtts : ExpireRead(s, g)
      BY <1>0, <1>1, <3>3, OneMoves, OneKeeps DEF ExpireRead, ReadActive, Others
    <3> QED
      BY <1>3, <3>1, <3>2, <3>3
  <2>2. gttStatus' = gttStatus /\ order' = order
    BY <1>3 DEF ReclaimLegs, SweepDone, ExpireRead, ReadActive, gtts, money
  <2> QED
    BY <1>0, <1>2, <2>1, <2>2, BystanderLetsGo DEF Firing, Sweeping, SweepPcs
<1>4. ASSUME NEW g \in Gtts, SweepSkips(s, g) \/ SweepFinalises(s, g)
      PROVE  Exclusion'
  <2> DEFINE mine == [my[s] EXCEPT !.todo = @ \ {g}]
  <2>1. mine.todo \subseteq my[s].todo
    BY <1>0 DEF Locals
  <2>2. Keep(s, mine) /\ pc' = pc /\ pc[s] = "sweep"
    BY <1>4 DEF SweepSkips, SweepFinalises
  <2>3. Others(s) /\ my'[s] = mine
    BY <1>0, <2>2, OneKeeps DEF Others
  <2>4. ThreadsLetGo
    BY <2>1, <2>2, <2>3, SweepLetsGo DEF Sweeping, Inspected, SweepPcs
  <2> QED
    BY <1>2, <1>4, <2>4 DEF SweepSkips, SweepFinalises, gtts, money
<1>5. CASE BlockMargin(s)
  <2>1. PICK next \in {"rearm", "sweepReject"} : Goto(s, next)
    BY <1>5 DEF BlockMargin, Granted, Refused
  <2>2. Others(s) /\ pc[s] = "block" /\ my' = my
    BY <1>0, <1>1, <1>5, <2>1, OneMoves DEF BlockMargin, Others
  <2>3. ThreadsLetGo
    BY <2>2, SweepLetsGo DEF Sweeping, Inspected, SweepPcs
  <2> QED
    BY <1>2, <1>5, <2>3 DEF BlockMargin, gtts
<1>6. CASE ExpireCommit(s)
  BY <1>6, WithdrawExcludes DEF ExpireCommit, SweepPcs
<1> QED
  BY <1>3, <1>4, <1>5, <1>6, QueryExcludes, InspectExcludes, PuttingRightExcludes DEF Reclaim

\* A statement that raises makes its thread go on with less, or end.
LEMMA DatabaseFailsExcludes ==
  ASSUME Typed, Typed', Exclusion, NEW t \in Threads, DatabaseFails(t)
  PROVE  Exclusion'
<1>0. ThreadsOK /\ gttStatus' = gttStatus /\ order' = order
  BY TypedParts DEF DatabaseFails, gtts
<1>1. {"idle", "compensate", "sweepReject", "unfunded", "revertParent", "reject",
       "revertClaim"} \subseteq Pcs
  BY DEF Pcs, EvaluatorPcs, SweeperPcs, FirePcs, SweepPcs
<1>2. CASE Return(t)
  <2>1. Others(t) /\ pc'[t] = "idle"
    BY <1>0, <1>1, <1>2, OneMoves, OneKeeps DEF Return, Others
  <2>2. ThreadsLetGo
    BY <2>1, BystanderLetsGo DEF Firing, Sweeping, FirePcs, SweepPcs
  <2> QED
    BY <1>0, <2>2, LettingGo DEF StatusLetsGo
<1>3. CASE Goto(t, Rescue(t)) /\ UNCHANGED my
  <2>1. Rescue(t) \in {"idle", "compensate", "sweepReject", "unfunded", "revertParent",
                       "reject", "revertClaim"}
    BY DEF Rescue, Refused
  <2>2. Others(t) /\ pc'[t] = Rescue(t) /\ my'[t] = my[t]
    BY <1>0, <1>1, <1>3, <2>1, OneMoves DEF Others
  <2>3. CASE Firing(t)'
    <3>1. t \in Evaluators /\ t \notin Sweepers
      BY <2>3, ThreadsAssumption DEF Firing
    <3>2. pc[t] \in {"owner", "block", "restored", "unfunded"} /\ pc'[t] # "finalise"
      BY <2>1, <2>2, <2>3, <3>1 DEF Firing, FirePcs, Rescue
    <3>3. ThreadsLetGo
      BY <2>2, <3>1, <3>2, OwnerLetsGo DEF Firing, FirePcs
    <3> QED
      BY <1>0, <3>3, LettingGo DEF StatusLetsGo
  <2>4. CASE Sweeping(t)'
    <3>1. t \in Sweepers /\ pc[t] = "block"
      BY <2>1, <2>2, <2>4 DEF Sweeping, SweepPcs, Rescue, Refused
    <3>2. ThreadsLetGo
      BY <2>2, <3>1, SweepLetsGo DEF Sweeping, SweepPcs, Inspected
    <3> QED
      BY <1>0, <3>2, LettingGo DEF StatusLetsGo
  <2>5. CASE ~Firing(t)' /\ ~Sweeping(t)'
    BY <1>0, <2>2, <2>5, BystanderLetsGo, LettingGo DEF StatusLetsGo
  <2> QED
    BY <2>3, <2>4, <2>5
<1> QED
  BY <1>2, <1>3 DEF DatabaseFails

\* Time and a crash let go, too.
LEMMA WorldExcludes ==
  ASSUME Typed, Typed', Exclusion,
         \/ \E l \in Legs : ClaimAges(l)
         \/ \E g \in Gtts : FallsDue(g)
         \/ Crash
         \/ UNCHANGED vars
  PROVE  Exclusion'
<1>1. gttStatus' = gttStatus /\ order' = order
  BY DEF ClaimAges, FallsDue, Crash, vars, gtts, money
<1>2. ThreadsLetGo
  <2>1. CASE Crash
    BY <2>1 DEF Crash, ThreadsLetGo, Firing, Sweeping, FirePcs, SweepPcs, Threads
  <2>2. CASE UNCHANGED <<pc, my>>
    BY <2>2 DEF ThreadsLetGo, Firing, Sweeping, Inspected
  <2> QED
    BY <2>1, <2>2 DEF ClaimAges, FallsDue, vars
<1> QED
  BY <1>1, <1>2, LettingGo DEF StatusLetsGo

LEMMA InitExcludes == Init => Exclusion
BY DEF Init, Exclusion, OwnerHoldsParent, OneOwner, OwnerBeforeOrder, SweepsOwnerless,
       SweepsUnplaced, OneSweep, OrderMeansTriggered, OneOrderPerGtt, Firing, Sweeping,
       Inspected, Placed, NoOrder, FirePcs, SweepPcs, Threads

LEMMA NextExcludes ==
  ASSUME SweepsApart
  PROVE  Typed /\ Exclusion /\ [Next]_vars => Exclusion'
<1> SUFFICES ASSUME Typed, Exclusion, [Next]_vars
             PROVE  Exclusion'
  OBVIOUS
<1>1. Typed'
  BY NextTyped
<1> QED
  BY <1>1, RequestsExclude, EvaluatorsExclude, SweepersExclude, DatabaseFailsExcludes,
     WorldExcludes DEF Next, Step, Fault

\* The claim of the parent excludes every other user of a GTT: an evaluator
\* that fires owns it.
THEOREM ExclusionHolds == SweepsApart => (Spec => [](Typed /\ Exclusion))
<1> SUFFICES ASSUME SweepsApart
             PROVE  Spec => [](Typed /\ Exclusion)
  OBVIOUS
<1>1. Init => Typed /\ Exclusion
  BY InitTyped, InitExcludes
<1>2. Typed /\ Exclusion /\ [Next]_vars => (Typed /\ Exclusion)'
  BY NextTyped, NextExcludes
<1> QED
  BY <1>1, <1>2, PTL DEF Spec

\* "Firing must happen exactly once": no two legs of a GTT have an order.
THEOREM FiresOnce == Undisturbed => (Spec => []OneOrderPerGtt)
<1> SUFFICES ASSUME Undisturbed
             PROVE  Spec => []OneOrderPerGtt
  OBVIOUS
<1>1. Spec => [](Typed /\ Exclusion)
  BY ExclusionHolds DEF Undisturbed
<1>2. Typed /\ Exclusion => OneOrderPerGtt
  BY DEF Exclusion, Undisturbed
<1> QED
  BY <1>1, <1>2, PTL

\* A GTT that was cancelled, expired, was rejected or still rests has no order.
THEOREM NoOrderAfterEnd == Undisturbed => (Spec => []OrderMeansTriggered)
<1> SUFFICES ASSUME Undisturbed
             PROVE  Spec => []OrderMeansTriggered
  OBVIOUS
<1>1. Spec => [](Typed /\ Exclusion)
  BY ExclusionHolds DEF Undisturbed
<1>2. Typed /\ Exclusion => OrderMeansTriggered
  BY DEF Exclusion, Undisturbed
<1> QED
  BY <1>1, <1>2, PTL

-----------------------------------------------------------------------------
(***************************************************************************)
(* SandboxGTT implements GttContract.                                      *)
(***************************************************************************)
CState == [g \in Gtts |-> SeenAs(g)]
CFired == [g \in Gtts |-> FiredLeg(g)]

Rests(status) == status \in {"active", "triggered"}

\* A step that places no order and keeps each GTT resting or at its end is a
\* stutter of the contract.
LEMMA Stutters ==
  ASSUME order' = order,
         \A g \in Gtts : \/ gttStatus'[g] = gttStatus[g]
                         \/ Rests(gttStatus[g]) /\ Rests(gttStatus'[g])
  PROVE  CState' = CState /\ CFired' = CFired
<1>1. \A l \in Legs : Placed(l)' = Placed(l)
  BY DEF Placed
<1>2. \A g \in Gtts : SeenAs(g)' = SeenAs(g)
  BY <1>1 DEF SeenAs, Rests, LegsOf
<1>3. \A g \in Gtts : FiredLeg(g)' = FiredLeg(g)
  BY DEF FiredLeg, Placed
<1> QED
  BY <1>2, <1>3 DEF CState, CFired

\* Only the status of g changes, and g has no order: g alone is seen to move.
LEMMA OneIsSeen ==
  ASSUME order' = order, NEW g \in Gtts, Unplaced(g),
         \A h \in Gtts : h # g => gttStatus'[h] = gttStatus[h]
  PROVE  /\ CFired' = CFired
         /\ CState' = [CState EXCEPT ![g] = IF Rests(gttStatus'[g]) THEN "resting"
                                            ELSE gttStatus'[g]]
<1>1. \A l \in Legs : Placed(l)' = Placed(l)
  BY DEF Placed
<1>2. \A h \in Gtts : FiredLeg(h)' = FiredLeg(h)
  BY DEF FiredLeg, Placed
<1>3. \A h \in Gtts : h # g => SeenAs(h)' = SeenAs(h)
  BY <1>1 DEF SeenAs, LegsOf
<1>4. SeenAs(g)' = IF Rests(gttStatus'[g]) THEN "resting" ELSE gttStatus'[g]
  BY <1>1 DEF SeenAs, LegsOf, Unplaced, Rests
<1>5. CFired' = CFired
  BY <1>2 DEF CFired
<1>6. CState' = [CState EXCEPT ![g] = IF Rests(gttStatus'[g]) THEN "resting"
                                      ELSE gttStatus'[g]]
  BY <1>3, <1>4 DEF CState
<1> QED
  BY <1>5, <1>6

\* A GTT without orders that rests is seen at rest.
LEMMA SeenAtRest ==
  ASSUME NEW g \in Gtts, Unplaced(g)
  PROVE  CState[g] = IF Rests(gttStatus[g]) THEN "resting" ELSE gttStatus[g]
BY DEF CState, SeenAs, Unplaced, LegsOf, Rests

\* The first state is the contract's.
LEMMA InitImplements == Init => Contract!Init
BY DEF Init, Contract!Init, SeenAs, FiredLeg, Placed, NoOrder, LegsOf

\* Ending a GTT that rests without an order is the contract's End.
LEMMA EndImplements ==
  ASSUME order' = order, NEW g \in Gtts, Unplaced(g), Rests(gttStatus[g]),
         NEW how \in {"cancelled", "expired", "rejected"},
         RowsOK, gttStatus' = [gttStatus EXCEPT ![g] = how]
  PROVE  Contract!Next
<1>1. gttStatus'[g] = how /\ \A h \in Gtts : h # g => gttStatus'[h] = gttStatus[h]
  BY DEF RowsOK
<1>2. CFired' = CFired /\ CState' = [CState EXCEPT ![g] = how] /\ CState[g] = "resting"
  BY <1>1, OneIsSeen, SeenAtRest DEF Rests
<1>3. Contract!End(g, how)
  BY <1>2 DEF Contract!End, CState, CFired
<1> QED
  BY <1>3 DEF Contract!Next, Contract!Ends

\* Placing a GTT is the contract's Place.
LEMMA PlaceImplements ==
  ASSUME AnswersKept, Typed, Exclusion, NEW r \in Requests, NEW g \in Gtts, PlaceGtt(r, g)
  PROVE  Contract!Next
<1>1. /\ RowsOK /\ order' = order /\ gttStatus[g] = "none"
      /\ gttStatus' = [gttStatus EXCEPT ![g] = "active"]
  BY TypedParts DEF PlaceGtt
<1>2. Unplaced(g)
  BY <1>1 DEF Exclusion, OrderMeansTriggered, Unplaced
<1>3. gttStatus'[g] = "active" /\ \A h \in Gtts : h # g => gttStatus'[h] = gttStatus[h]
  BY <1>1 DEF RowsOK
<1>4. CFired' = CFired /\ CState' = [CState EXCEPT ![g] = "resting"] /\ CState[g] = "none"
  BY <1>1, <1>2, <1>3, OneIsSeen, SeenAtRest DEF Rests
<1>5. Contract!Place(g)
  BY <1>4 DEF Contract!Place, CState, CFired
<1> QED
  BY <1>5 DEF Contract!Next

\* A cancel or an expiry that wins is the contract's End.
LEMMA WithdrawImplements ==
  ASSUME AnswersKept, Typed, Exclusion, NEW t,
         (t \in Requests /\ pc[t] = "cancel") \/ (t \in Sweepers /\ pc[t] = "expire"),
         NEW outcome \in {"cancelled", "expired"}, NEW open, Withdraw(t, outcome, open)
  PROVE  Contract!Next \/ UNCHANGED <<CState, CFired>>
<1> DEFINE g == my[t].gtt
<1>1. RowsOK /\ ThreadsOK /\ order' = order
  BY TypedParts DEF Withdraw
<1>2. g \in Gtts
  BY <1>1 DEF ThreadsOK, LocalsOK
<1>3. CASE gttStatus' = gttStatus
  BY <1>1, <1>3, Stutters
<1>4. CASE gttStatus[g] = "active" /\ gttStatus' = [gttStatus EXCEPT ![g] = outcome]
  <2>1. Unplaced(g)
    BY <1>4 DEF Exclusion, OrderMeansTriggered, Unplaced
  <2> QED
    BY <1>1, <1>2, <1>4, <2>1, EndImplements DEF Rests
<1> QED
  BY <1>3, <1>4 DEF Withdraw

\* The INSERT of an order is the contract's FireLeg.
LEMMA InsertImplements ==
  ASSUME AnswersKept, Typed, Exclusion, NEW e \in Evaluators, InsertOrder(e)
  PROVE  Contract!Next \/ UNCHANGED <<CState, CFired>>
<1>1. RowsOK /\ ThreadsOK /\ Firing(e) /\ pc[e] = "insert" /\ gttStatus' = gttStatus
  BY TypedParts DEF InsertOrder, Firing, FirePcs, gtts
<1>2. PICK l \in Legs, g \in Gtts : l = my[e].leg /\ g = my[e].gtt /\ g = Parent[l]
  BY <1>1, LegsAssumption DEF ThreadsOK, LocalsOK
<1>3. CASE order' = order
  BY <1>1, <1>3, Stutters
<1>4. CASE order' = [order EXCEPT ![l] = my[e].ask]
  <2>1. Unplaced(g) /\ gttStatus[g] = "triggered"
    BY <1>1, <1>2 DEF Exclusion, OwnerBeforeOrder, OwnerHoldsParent, Unplaced
  <2>2. my[e].ask \in Nat
    BY <1>1 DEF ThreadsOK, Locals, Threads
  <2>3. Placed(l)' /\ \A k \in Legs : k # l => Placed(k)' = Placed(k)
    BY <1>1, <1>2, <1>4, <2>2 DEF Placed, NoOrder, RowsOK
  <2>4. CState[g] = "resting"
    BY <1>2, <2>1, SeenAtRest DEF Rests
  <2>5. SeenAs(g)' = "fired" /\ FiredLeg(g)' = l
    <3>1. \A k \in LegsOf(g) : Placed(k)' <=> k = l
      BY <1>2, <2>1, <2>3 DEF Unplaced, LegsOf
    <3>2. l \in LegsOf(g)
      BY <1>2 DEF LegsOf
    <3> QED
      BY <3>1, <3>2 DEF SeenAs, FiredLeg
  <2>6. \A h \in Gtts : h # g => SeenAs(h)' = SeenAs(h) /\ FiredLeg(h)' = FiredLeg(h)
    <3> SUFFICES ASSUME NEW h \in Gtts, h # g
                 PROVE  SeenAs(h)' = SeenAs(h) /\ FiredLeg(h)' = FiredLeg(h)
      OBVIOUS
    <3>1. \A k \in LegsOf(h) : order'[k] = order[k]
      BY <1>1, <1>2, <1>4 DEF LegsOf, RowsOK
    <3>2. \A k : k \in LegsOf(h) /\ Placed(k)' <=> k \in LegsOf(h) /\ Placed(k)
      BY <3>1 DEF Placed
    <3> QED
      BY <1>1, <3>2 DEF SeenAs, FiredLeg
  <2>7. CState' = [CState EXCEPT ![g] = "fired"] /\ CFired' = [CFired EXCEPT ![g] = l]
    BY <1>2, <2>5, <2>6 DEF CState, CFired
  <2>8. Contract!FireLeg(l)
    BY <1>2, <2>4, <2>7 DEF Contract!FireLeg, CState, CFired
  <2> QED
    BY <1>2, <2>8 DEF Contract!Next
<1> QED
  BY <1>2, <1>3, <1>4 DEF InsertOrder

\* What the owner and the sweep do to the parent: at rest, or rejected.
LEMMA ParentImplements ==
  ASSUME AnswersKept, Typed, Exclusion, NEW t,
         \/ t \in Evaluators /\ (ClaimParent(t) \/ RejectGtt(t) \/ RevertParent(t))
         \/ t \in Sweepers /\ (Rearm(t) \/ SweepRejects(t))
  PROVE  Contract!Next \/ UNCHANGED <<CState, CFired>>
<1> DEFINE g == my[t].gtt
<1>1. RowsOK /\ ThreadsOK /\ order' = order
  BY TypedParts DEF ClaimParent, RejectGtt, RevertParent, Rearm, SweepRejects, money
<1>2. g \in Gtts
  <2>1. CASE t \in Evaluators
    <3>1. pc[t] # "idle" \/ t \in Sweepers
      BY <2>1 DEF ClaimParent, RejectGtt, RevertParent
    <3> QED
      BY <1>1, <2>1, <3>1, LegsAssumption, ThreadsAssumption DEF ThreadsOK, LocalsOK
  <2>2. CASE t \in Sweepers
    BY <1>1, <2>2, ThreadsAssumption DEF ThreadsOK, LocalsOK, Rearm, SweepRejects
  <2> QED
    BY <2>1, <2>2
<1>3. CASE RejectGtt(t) \/ SweepRejects(t)
  <2>1. gttStatus' = [gttStatus EXCEPT ![g] = "rejected"]
    BY <1>3 DEF RejectGtt, SweepRejects
  <2>2. Unplaced(g) /\ gttStatus[g] = "triggered"
    <3>1. CASE t \in Evaluators /\ RejectGtt(t)
      BY <3>1 DEF RejectGtt, Exclusion, OwnerBeforeOrder, OwnerHoldsParent, Firing, FirePcs,
                  Unplaced
    <3>2. CASE t \in Sweepers /\ SweepRejects(t)
      BY <1>2, <3>2 DEF SweepRejects, Exclusion, SweepsUnplaced, SweepsOwnerless, Sweeping,
                  Inspected, SweepPcs, Unplaced
    <3> QED
      BY <1>3, <3>1, <3>2, ThreadsAssumption DEF RejectGtt, SweepRejects, ClaimParent,
         RevertParent, Rearm
  <2> QED
    BY <1>1, <1>2, <2>1, <2>2, EndImplements DEF Rests
<1>4. CASE ClaimParent(t) \/ RevertParent(t) \/ Rearm(t)
  <2>1. \A h \in Gtts : \/ gttStatus'[h] = gttStatus[h]
                        \/ Rests(gttStatus[h]) /\ Rests(gttStatus'[h])
    BY <1>1, <1>2, <1>4 DEF ClaimParent, RevertParent, Rearm, Rests, RowsOK
  <2> QED
    BY <1>1, <2>1, Stutters
<1> QED
  BY <1>3, <1>4

\* Every other step leaves status and orders alone.
LEMMA StepImplements ==
  ASSUME AnswersKept, Typed, Exclusion, Exclusion', [Next]_vars
  PROVE  Contract!Next \/ UNCHANGED <<CState, CFired>>
<1>1. ASSUME gttStatus' = gttStatus, order' = order
      PROVE  UNCHANGED <<CState, CFired>>
  BY <1>1, Stutters
<1>2. ASSUME NEW r \in Requests, Call(r) \/ Serve(r)
      PROVE  Contract!Next \/ UNCHANGED <<CState, CFired>>
  <2>1. CASE \E g \in Gtts : PlaceGtt(r, g)
    BY <2>1, PlaceImplements
  <2>2. CASE CancelCommit(r)
    BY <2>2, WithdrawImplements DEF CancelCommit
  <2>3. CASE ModifyCommit(r) \/ \E g \in Gtts : ModifyRead(r, g) \/ CancelRead(r, g)
    BY <1>1, <2>3 DEF ModifyCommit, ModifyRead, CancelRead, ReadActive, gtts, money
  <2> QED
    BY <1>2, <2>1, <2>2, <2>3 DEF Call, Serve
<1>3. ASSUME NEW e \in Evaluators, Fire(e) \/ \E l \in Legs : Claim(e, l)
      PROVE  Contract!Next \/ UNCHANGED <<CState, CFired>>
  <2>1. CASE InsertOrder(e)
    BY <2>1, InsertImplements
  <2>2. CASE ClaimParent(e) \/ RejectGtt(e) \/ RevertParent(e)
    BY <2>2, ParentImplements
  <2>3. CASE gttStatus' = gttStatus /\ order' = order
    BY <1>1, <2>3
  <2> QED
    BY <1>3, <2>1, <2>2, <2>3
    DEF Fire, Claim, CheckLeg, ReadReservation, ReleaseReservation, ReleaseFails,
        OrderRefused, OrderPriced, BlockMargin, Finalise, FinaliseFails, Compensate,
        PersistRestored, PersistUnfunded, RevertClaim, gtts, money
<1>4. ASSUME NEW s \in Sweepers,
             Reclaim(s) \/ ExpireCommit(s) \/ \E g \in Gtts : ExpireRead(s, g)
      PROVE  Contract!Next \/ UNCHANGED <<CState, CFired>>
  <2>1. CASE Rearm(s) \/ SweepRejects(s)
    BY <2>1, ParentImplements
  <2>2. CASE ExpireCommit(s)
    BY <2>2, WithdrawImplements DEF ExpireCommit
  <2>3. CASE gttStatus' = gttStatus /\ order' = order
    BY <1>1, <2>3
  <2> QED
    BY <1>4, <2>1, <2>2, <2>3
    DEF Reclaim, ReclaimLegs, QueryStranded, SweepDone, SweepSkips, SweepFinalises,
        SweepInspects, BlockMargin, ExpireRead, ReadActive, gtts, money
<1>5. CASE \/ \E l \in Legs : ClaimAges(l)
           \/ \E g \in Gtts : FallsDue(g)
           \/ Fault
           \/ UNCHANGED vars
  BY <1>1, <1>5 DEF ClaimAges, FallsDue, Fault, Crash, DatabaseFails, vars, gtts, money
<1> QED
  BY <1>2, <1>3, <1>4, <1>5 DEF Next, Step

\* The promise to the user: a GTT rests until one leg fires, once, or until it
\* ends, for good, through every interleaving, crash and failed statement.
THEOREM Implements == Undisturbed => (Spec => KeepsContract)
<1> SUFFICES ASSUME Undisturbed
             PROVE  Spec => KeepsContract
  OBVIOUS
<1>1. Spec => [](Typed /\ Exclusion)
  BY ExclusionHolds DEF Undisturbed
<1>2. (Typed /\ Exclusion) /\ (Typed /\ Exclusion)' /\ [Next]_vars
        => [Contract!Next]_<<CState, CFired>>
  BY StepImplements DEF Undisturbed
<1> QED
  BY <1>1, <1>2, InitImplements, PTL DEF Spec, KeepsContract, Contract!Spec, CState, CFired
=============================================================================
