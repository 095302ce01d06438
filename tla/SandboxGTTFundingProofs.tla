----------------------- MODULE SandboxGTTFundingProofs -----------------------
(***************************************************************************)
(* Funding is inductive when no statement of an undoing fails and the      *)
(* sweep runs alone; the captures and the ledger with it, when modify,     *)
(* cancel and expire do not overlap.  From them: a GTT that rests can fund *)
(* either leg, and the balance is the sum of what the rows hold, for any   *)
(* number of GTTs, legs and threads, through crashes and lost answers.     *)
(***************************************************************************)
EXTENDS SandboxGTTFunding, SandboxGTTProofs, SumLemmas

-----------------------------------------------------------------------------
(***************************************************************************)
(* What a reservation covers.                                              *)
(***************************************************************************)

\* The larger leg's margin is the margin of a leg.
LEMMA LargerIsOfALeg ==
  ASSUME NEW g \in Gtts, NEW m, \A l \in LegsOf(g) : m[l] \in Nat
  PROVE  \E l \in LegsOf(g) : Larger(g, m) = m[l]
<1>1. PICK a, b \in Legs : LegsOf(g) = {a, b}
  BY LegsAssumption
<1>2. \E x \in {m[l] : l \in LegsOf(g)} : \A l \in LegsOf(g) : x >= m[l]
  <2>1. m[a] \in Nat /\ m[b] \in Nat
    BY <1>1
  <2>2. m[a] >= m[b] \/ m[b] >= m[a]
    BY <2>1
  <2> QED
    BY <1>1, <2>1, <2>2
<1> QED
  BY <1>2 DEF Larger

\* It depends on the GTT's legs alone.
LEMMA LargerOfSame ==
  ASSUME NEW g \in Gtts, NEW m, NEW n,
         \A l \in LegsOf(g) : m[l] \in Nat /\ n[l] = m[l]
  PROVE  Larger(g, n) = Larger(g, m)
<1>1. \A l \in LegsOf(g) : n[l] \in Nat /\ m[l] \in Nat
  OBVIOUS
<1>2. PICK a \in LegsOf(g) : Larger(g, m) = m[a]
  BY <1>1, LargerIsOfALeg
<1>3. PICK b \in LegsOf(g) : Larger(g, n) = n[b]
  BY <1>1, LargerIsOfALeg
<1>4. Larger(g, m) >= m[b] /\ Larger(g, n) >= n[a]
  BY <1>1, LargerIsMaximum
<1> QED
  BY <1>1, <1>2, <1>3, <1>4

\* In either mode of an OCO the reservation covers the larger leg.
LEMMA ReservationCovers ==
  ASSUME NEW g \in Gtts, NEW m, \A l \in LegsOf(g) : m[l] \in Nat
  PROVE  Reservation(g, m) \in Nat /\ Reservation(g, m) >= Larger(g, m)
<1>1. Larger(g, m) \in Nat /\ Both(g, m) \in Nat
  BY LargerIsMaximum, BothIsNat
<1> DEFINE pair == CHOOSE p \in Legs \X Legs : LegsOf(g) = {p[1], p[2]}
<1>2. LegsOf(g) = {pair[1], pair[2]}
  <2>1. PICK a, b \in Legs : LegsOf(g) = {a, b}
    BY LegsAssumption
  <2>2. <<a, b>> \in Legs \X Legs /\ LegsOf(g) = {<<a, b>>[1], <<a, b>>[2]}
    BY <2>1
  <2> QED
    BY <2>2
<1>3. Both(g, m) = IF pair[1] = pair[2] THEN m[pair[1]] ELSE m[pair[1]] + m[pair[2]]
  BY DEF Both
<1>4. PICK l \in {pair[1], pair[2]} : Larger(g, m) = m[l]
  BY <1>2, LargerIsOfALeg
<1>5. m[pair[1]] \in Nat /\ m[pair[2]] \in Nat
  BY <1>2
<1> HIDE DEF pair
<1>6. Both(g, m) >= Larger(g, m)
  BY <1>3, <1>4, <1>5
<1> QED
  BY <1>1, <1>6 DEF Reservation

-----------------------------------------------------------------------------
(***************************************************************************)
(* Funding is inductive.                                                   *)
(***************************************************************************)

\* What the GTT holds and its legs need is as before.
RowStands(g) ==
  gttMargin'[g] = gttMargin[g] /\ \A l \in LegsOf(g) : legMargin'[l] = legMargin[l]

ThreadStands(t) == pc'[t] = pc[t] /\ my'[t] = my[t]

\* A step keeps the funding when each thread and each GTT is as before, or is
\* funded anew.
LEMMA FundingKept ==
  ASSUME Typed, Funding,
         \A g \in Gtts : (RowStands(g) /\ gttStatus'[g] = gttStatus[g]) \/ FundedGtt(g)',
         \A e \in Evaluators :
           \/ ThreadStands(e) /\ (Firing(e) => RowStands(my[e].gtt))
           \/ FundedOwner(e)' /\ AsksInTurn(e)',
         \A s \in Sweepers :
           \/ ThreadStands(s) /\ (Inspected(s) => RowStands(my[s].gtt))
           \/ FundedSweep(s)'
  PROVE  Funding'
<1>0. RowsOK /\ ThreadsOK /\ \A l \in Legs : Parent[l] \in Gtts
  BY TypedParts, LegsAssumption
<1>1. ASSUME NEW g \in Gtts, RowStands(g)
      PROVE  Larger(g, legMargin)' = Larger(g, legMargin) /\ gttMargin'[g] = gttMargin[g]
  <2>1. \A l \in LegsOf(g) : legMargin[l] \in Nat /\ legMargin'[l] = legMargin[l]
    BY <1>0, <1>1 DEF RowStands, RowsOK, LegsOf
  <2> QED
    BY <1>1, <2>1, LargerOfSame DEF RowStands
<1>2. ASSUME NEW e \in Evaluators
      PROVE  FundedOwner(e)' /\ AsksInTurn(e)'
  <2>1. FundedOwner(e) /\ AsksInTurn(e)
    BY DEF Funding
  <2>2. CASE ThreadStands(e) /\ (Firing(e) => RowStands(my[e].gtt))
    <3>1. AsksInTurn(e)'
      BY <2>1, <2>2 DEF ThreadStands, AsksInTurn
    <3>2. Firing(e) => my[e].gtt \in Gtts
      BY <1>0 DEF Firing, FirePcs, ThreadsOK, LocalsOK
    <3>3. FundedOwner(e)'
      BY <1>1, <2>1, <2>2, <3>2 DEF ThreadStands, FundedOwner, Firing, GivesBack
    <3> QED
      BY <3>1, <3>3
  <2> QED
    BY <2>2
<1>3. ASSUME NEW s \in Sweepers
      PROVE  FundedSweep(s)'
  <2>1. FundedSweep(s)
    BY DEF Funding
  <2>2. CASE ThreadStands(s) /\ (Inspected(s) => RowStands(my[s].gtt))
    <3>1. Inspected(s) => my[s].gtt \in Gtts
      BY <1>0 DEF Inspected, ThreadsOK, LocalsOK
    <3> QED
      BY <1>1, <2>1, <2>2, <3>1 DEF ThreadStands, FundedSweep, Inspected
  <2> QED
    BY <2>2
<1>4. ASSUME NEW g \in Gtts
      PROVE  FundedGtt(g)'
  BY <1>1 DEF Funding, FundedGtt
<1> QED
  BY <1>2, <1>3, <1>4 DEF Funding

\* So when the rows of margin stand, the thread that moves has to be looked at,
\* and no other.
LEMMA FundingByOne ==
  ASSUME Typed, Funding, NEW t \in Threads, Others(t),
         gttMargin' = gttMargin, legMargin' = legMargin,
         \A g \in Gtts : gttStatus'[g] = gttStatus[g] \/ FundedGtt(g)',
         t \in Evaluators => FundedOwner(t)' /\ AsksInTurn(t)',
         t \in Sweepers => FundedSweep(t)'
  PROVE  Funding'
<1>1. \A g : RowStands(g)
  BY DEF RowStands
<1>2. \A u \in Evaluators \cup Sweepers : u = t \/ ThreadStands(u)
  BY DEF Others, ThreadStands, Threads
<1> QED
  BY <1>1, <1>2, FundingKept

\* And when the rows of a GTT that is not being fired are rewritten, that GTT.
LEMMA FundingAtRest ==
  ASSUME Typed, Exclusion, Funding, NEW t \in Threads, Others(t),
         ~Firing(t)', t \in Evaluators => AsksInTurn(t)', t \in Sweepers => ~Inspected(t)',
         NEW g \in Gtts, gttStatus[g] # "triggered", FundedGtt(g)',
         \A h \in Gtts : h # g => RowStands(h) /\ gttStatus'[h] = gttStatus[h]
  PROVE  Funding'
<1>0. ThreadsOK /\ \A l \in Legs : Parent[l] \in Gtts
  BY TypedParts, LegsAssumption
<1>1. \A u \in Evaluators \cup Sweepers : u = t \/ ThreadStands(u)
  BY DEF Others, ThreadStands, Threads
<1>2. ASSUME NEW e \in Evaluators, e # t, Firing(e)
      PROVE  RowStands(my[e].gtt)
  <2>1. my[e].gtt \in Gtts
    BY <1>0, <1>2 DEF Firing, FirePcs, ThreadsOK, LocalsOK
  <2> QED
    BY <1>2, <2>1 DEF Exclusion, OwnerHoldsParent
<1>3. ASSUME NEW s \in Sweepers, s # t, Inspected(s)
      PROVE  RowStands(my[s].gtt)
  <2>1. my[s].gtt \in Gtts /\ Sweeping(s)
    BY <1>0, <1>3 DEF Inspected, ThreadsOK, LocalsOK, Sweeping, SweepPcs
  <2> QED
    BY <1>3, <2>1 DEF Exclusion, SweepsOwnerless
<1>4. t \in Evaluators => FundedOwner(t)'
  BY DEF FundedOwner
<1>5. t \in Sweepers => FundedSweep(t)'
  BY DEF FundedSweep
<1> QED
  BY <1>1, <1>2, <1>3, <1>4, <1>5, FundingKept

\* What a call reserves for its GTT covers either leg.
LEMMA ReservedIsFunded ==
  ASSUME NEW g \in Gtts, NEW m, \A l \in LegsOf(g) : m[l] \in Nat,
         gttStatus'[g] = "active", gttMargin'[g] = Reservation(g, m),
         \A l \in LegsOf(g) : legMargin'[l] = m[l]
  PROVE  FundedGtt(g)'
<1>1. Larger(g, legMargin') = Larger(g, m)
  BY LargerOfSame
<1> QED
  BY <1>1, ReservationCovers DEF FundedGtt

-----------------------------------------------------------------------------
\* The transaction that ends a GTT leaves it unarmed.
LEMMA WithdrawFunded ==
  ASSUME Typed, Exclusion, Funding, NEW t \in Requests \cup Sweepers,
         my[t].gtt \in Gtts,
         NEW outcome \in {"cancelled", "expired"}, NEW open, Withdraw(t, outcome, open)
  PROVE  Funding'
<1>0. ThreadsOK /\ RowsOK /\ t \in Threads /\ t \notin Evaluators
  BY TypedParts, ThreadsAssumption DEF Threads
<1>1. Others(t) /\ pc'[t] = "idle"
  BY <1>0, OneMoves, OneKeeps DEF Withdraw, Return, Others, Pcs, EvaluatorPcs
<1>2. legMargin' = legMargin /\ ~Inspected(t)' /\ ~Firing(t)'
  BY <1>0, <1>1 DEF Withdraw, Inspected, Firing
<1> PICK g \in Gtts : g = my[t].gtt
  OBVIOUS
<1>3. CASE gttMargin' = gttMargin /\ gttStatus' = gttStatus
  BY <1>0, <1>1, <1>2, <1>3, FundingByOne DEF FundedSweep
<1>4. CASE gttStatus[g] = "active"
             /\ gttStatus' = [gttStatus EXCEPT ![g] = outcome]
             /\ gttMargin' = [gttMargin EXCEPT ![g] = 0]
  <2>1. FundedGtt(g)'
    BY <1>0, <1>4 DEF FundedGtt, RowsOK
  <2>2. \A h \in Gtts : h # g => RowStands(h) /\ gttStatus'[h] = gttStatus[h]
    BY <1>0, <1>2, <1>4 DEF RowStands, RowsOK
  <2> QED
    BY <1>0, <1>1, <1>2, <1>4, <2>1, <2>2, FundingAtRest
<1> QED
  BY <1>3, <1>4 DEF Withdraw

\* The user's calls keep the funding.
LEMMA RequestsFunded ==
  ASSUME Typed, Exclusion, Funding, NEW r \in Requests, Call(r) \/ Serve(r)
  PROVE  Funding'
<1>0. ThreadsOK /\ RowsOK /\ r \in Threads /\ r \notin Evaluators /\ r \notin Sweepers
  BY TypedParts, ThreadsAssumption DEF Threads
<1>1. {"idle", "modify", "cancel"} \subseteq Pcs
  BY DEF Pcs, EvaluatorPcs, RequestPcs
<1>2. pc[r] # "idle" => my[r].gtt \in Gtts
  BY <1>0 DEF ThreadsOK, LocalsOK
<1>3. ~Firing(r)'
  BY <1>0 DEF Firing
<1>4. ASSUME NEW g \in Gtts, PlaceGtt(r, g)
      PROVE  Funding'
  <2>1. PICK m \in [LegsOf(g) -> Margins] :
           /\ gttMargin' = [gttMargin EXCEPT ![g] = Reservation(g, m)]
           /\ legMargin' = [l \in Legs |-> IF Parent[l] = g THEN m[l] ELSE legMargin[l]]
    BY <1>4 DEF PlaceGtt
  <2>2. /\ gttStatus[g] = "none" /\ gttStatus' = [gttStatus EXCEPT ![g] = "active"]
        /\ pc' = pc /\ my' = my
    BY <1>4 DEF PlaceGtt
  <2>3. \A l \in LegsOf(g) : m[l] \in Nat /\ legMargin'[l] = m[l]
    BY <2>1, MoneyAssumption DEF LegsOf
  <2>4. gttStatus'[g] = "active" /\ gttMargin'[g] = Reservation(g, m)
    BY <1>0, <2>1, <2>2 DEF RowsOK
  <2>5. FundedGtt(g)'
    BY <2>3, <2>4, ReservedIsFunded
  <2>6. \A h \in Gtts : h # g => RowStands(h) /\ gttStatus'[h] = gttStatus[h]
    BY <1>0, <2>1, <2>2 DEF RowStands, RowsOK, LegsOf
  <2> QED
    BY <1>0, <1>3, <2>2, <2>5, <2>6, FundingAtRest DEF Others
<1>5. ASSUME NEW g \in Gtts, ModifyRead(r, g) \/ CancelRead(r, g)
      PROVE  Funding'
  <2>1. Others(r)
    BY <1>0, <1>1, <1>5, OneMoves, OneKeeps DEF ModifyRead, CancelRead, ReadActive, Others
  <2>2. UNCHANGED <<gtts, legs>>
    BY <1>5 DEF ModifyRead, CancelRead, ReadActive
  <2> QED
    BY <1>0, <2>1, <2>2, FundingByOne DEF gtts, legs
<1>6. CASE ModifyCommit(r)
  <2> PICK g \in Gtts, q \in [Legs -> Nat] : g = my[r].gtt /\ q = my[r].quote
    BY <1>0, <1>2, <1>6 DEF ModifyCommit, ThreadsOK, Locals
  <2>1. Others(r) /\ gttStatus' = gttStatus
    BY <1>0, <1>1, <1>2, <1>6, OneMoves, OneKeeps
    DEF ModifyCommit, Return, Others
  <2>2. CASE gttMargin' = gttMargin /\ legMargin' = legMargin
    BY <1>0, <2>1, <2>2, FundingByOne
  <2>3. CASE /\ gttStatus[g] = "active"
             /\ gttMargin' = [gttMargin EXCEPT ![g] = Reservation(g, q)]
             /\ legMargin' = [l \in Legs |-> IF Parent[l] = g THEN q[l] ELSE legMargin[l]]
    <3>1. \A l \in LegsOf(g) : q[l] \in Nat /\ legMargin'[l] = q[l]
      BY <2>1, <2>3 DEF LegsOf
    <3>2. gttStatus'[g] = "active" /\ gttMargin'[g] = Reservation(g, q)
      BY <1>0, <2>1, <2>3 DEF RowsOK
    <3>3. FundedGtt(g)'
      BY <2>1, <3>1, <3>2, ReservedIsFunded
    <3>4. \A h \in Gtts : h # g => RowStands(h) /\ gttStatus'[h] = gttStatus[h]
      BY <1>0, <2>1, <2>3 DEF RowStands, RowsOK, LegsOf
    <3> QED
      BY <1>0, <1>3, <2>1, <2>3, <3>3, <3>4, FundingAtRest
  <2> QED
    BY <1>6, <2>2, <2>3 DEF ModifyCommit
<1>7. CASE CancelCommit(r)
  BY <1>2, <1>7, WithdrawFunded DEF CancelCommit
<1> QED
  BY <1>4, <1>5, <1>6, <1>7 DEF Call, Serve

-----------------------------------------------------------------------------
\* An owner may rewrite the row of its GTT: nobody else has it.
LEMMA FundingByOwner ==
  ASSUME Typed, Exclusion, Funding, NEW e \in Evaluators, Firing(e), Others(e),
         NEW g \in Gtts, g = my[e].gtt, legMargin' = legMargin, FundedGtt(g)',
         \A h \in Gtts : h # g => gttMargin'[h] = gttMargin[h] /\ gttStatus'[h] = gttStatus[h],
         FundedOwner(e)' /\ AsksInTurn(e)'
  PROVE  Funding'
<1>0. ThreadsOK /\ e \in Threads /\ e \notin Sweepers /\ \A l \in Legs : Parent[l] \in Gtts
  BY TypedParts, LegsAssumption, ThreadsAssumption DEF Threads
<1>1. \A h \in Gtts : h # g => RowStands(h)
  BY DEF RowStands
<1>2. \A u \in Evaluators \cup Sweepers : u = e \/ ThreadStands(u)
  BY DEF Others, ThreadStands, Threads
<1>3. ASSUME NEW f \in Evaluators, f # e, Firing(f)
      PROVE  RowStands(my[f].gtt)
  <2>1. my[f].gtt \in Gtts
    BY <1>0, <1>3 DEF Firing, FirePcs, ThreadsOK, LocalsOK
  <2> QED
    BY <1>1, <1>3, <2>1 DEF Exclusion, OneOwner
<1>4. ASSUME NEW s \in Sweepers, Inspected(s)
      PROVE  RowStands(my[s].gtt)
  <2>1. my[s].gtt \in Gtts /\ Sweeping(s)
    BY <1>0, <1>4 DEF Inspected, ThreadsOK, LocalsOK, Sweeping, SweepPcs
  <2> QED
    BY <1>1, <1>4, <2>1 DEF Exclusion, SweepsOwnerless
<1> QED
  BY <1>0, <1>1, <1>2, <1>3, <1>4, FundingKept

\* What an evaluator's step can do to its thread.
LEMMA EvaluatorMoves ==
  ASSUME Typed, NEW e \in Evaluators
  PROVE  /\ e \in Threads /\ e \notin Sweepers /\ my[e] \in Locals
         /\ FirePcs \subseteq Pcs /\ EvaluatorPcs \subseteq Pcs
         /\ pc[e] # "idle" => my[e].leg \in Legs /\ my[e].gtt = Parent[my[e].leg]
                                /\ my[e].gtt \in Gtts
         /\ \A next \in Pcs : Goto(e, next) => pc'[e] = next
         /\ \A next \in Pcs : Goto(e, next) /\ my' = my => Others(e)
         /\ \A next \in Pcs : \A mine \in Locals :
              Goto(e, next) /\ Keep(e, mine) => my'[e] = mine /\ Others(e)
<1>1. ThreadsOK /\ e \in Threads /\ e \notin Sweepers
  BY TypedParts, ThreadsAssumption DEF Threads
<1> QED
  BY <1>1, OneMoves, OneKeeps, LegsAssumption DEF Others, ThreadsOK, LocalsOK, Pcs, EvaluatorPcs

\* Outside of the fire an evaluator has nothing to give back.
LEMMA BesideFireFunded ==
  ASSUME Typed, Exclusion, Funding, NEW e \in Evaluators,
         \/ \E l \in Legs : Claim(e, l)
         \/ CheckLeg(e) \/ ClaimParent(e) \/ RevertClaim(e) \/ Finalise(e) \/ FinaliseFails(e)
  PROVE  Funding'
<1>0. RowsOK /\ ThreadsOK
  BY TypedParts
<1>1. /\ e \in Threads /\ e \notin Sweepers
      /\ {"idle", "claimed", "checked", "revertClaim", "owner"} \subseteq Pcs
  BY EvaluatorMoves DEF EvaluatorPcs, FirePcs
<1>2. FundedOwner(e) /\ AsksInTurn(e)
  BY DEF Funding
<1>3. gttMargin' = gttMargin /\ legMargin' = legMargin
  BY DEF Claim, CheckLeg, ClaimParent, RevertClaim, Finalise, FinaliseFails, gtts, legs
<1>4. ASSUME ~Firing(e)', AsksInTurn(e)', Others(e), gttStatus' = gttStatus
      PROVE  Funding'
  BY <1>1, <1>3, <1>4, FundingByOne DEF FundedOwner
<1>5. CASE \E l \in Legs : Claim(e, l)
  <2>1. PICK l \in Legs : Claim(e, l)
    BY <1>5
  <2> DEFINE mine == [Fresh EXCEPT !.leg = l, !.gtt = Parent[l]]
  <2>2. mine \in Locals /\ ~mine.undo
    BY LegsAssumption DEF Fresh, Locals
  <2>3. Goto(e, "claimed") /\ Keep(e, mine) /\ gttStatus' = gttStatus
    BY <2>1 DEF Claim, gtts
  <2> HIDE DEF mine
  <2>4. pc'[e] = "claimed" /\ my'[e] = mine /\ Others(e)
    BY <1>1, <2>2, <2>3, EvaluatorMoves
  <2> QED
    BY <1>4, <2>2, <2>3, <2>4 DEF Firing, FirePcs, AsksInTurn
<1>6. CASE CheckLeg(e) \/ RevertClaim(e) \/ Finalise(e) \/ FinaliseFails(e)
  <2>1. CASE Return(e)
    BY <1>1, <1>4, <1>6, <2>1, FreshIsTyped, EvaluatorMoves
    DEF Return, CheckLeg, RevertClaim, Finalise, FinaliseFails, gtts, Firing, FirePcs, AsksInTurn
  <2>2. CASE CheckLeg(e) /\ Goto(e, "checked") /\ my' = my
    BY <1>1, <1>2, <1>4, <2>2, EvaluatorMoves DEF CheckLeg, gtts, Firing, FirePcs, AsksInTurn
  <2> QED
    BY <1>6, <2>1, <2>2 DEF CheckLeg, RevertClaim, Finalise, FinaliseFails
<1>7. CASE ClaimParent(e)
  <2>1. PICK g \in Gtts : g = my[e].gtt
    BY <1>7, EvaluatorMoves DEF ClaimParent
  <2>2. my' = my
    BY <1>7 DEF ClaimParent
  <2>3. CASE Goto(e, "revertClaim") /\ gttStatus' = gttStatus
    BY <1>1, <1>4, <2>2, <2>3, EvaluatorMoves DEF Firing, FirePcs, AsksInTurn
  <2>4. CASE /\ Goto(e, "owner") /\ gttStatus[g] = "active"
             /\ gttStatus' = [gttStatus EXCEPT ![g] = "triggered"]
    <3>1. pc'[e] = "owner" /\ Others(e)
      BY <1>1, <2>2, <2>4, EvaluatorMoves
    <3>2. gttMargin[g] >= Larger(g, legMargin)
      BY <2>4 DEF Funding, FundedGtt
    <3>3. FundedOwner(e)'
      BY <1>3, <2>1, <2>2, <3>1, <3>2
      DEF FundedOwner, Firing, FirePcs, Recorded, Remembered, GivesBack
    <3>4. AsksInTurn(e)'
      BY <1>2, <1>7, <2>2, <3>1 DEF ClaimParent, AsksInTurn
    <3>5. FundedGtt(g)'
      BY <1>0, <1>3, <2>4, <3>2 DEF FundedGtt, RowsOK
    <3>6. \A h \in Gtts : gttStatus'[h] = gttStatus[h] \/ FundedGtt(h)'
      BY <1>0, <2>4, <3>5 DEF RowsOK
    <3> QED
      BY <1>1, <1>3, <3>1, <3>3, <3>4, <3>6, FundingByOne
  <2> QED
    BY <1>7, <2>1, <2>3, <2>4 DEF ClaimParent
<1> QED
  BY <1>5, <1>6, <1>7

\* In the fire, and in its undoing, what was reserved is always to be found.
LEMMA InFireFunded ==
  ASSUME Typed, Exclusion, Funding, NEW e \in Evaluators,
         \/ ReadReservation(e) \/ ReleaseFails(e) \/ OrderRefused(e) \/ OrderPriced(e)
         \/ InsertOrder(e) \/ BlockMargin(e) \/ Compensate(e)
  PROVE  Funding'
<1>0. RowsOK /\ ThreadsOK /\ my[e] \in Locals
  BY TypedParts, EvaluatorMoves
<1>1. /\ e \in Threads /\ e \notin Sweepers /\ FirePcs \subseteq Pcs
  BY EvaluatorMoves
<1>2. FundedOwner(e) /\ AsksInTurn(e)
  BY DEF Funding
<1>3. gttMargin' = gttMargin /\ legMargin' = legMargin /\ gttStatus' = gttStatus
  BY DEF ReadReservation, ReleaseFails, OrderRefused, OrderPriced, InsertOrder, BlockMargin,
         Compensate, gtts, legs
<1>4. Firing(e) /\ pc[e] # "idle"
  BY DEF ReadReservation, ReleaseFails, OrderRefused, OrderPriced, InsertOrder, BlockMargin,
         Compensate, Firing, FirePcs
<1>5. PICK g \in Gtts : g = my[e].gtt
  BY <1>4, EvaluatorMoves
<1>6. gttMargin[g] \in Nat /\ my[e].held \in Nat
  BY <1>0 DEF RowsOK, Locals
<1>7. ASSUME Others(e), FundedOwner(e)', AsksInTurn(e)'
      PROVE  Funding'
  BY <1>1, <1>3, <1>7, FundingByOne
<1>8. ASSUME my' = my, NEW next \in FirePcs, Goto(e, next)
      PROVE  pc'[e] = next /\ Others(e)
  BY <1>1, <1>8, EvaluatorMoves
<1>9. CASE ReleaseFails(e) \/ OrderRefused(e) \/ InsertOrder(e) \/ BlockMargin(e)
  <2>1. my' = my
    BY <1>9 DEF ReleaseFails, OrderRefused, InsertOrder, BlockMargin
  <2>2. CASE ReleaseFails(e)
    <3>1. pc'[e] = "revertParent" /\ Others(e)
      BY <1>8, <2>1, <2>2 DEF ReleaseFails, FirePcs
    <3> QED
      BY <1>2, <1>3, <1>4, <1>7, <2>1, <2>2, <3>1
      DEF ReleaseFails, FundedOwner, AsksInTurn, Recorded, Remembered, GivesBack
  <2>3. CASE OrderRefused(e)
    <3>1. pc'[e] = "compensate" /\ Others(e)
      BY <1>8, <2>1, <2>3 DEF OrderRefused, FirePcs
    <3> QED
      BY <1>2, <1>3, <1>4, <1>7, <2>1, <2>3, <3>1
      DEF OrderRefused, FundedOwner, AsksInTurn, Recorded, Remembered, GivesBack
  <2>4. CASE InsertOrder(e)
    <3>1. pc'[e] \in {"finalise", "compensate"} /\ Others(e)
      BY <1>8, <2>1, <2>4 DEF InsertOrder, FirePcs
    <3> QED
      BY <1>2, <1>3, <1>4, <1>7, <2>1, <2>4, <3>1
      DEF InsertOrder, FundedOwner, AsksInTurn, Recorded, Remembered, GivesBack
  <2>5. CASE BlockMargin(e)
    <3>1. pc'[e] \in {Granted(e), Refused(e)} /\ Others(e)
      BY <1>1, <1>8, <2>1, <2>5 DEF BlockMargin, FirePcs, Granted, Refused
    <3> QED
      BY <1>1, <1>2, <1>3, <1>4, <1>7, <2>1, <2>5, <3>1
      DEF BlockMargin, Granted, Refused, FundedOwner, AsksInTurn, Recorded, Remembered,
          GivesBack
  <2> QED
    BY <1>9, <2>2, <2>3, <2>4, <2>5
<1>10. CASE ReadReservation(e)
  <2> DEFINE mine == [my[e] EXCEPT !.held = gttMargin[g]]
  <2>1. /\ mine \in Locals /\ mine.held = gttMargin[g] /\ mine.gtt = g
        /\ mine.undo = my[e].undo
    BY <1>0, <1>5, <1>6 DEF Locals
  <2>2. Keep(e, mine) /\ Goto(e, IF gttMargin[g] > 0 THEN "release" ELSE "order")
    BY <1>5, <1>10 DEF ReadReservation
  <2> HIDE DEF mine
  <2>3. /\ pc'[e] = IF gttMargin[g] > 0 THEN "release" ELSE "order"
        /\ my'[e] = mine /\ Others(e)
    BY <1>1, <2>1, <2>2, EvaluatorMoves DEF FirePcs
  <2> QED
    BY <1>2, <1>3, <1>4, <1>5, <1>6, <1>7, <1>10, <2>1, <2>3
    DEF ReadReservation, FundedOwner, AsksInTurn, Recorded, Remembered, GivesBack
<1>11. CASE OrderPriced(e)
  <2>1. PICK m \in Margins \cup {0} :
          Keep(e, [my[e] EXCEPT !.ask = m]) /\ Goto(e, IF m > 0 THEN "block" ELSE "insert")
    BY <1>11 DEF OrderPriced
  <2> DEFINE mine == [my[e] EXCEPT !.ask = m]
  <2>2. /\ mine \in Locals /\ mine.held = my[e].held /\ mine.gtt = g
        /\ mine.undo = my[e].undo
    BY <1>0, <1>5, MoneyAssumption DEF Locals
  <2> HIDE DEF mine
  <2>3. pc'[e] \in {"block", "insert"} /\ my'[e] = mine /\ Others(e)
    BY <1>1, <2>1, <2>2, EvaluatorMoves DEF FirePcs, mine
  <2> QED
    BY <1>2, <1>3, <1>4, <1>5, <1>7, <1>11, <2>2, <2>3
    DEF OrderPriced, FundedOwner, AsksInTurn, Recorded, Remembered, GivesBack
<1>12. CASE Compensate(e)
  <2> DEFINE mine == [my[e] EXCEPT !.undo = TRUE, !.ask = my[e].held]
  <2>1. /\ mine \in Locals /\ mine.held = my[e].held /\ mine.gtt = g
        /\ mine.undo /\ mine.ask = my[e].held
    BY <1>0, <1>5, <1>6 DEF Locals
  <2>2. Keep(e, mine) /\ Goto(e, IF my[e].held > 0 THEN "block" ELSE "revertParent")
    BY <1>12 DEF Compensate
  <2> HIDE DEF mine
  <2>3. /\ pc'[e] = IF my[e].held > 0 THEN "block" ELSE "revertParent"
        /\ my'[e] = mine /\ Others(e)
    BY <1>1, <2>1, <2>2, EvaluatorMoves DEF FirePcs
  <2> QED
    BY <1>2, <1>3, <1>4, <1>5, <1>6, <1>7, <1>12, <2>1, <2>3
    DEF Compensate, FundedOwner, AsksInTurn, Recorded, Remembered, GivesBack
<1> QED
  BY <1>9, <1>10, <1>11, <1>12

\* The owner's own commits to the row of its GTT.
LEMMA OwnerWritesFunded ==
  ASSUME Typed, Exclusion, Funding, NEW e \in Evaluators,
         \/ ReleaseReservation(e) \/ PersistRestored(e) \/ PersistUnfunded(e)
         \/ RejectGtt(e) \/ RevertParent(e)
  PROVE  Funding'
<1>0. RowsOK /\ ThreadsOK /\ my[e] \in Locals
  BY TypedParts, EvaluatorMoves
<1>1. /\ FirePcs \subseteq Pcs /\ "revertClaim" \in Pcs
  BY EvaluatorMoves DEF EvaluatorPcs
<1>2. FundedOwner(e) /\ AsksInTurn(e)
  BY DEF Funding
<1>3. my' = my /\ legMargin' = legMargin
  BY DEF ReleaseReservation, PersistRestored, PersistUnfunded, RejectGtt, RevertParent, legs
<1>4. Firing(e) /\ pc[e] # "idle"
  BY DEF ReleaseReservation, PersistRestored, PersistUnfunded, RejectGtt, RevertParent,
         Firing, FirePcs
<1>5. PICK g \in Gtts : g = my[e].gtt
  BY <1>4, EvaluatorMoves
<1>6. gttMargin[g] \in Nat /\ my[e].held \in Nat /\ gttStatus[g] = "triggered"
  BY <1>0, <1>4, <1>5 DEF RowsOK, Locals, Exclusion, OwnerHoldsParent
<1>7. \A h \in Gtts : h # g => gttMargin'[h] = gttMargin[h] /\ gttStatus'[h] = gttStatus[h]
  BY <1>0, <1>5
  DEF ReleaseReservation, PersistRestored, PersistUnfunded, RejectGtt, RevertParent, RowsOK
<1>8. ASSUME Others(e), FundedGtt(g)', FundedOwner(e)', AsksInTurn(e)'
      PROVE  Funding'
  BY <1>3, <1>4, <1>5, <1>7, <1>8, FundingByOwner
<1>9. ASSUME NEW next \in Pcs, Goto(e, next)
      PROVE  pc'[e] = next /\ Others(e)
  BY <1>3, <1>9, EvaluatorMoves
<1>10. CASE ReleaseReservation(e)
  <2>1. pc'[e] = "order" /\ Others(e)
    BY <1>1, <1>9, <1>10 DEF ReleaseReservation, FirePcs
  <2>2. gttMargin'[g] = 0 /\ gttStatus' = gttStatus
    BY <1>0, <1>5, <1>10 DEF ReleaseReservation, RowsOK
  <2>3. FundedGtt(g)'
    BY <1>6, <2>2 DEF FundedGtt
  <2>4. FundedOwner(e)' /\ AsksInTurn(e)'
    BY <1>2, <1>3, <1>4, <1>5, <1>10, <2>1, <2>2
    DEF ReleaseReservation, FundedOwner, AsksInTurn, Recorded, Remembered, GivesBack
  <2> QED
    BY <1>8, <2>1, <2>3, <2>4
<1>11. CASE PersistRestored(e)
  <2>1. pc'[e] = "revertParent" /\ Others(e)
    BY <1>1, <1>9, <1>11 DEF PersistRestored, FirePcs
  <2>2. gttMargin'[g] = my[e].held /\ gttStatus' = gttStatus
    BY <1>0, <1>5, <1>11 DEF PersistRestored, RowsOK
  <2>3. my[e].held >= Larger(g, legMargin)
    BY <1>2, <1>4, <1>5, <1>11 DEF PersistRestored, FundedOwner, Recorded, Remembered, GivesBack
  <2>4. FundedGtt(g)'
    BY <1>3, <1>6, <2>2, <2>3 DEF FundedGtt
  <2>5. FundedOwner(e)' /\ AsksInTurn(e)'
    BY <1>3, <1>5, <2>1, <2>2, <2>3
    DEF FundedOwner, AsksInTurn, Recorded, Remembered, GivesBack
  <2> QED
    BY <1>8, <2>1, <2>4, <2>5
<1>12. CASE PersistUnfunded(e)
  <2>1. pc'[e] = "reject" /\ Others(e)
    BY <1>1, <1>9, <1>12 DEF PersistUnfunded, FirePcs
  <2>2. gttMargin'[g] = 0 /\ gttStatus' = gttStatus
    BY <1>0, <1>5, <1>12 DEF PersistUnfunded, RowsOK
  <2>3. FundedGtt(g)'
    BY <1>6, <2>2 DEF FundedGtt
  <2>4. FundedOwner(e)' /\ AsksInTurn(e)'
    BY <1>3, <1>5, <2>1, <2>2 DEF FundedOwner, AsksInTurn, Recorded, Remembered
  <2> QED
    BY <1>8, <2>1, <2>3, <2>4
<1>13. CASE RejectGtt(e) \/ RevertParent(e)
  <2>1. pc'[e] = "revertClaim" /\ Others(e)
    BY <1>1, <1>9, <1>13 DEF RejectGtt, RevertParent
  <2>2. FundedOwner(e)' /\ AsksInTurn(e)'
    BY <2>1 DEF FundedOwner, Firing, FirePcs, AsksInTurn
  <2>3. gttMargin' = gttMargin
    BY <1>13 DEF RejectGtt, RevertParent
  <2>4. CASE RejectGtt(e)
    <3>1. gttStatus'[g] = "rejected"
      BY <1>0, <1>5, <2>4 DEF RejectGtt, RowsOK
    <3>2. FundedGtt(g)'
      BY <3>1 DEF FundedGtt
    <3> QED
      BY <1>8, <2>1, <2>2, <3>2
  <2>5. CASE RevertParent(e)
    <3>1. gttStatus'[g] = "active"
      BY <1>0, <1>5, <1>6, <2>5 DEF RevertParent, RowsOK
    <3>2. gttMargin[g] >= Larger(g, legMargin)
      BY <1>2, <1>4, <1>5, <2>5 DEF RevertParent, FundedOwner, Recorded, GivesBack
    <3>3. FundedGtt(g)'
      BY <1>3, <2>3, <3>1, <3>2 DEF FundedGtt
    <3> QED
      BY <1>8, <2>1, <2>2, <3>3
  <2> QED
    BY <1>13, <2>4, <2>5
<1> QED
  BY <1>10, <1>11, <1>12, <1>13

LEMMA EvaluatorsFunded ==
  ASSUME Typed, Exclusion, Funding, NEW e \in Evaluators,
         Fire(e) \/ \E l \in Legs : Claim(e, l)
  PROVE  Funding'
BY BesideFireFunded, InFireFunded, OwnerWritesFunded DEF Fire
-----------------------------------------------------------------------------
\* What a sweeper's step can do to its thread.
LEMMA SweeperMoves ==
  ASSUME Typed, NEW s \in Sweepers
  PROVE  /\ s \in Threads /\ s \notin Evaluators /\ ~Firing(s) /\ my[s] \in Locals
         /\ SweeperPcs \subseteq Pcs
         /\ pc[s] \in {"expire", "block", "rearm", "sweepReject"} => my[s].gtt \in Gtts
         /\ \A next \in Pcs : Goto(s, next) => pc'[s] = next
         /\ \A next \in Pcs : Goto(s, next) /\ my' = my => Others(s)
         /\ \A next \in Pcs : \A mine \in Locals :
              Goto(s, next) /\ Keep(s, mine) => my'[s] = mine /\ Others(s)
<1>1. ThreadsOK /\ s \in Threads /\ s \notin Evaluators
  BY TypedParts, ThreadsAssumption DEF Threads
<1> QED
  BY <1>1, OneMoves, OneKeeps DEF Others, ThreadsOK, LocalsOK, Pcs, Firing

\* A sweeper at the next stranded GTT of its list holds none.
LEMMA NextIsTyped ==
  ASSUME Typed, NEW s \in Sweepers, NextStranded(s)
  PROVE  pc'[s] = "sweep" /\ Others(s)
<1>1. [Fresh EXCEPT !.todo = my[s].todo] \in Locals /\ "sweep" \in Pcs
  BY SweeperMoves DEF Fresh, Locals, SweeperPcs, SweepPcs
<1> QED
  BY <1>1, SweeperMoves DEF NextStranded

\* The sweeps that leave the parents alone keep the funding.
LEMMA SweepsReadFunded ==
  ASSUME Typed, Exclusion, Funding, NEW s \in Sweepers,
         \/ ReclaimLegs(s) \/ QueryStranded(s) \/ SweepDone(s)
         \/ \E g \in Gtts : SweepSkips(s, g) \/ SweepFinalises(s, g) \/ ExpireRead(s, g)
  PROVE  Funding'
<1>0. ThreadsOK
  BY TypedParts
<1>1. /\ s \in Threads /\ s \notin Evaluators /\ my[s] \in Locals
      /\ {"idle", "stranded", "expire", "sweep"} \subseteq Pcs
  BY SweeperMoves DEF SweeperPcs, SweepPcs
<1>2. gttStatus' = gttStatus /\ gttMargin' = gttMargin /\ legMargin' = legMargin
  BY DEF ReclaimLegs, QueryStranded, SweepDone, SweepSkips, SweepFinalises, ExpireRead,
         ReadActive, gtts, legs
<1>3. ASSUME Others(s), pc'[s] \in {"idle", "stranded", "expire", "sweep"}
      PROVE  Funding'
  BY <1>1, <1>2, <1>3, FundingByOne DEF FundedSweep, Inspected
<1>4. ASSUME NEW next \in {"idle", "stranded", "expire", "sweep"}, Goto(s, next),
             my' = my \/ \E mine \in Locals : Keep(s, mine)
      PROVE  Funding'
  BY <1>1, <1>3, <1>4, SweeperMoves
<1>5. CASE ReclaimLegs(s)
  BY <1>4, <1>5 DEF ReclaimLegs
<1>6. CASE QueryStranded(s)
  <2>1. [Fresh EXCEPT !.todo = {g \in Gtts : gttStatus[g] = "triggered"}] \in Locals
    BY DEF Fresh, Locals
  <2> QED
    BY <1>4, <1>6, <2>1 DEF QueryStranded
<1>7. CASE SweepDone(s)
  BY <1>4, <1>7, FreshIsTyped DEF SweepDone, Return
<1>8. ASSUME NEW g \in Gtts, SweepSkips(s, g) \/ SweepFinalises(s, g)
      PROVE  Funding'
  <2>1. pc' = pc /\ pc[s] = "sweep" /\ Keep(s, [my[s] EXCEPT !.todo = @ \ {g}])
    BY <1>8 DEF SweepSkips, SweepFinalises
  <2>2. Others(s)
    BY <1>0, <1>1, <2>1, OneKeeps DEF Others
  <2> QED
    BY <1>3, <2>1, <2>2
<1>9. ASSUME NEW g \in Gtts, ExpireRead(s, g)
      PROVE  Funding'
  <2>1. [Fresh EXCEPT !.gtt = g, !.held = gttMargin[g]] \in Locals
    BY TypedParts DEF Fresh, Locals, RowsOK
  <2> QED
    BY <1>4, <1>9, <2>1 DEF ExpireRead, ReadActive
<1> QED
  BY <1>5, <1>6, <1>7, <1>8, <1>9

\* An inspected GTT keeps its reservation, or its larger leg is asked for.
LEMMA InspectFunded ==
  ASSUME Typed, Exclusion, Funding, NEW s \in Sweepers,
         (\E g \in Gtts : SweepInspects(s, g)) \/ BlockMargin(s)
  PROVE  Funding'
<1>0. RowsOK /\ FundedSweep(s)
  BY TypedParts DEF Funding
<1>1. /\ s \in Threads /\ s \notin Evaluators /\ my[s] \in Locals
      /\ {"block", "rearm", "sweepReject"} \subseteq Pcs
  BY SweeperMoves DEF SweeperPcs, SweepPcs
<1>2. gttStatus' = gttStatus /\ gttMargin' = gttMargin /\ legMargin' = legMargin
  BY DEF SweepInspects, BlockMargin, gtts, legs
<1>3. ASSUME Others(s), FundedSweep(s)'
      PROVE  Funding'
  BY <1>1, <1>2, <1>3, FundingByOne
<1>4. ASSUME NEW g \in Gtts, SweepInspects(s, g)
      PROVE  Funding'
  <2> DEFINE mine == [my[s] EXCEPT !.todo = @ \ {g}, !.gtt = g, !.held = gttMargin[g],
                         !.ask = IF gttMargin[g] > 0 THEN 0 ELSE Larger(g, legMargin)]
  <2>1. gttMargin[g] \in Nat /\ Larger(g, legMargin) \in Nat
    BY <1>0, LargerIsMaximum DEF RowsOK, LegsOf
  <2>2. /\ mine \in Locals /\ mine.gtt = g /\ mine.held = gttMargin[g]
        /\ mine.ask = IF gttMargin[g] > 0 THEN 0 ELSE Larger(g, legMargin)
    BY <1>1, <2>1 DEF Locals
  <2>3. Keep(s, mine) /\ Goto(s, IF gttMargin[g] > 0 THEN "rearm" ELSE "block")
    BY <1>4 DEF SweepInspects
  <2>4. pc[s] = "sweep" /\ g \in my[s].todo
    BY <1>4 DEF SweepInspects
  <2> HIDE DEF mine
  <2>5. /\ pc'[s] = IF gttMargin[g] > 0 THEN "rearm" ELSE "block"
        /\ my'[s] = mine /\ Others(s)
    BY <1>1, <2>2, <2>3, SweeperMoves
  <2>6. gttStatus[g] = "triggered"
    BY <2>4 DEF Exclusion, SweepsOwnerless, Sweeping, SweepPcs
  <2>7. gttMargin[g] = 0 \/ gttMargin[g] >= Larger(g, legMargin)
    BY <2>6 DEF Funding, FundedGtt
  <2>8. FundedSweep(s)'
    BY <1>2, <2>1, <2>2, <2>5, <2>7 DEF FundedSweep
  <2> QED
    BY <1>3, <2>5, <2>8
<1>5. CASE BlockMargin(s)
  <2>1. PICK next \in {"rearm", "sweepReject"} : Goto(s, next)
    BY <1>5 DEF BlockMargin, Granted, Refused
  <2>2. pc'[s] = next /\ Others(s) /\ my' = my /\ pc[s] = "block"
    BY <1>1, <1>5, <2>1, SweeperMoves DEF BlockMargin
  <2>3. FundedSweep(s)'
    BY <1>0, <1>2, <2>2 DEF FundedSweep, Inspected
  <2> QED
    BY <1>3, <2>2, <2>3
<1> QED
  BY <1>4, <1>5

\* What a sweep puts right is funded: nobody else has it.
LEMMA PuttingRightFunded ==
  ASSUME Typed, Exclusion, Funding, NEW s \in Sweepers, Rearm(s) \/ SweepRejects(s)
  PROVE  Funding'
<1>0. RowsOK /\ ThreadsOK /\ FundedSweep(s) /\ my[s] \in Locals
  BY TypedParts, SweeperMoves DEF Funding
<1>1. s \in Threads /\ s \notin Evaluators /\ Sweeping(s) /\ Inspected(s)
  BY SweeperMoves DEF Rearm, SweepRejects, Sweeping, SweepPcs, Inspected
<1>2. PICK g \in Gtts : g = my[s].gtt
  BY SweeperMoves DEF Rearm, SweepRejects
<1>3. /\ gttStatus[g] = "triggered"
      /\ \A e \in Evaluators : Firing(e) => my[e].gtt # g
  BY <1>1, <1>2 DEF Exclusion, SweepsOwnerless
<1>4. pc'[s] = "sweep" /\ Others(s)
  BY NextIsTyped DEF Rearm, SweepRejects
<1>5. legMargin' = legMargin
  BY DEF Rearm, SweepRejects, legs
<1>6. \A h \in Gtts : h # g => gttMargin'[h] = gttMargin[h] /\ gttStatus'[h] = gttStatus[h]
  BY <1>0, <1>2 DEF Rearm, SweepRejects, RowsOK
<1>7. FundedGtt(g)'
  <2>1. CASE Rearm(s)
    <3>1. gttStatus'[g] = "active" /\ gttMargin'[g] = my[s].held + my[s].ask
      BY <1>0, <1>2, <1>3, <2>1 DEF Rearm, RowsOK
    <3>2. my[s].held + my[s].ask >= Larger(g, legMargin)
      BY <1>0, <1>1, <1>2, <2>1 DEF Rearm, FundedSweep
    <3> QED
      BY <1>5, <3>1, <3>2 DEF FundedGtt
  <2>2. CASE SweepRejects(s)
    BY <1>0, <1>2, <2>2 DEF SweepRejects, FundedGtt, RowsOK
  <2> QED
    BY <2>1, <2>2
<1>8. \A h \in Gtts : h # g => RowStands(h) /\ gttStatus'[h] = gttStatus[h]
  BY <1>5, <1>6 DEF RowStands
<1>9. ASSUME NEW e \in Evaluators, Firing(e)
      PROVE  RowStands(my[e].gtt)
  <2>1. my[e].gtt \in Gtts
    BY <1>9, EvaluatorMoves DEF Firing, FirePcs
  <2> QED
    BY <1>3, <1>8, <1>9, <2>1
<1>10. ASSUME NEW t \in Sweepers, Inspected(t), t # s
       PROVE  FALSE
  <2>1. Sweeping(t)
    BY <1>10 DEF Inspected, Sweeping, SweepPcs
  <2> QED
    BY <1>1, <1>10, <2>1 DEF Exclusion, OneSweep
<1>11. \A u \in Evaluators \cup Sweepers : u = s \/ ThreadStands(u)
  BY <1>4 DEF Others, ThreadStands, Threads
<1>12. FundedSweep(s)'
  BY <1>4 DEF FundedSweep, Inspected
<1> QED
  BY <1>1, <1>7, <1>8, <1>9, <1>10, <1>11, <1>12, FundingKept

LEMMA SweepersFunded ==
  ASSUME Typed, Exclusion, Funding, NEW s \in Sweepers,
         Reclaim(s) \/ ExpireCommit(s) \/ \E g \in Gtts : ExpireRead(s, g)
  PROVE  Funding'
<1>1. CASE ExpireCommit(s)
  <2>1. my[s].gtt \in Gtts
    BY <1>1, SweeperMoves DEF ExpireCommit
  <2> QED
    BY <1>1, <2>1, WithdrawFunded DEF ExpireCommit
<1> QED
  BY <1>1, SweepsReadFunded, InspectFunded, PuttingRightFunded DEF Reclaim

\* Time changes no margin, and a crash forgets the threads: what an owner alone
\* remembered is lost with it, its GTT triggered and without reservation.
LEMMA WorldFunded ==
  ASSUME Typed, Funding,
         \/ \E l \in Legs : ClaimAges(l)
         \/ \E g \in Gtts : FallsDue(g)
         \/ Crash
         \/ UNCHANGED vars
  PROVE  Funding'
<1>1. gttStatus' = gttStatus /\ gttMargin' = gttMargin /\ legMargin' = legMargin
  BY DEF ClaimAges, FallsDue, Crash, vars, gtts, legs
<1>2. \A g \in Gtts : RowStands(g) /\ gttStatus'[g] = gttStatus[g]
  BY <1>1 DEF RowStands
<1>3. CASE Crash
  <2>1. ASSUME NEW e \in Evaluators
        PROVE  FundedOwner(e)' /\ AsksInTurn(e)'
    BY <1>3 DEF Crash, FundedOwner, AsksInTurn, Firing, FirePcs, Threads
  <2>2. ASSUME NEW s \in Sweepers
        PROVE  FundedSweep(s)'
    BY <1>3 DEF Crash, FundedSweep, Inspected, Threads
  <2> QED
    BY <1>2, <2>1, <2>2, FundingKept
<1>4. CASE UNCHANGED <<pc, my>>
  <2>1. \A t \in Threads : ThreadStands(t) /\ RowStands(my[t].gtt)
    BY <1>1, <1>4 DEF ThreadStands, RowStands
  <2> QED
    BY <1>2, <2>1, FundingKept DEF Threads
<1> QED
  BY <1>3, <1>4 DEF ClaimAges, FallsDue, vars

LEMMA InitFunded == Init => Funding
<1> SUFFICES ASSUME Init
             PROVE  Funding
  OBVIOUS
<1>1. \A e \in Evaluators : FundedOwner(e) /\ AsksInTurn(e)
  BY DEF Init, Threads, FundedOwner, AsksInTurn, Firing, FirePcs
<1>2. \A s \in Sweepers : FundedSweep(s)
  BY DEF Init, Threads, FundedSweep, Inspected
<1>3. \A g \in Gtts : FundedGtt(g)
  BY DEF Init, FundedGtt
<1> QED
  BY <1>1, <1>2, <1>3 DEF Funding

LEMMA NextFunded ==
  ASSUME Repairable
  PROVE  Typed /\ Exclusion /\ Funding /\ [Next]_vars => Funding'
<1>1. ~\E t \in Threads : DatabaseFails(t)
  BY DEF Repairable, DatabaseFails
<1> QED
  BY <1>1, RequestsFunded, EvaluatorsFunded, SweepersFunded, WorldFunded DEF Next, Step, Fault

THEOREM FundingHolds == Repairable => (Spec => [](Typed /\ Exclusion /\ Funding))
<1> SUFFICES ASSUME Repairable
             PROVE  Spec => [](Typed /\ Exclusion /\ Funding)
  OBVIOUS
<1>1. SweepsApart
  BY DEF Repairable, SweepsApart
<1>2. Spec => [](Typed /\ Exclusion)
  BY <1>1, ExclusionHolds
<1>3. Init => Funding
  BY InitFunded
<1>4. Typed /\ Exclusion /\ Funding /\ [Next]_vars => Funding'
  BY NextFunded
<1> QED
  BY <1>2, <1>3, <1>4, PTL DEF Spec

\* A GTT that can still fire holds enough to fund either of its legs, whatever
\* evaluators, requests, crashes, failed INSERTs and lost answers interleave.
THEOREM ArmedAndFunded == Repairable => (Spec => []ArmedIsFunded)
<1> SUFFICES ASSUME Repairable
             PROVE  Spec => []ArmedIsFunded
  OBVIOUS
<1>1. Spec => [](Typed /\ Exclusion /\ Funding)
  BY FundingHolds
<1>2. Funding => ArmedIsFunded
  BY DEF Funding, FundedGtt, ArmedIsFunded
<1> QED
  BY <1>1, <1>2, PTL
-----------------------------------------------------------------------------
(***************************************************************************)
(* The captures are inductive.                                             *)
(***************************************************************************)

Undoable(e) == pc[e] \in Recorded \cup Remembered

\* What a thread has read of its GTT stands through a step that leaves status
\* and reservation alone and makes no owner forget what it has to give back.
LEMMA CaptureKept ==
  ASSUME NEW t \in Threads, CaptureStands(t), Capturing(t), ThreadStands(t),
         NEW g \in Gtts, g = my[t].gtt,
         gttStatus'[g] = gttStatus[g],
         gttStatus[g] = "active" => gttMargin'[g] = gttMargin[g],
         \A l \in Legs : Placed(l) => Placed(l)',
         \A e \in Evaluators : Firing(e) /\ my[e].gtt = g =>
           \/ Firing(e)' /\ my'[e].gtt = g
           \/ \E l \in Legs : Parent[l] = g /\ Placed(l),
         \A e \in Evaluators : Firing(e)' /\ my'[e].gtt = g /\ Undoable(e)' =>
           Firing(e) /\ my[e].gtt = g /\ Undoable(e) /\ GivesBack(e)' = GivesBack(e)
  PROVE  CaptureStands(t)'
<1>1. my'[t] = my[t]
  BY DEF ThreadStands
<1>2. my[t].gtt \in Gtts /\ gttStatus[g] # "none" /\ (gttStatus[g] = "active" => my[t].held = gttMargin[g])
  BY DEF CaptureStands
<1>3. gttStatus[g] = "triggered" =>
        \/ \E e \in Evaluators : Firing(e)' /\ my'[e].gtt = g
        \/ \E l \in Legs : Parent[l] = g /\ Placed(l)'
  BY DEF CaptureStands
<1>4. \A e \in Evaluators : Firing(e)' /\ my'[e].gtt = g /\ Undoable(e)' =>
        GivesBack(e)' = my[t].held
  BY DEF CaptureStands, Undoable
<1> QED
  BY <1>1, <1>2, <1>3, <1>4 DEF CaptureStands, Undoable

\* A step without a new reader keeps the captures when it keeps each of them.
LEMMA CapturesKept ==
  ASSUME Typed, Captures,
         \A t \in Threads : Capturing(t)' => Capturing(t) /\ ThreadStands(t),
         \A l \in Legs : Placed(l) => Placed(l)',
         \A e \in Evaluators : pc'[e] = "finalise" =>
           \/ pc[e] = "finalise" /\ my'[e] = my[e]
           \/ Placed(my[e].leg)' /\ my'[e] = my[e],
         \A t \in Threads : Capturing(t) /\ ThreadStands(t) => CaptureStands(t)'
  PROVE  Captures'
<1>1. OneCapture'
  BY DEF Captures, OneCapture
<1>2. FinalisesPlaced'
  <2> SUFFICES ASSUME NEW e \in Evaluators, pc'[e] = "finalise"
               PROVE  Placed(my[e].leg)' /\ my'[e] = my[e]
    BY DEF FinalisesPlaced
  <2>1. CASE pc[e] = "finalise" /\ my'[e] = my[e]
    <3>1. Placed(my[e].leg) /\ my[e].leg \in Legs
      BY <2>1, EvaluatorMoves DEF Captures, FinalisesPlaced
    <3> QED
      BY <2>1, <3>1
  <2> QED
    BY <2>1
<1>3. \A t \in Threads : CaptureStands(t)'
  BY DEF CaptureStands
<1> QED
  BY <1>1, <1>2, <1>3 DEF Captures


\* So the steps that touch neither status, reservation nor order keep them, when
\* the thread that moves neither reads, nor is an owner before or after.
LEMMA CapturesAside ==
  ASSUME Typed, Captures, NEW u \in Threads, Others(u), ~Capturing(u)', ~Firing(u), ~Firing(u)',
         gttStatus' = gttStatus, gttMargin' = gttMargin, order' = order
  PROVE  Captures'
<1>1. \A t \in Threads : t = u \/ ThreadStands(t)
  BY DEF Others, ThreadStands
<1>2. \A t \in Threads : Capturing(t)' => Capturing(t) /\ ThreadStands(t)
  BY <1>1 DEF Capturing, ThreadStands
<1>3. \A l \in Legs : Placed(l)' = Placed(l)
  BY DEF Placed
<1>4. ASSUME NEW e \in Evaluators, pc'[e] = "finalise"
      PROVE  pc[e] = "finalise" /\ my'[e] = my[e]
  <2>1. e \in Threads /\ e # u
    BY <1>4 DEF Threads, Firing, FirePcs
  <2> QED
    BY <1>1, <1>4, <2>1 DEF ThreadStands
<1>5. \A e \in Evaluators : Firing(e) \/ Firing(e)' => ThreadStands(e) /\ Firing(e) /\ Firing(e)'
  BY <1>1 DEF Threads, ThreadStands, Firing
<1>6. ASSUME NEW e \in Evaluators, ThreadStands(e)
      PROVE  my'[e] = my[e] /\ (Undoable(e)' = Undoable(e)) /\ (GivesBack(e)' = GivesBack(e))
  BY <1>6 DEF ThreadStands, Undoable, GivesBack
<1>7. ASSUME NEW t \in Threads, Capturing(t), ThreadStands(t)
      PROVE  CaptureStands(t)'
  <2>1. CaptureStands(t) /\ my[t].gtt \in Gtts
    BY <1>7 DEF Captures, CaptureStands
  <2>2. PICK g \in Gtts : g = my[t].gtt
    BY <2>1
  <2>3. \A e \in Evaluators : Firing(e) /\ my[e].gtt = g => Firing(e)' /\ my'[e].gtt = g
    BY <1>5, <1>6
  <2>4. \A e \in Evaluators : Firing(e)' /\ my'[e].gtt = g /\ Undoable(e)' =>
          Firing(e) /\ my[e].gtt = g /\ Undoable(e) /\ GivesBack(e)' = GivesBack(e)
    BY <1>5, <1>6
  <2> QED
    BY <1>3, <1>7, <2>1, <2>2, <2>3, <2>4, CaptureKept
<1> QED
  BY <1>2, <1>3, <1>4, <1>7, CapturesKept

\* And so does an owner that still owns its GTT, and would still give back as much.
LEMMA CapturesByOwner ==
  ASSUME Typed, Exclusion, Captures, NEW e \in Evaluators, Others(e), Firing(e), Firing(e)',
         ~Capturing(e)',
         NEW g \in Gtts, g = my[e].gtt, my'[e].gtt = g, gttStatus' = gttStatus,
         \A h \in Gtts : h # g => gttMargin'[h] = gttMargin[h],
         \A l \in Legs : Placed(l) => Placed(l)',
         pc'[e] = "finalise" => Placed(my[e].leg)' /\ my'[e] = my[e],
         Undoable(e)' => Undoable(e) /\ GivesBack(e)' = GivesBack(e)
  PROVE  Captures'
<1>0. e \in Threads /\ gttStatus[g] = "triggered"
  BY DEF Threads, Exclusion, OwnerHoldsParent
<1>1. \A t \in Threads : t = e \/ ThreadStands(t)
  BY DEF Others, ThreadStands
<1>2. \A t \in Threads : Capturing(t)' => Capturing(t) /\ ThreadStands(t)
  BY <1>1 DEF Capturing, ThreadStands
<1>3. \A f \in Evaluators : pc'[f] = "finalise" =>
        \/ pc[f] = "finalise" /\ my'[f] = my[f]
        \/ Placed(my[f].leg)' /\ my'[f] = my[f]
  BY <1>1 DEF ThreadStands, Threads
<1>4. \A f \in Evaluators : f # e => ThreadStands(f) /\ Firing(f)' = Firing(f)
  BY <1>1 DEF Threads, ThreadStands, Firing
<1>5. ASSUME NEW f \in Evaluators, f # e, Firing(f)
      PROVE  Undoable(f)' = Undoable(f) /\ GivesBack(f)' = GivesBack(f)
  <2>1. my[f].gtt # g /\ my[f].gtt \in Gtts
    BY <1>5, EvaluatorMoves DEF Exclusion, OneOwner, Firing, FirePcs
  <2> QED
    BY <1>4, <1>5, <2>1 DEF ThreadStands, Undoable, GivesBack
<1>6. ASSUME NEW t \in Threads, Capturing(t), ThreadStands(t)
      PROVE  CaptureStands(t)'
  <2>1. CaptureStands(t) /\ my[t].gtt \in Gtts
    BY <1>6 DEF Captures, CaptureStands
  <2>2. PICK h \in Gtts : h = my[t].gtt
    BY <2>1
  <2>3. gttStatus'[h] = gttStatus[h] /\ (gttStatus[h] = "active" => gttMargin'[h] = gttMargin[h])
    BY <1>0
  <2>4. \A f \in Evaluators : Firing(f) /\ my[f].gtt = h => Firing(f)' /\ my'[f].gtt = h
    BY <1>4 DEF ThreadStands
  <2>5. \A f \in Evaluators : Firing(f)' /\ my'[f].gtt = h /\ Undoable(f)' =>
          Firing(f) /\ my[f].gtt = h /\ Undoable(f) /\ GivesBack(f)' = GivesBack(f)
    BY <1>4, <1>5 DEF ThreadStands
  <2> QED
    BY <1>6, <2>1, <2>2, <2>3, <2>4, <2>5, CaptureKept
<1> QED
  BY <1>2, <1>3, <1>6, CapturesKept
\* After its commit nobody has read anything.
LEMMA CommitCaptures ==
  ASSUME Typed, Captures, NEW t \in Threads, Capturing(t), Others(t), pc'[t] = "idle",
         order' = order
  PROVE  Captures'
<1>1. \A u \in Threads : ~Capturing(u)'
  BY DEF Captures, OneCapture, Others, Capturing
<1>2. ASSUME NEW e \in Evaluators, pc'[e] = "finalise"
      PROVE  Placed(my[e].leg)' /\ my'[e] = my[e]
  <2>1. e \in Threads /\ e # t
    BY <1>2 DEF Threads
  <2> QED
    BY <1>2, <2>1 DEF Others, Captures, FinalisesPlaced, Placed
<1> QED
  BY <1>1, <1>2, CapturesKept DEF Placed, ThreadStands, Capturing

\* A read is of a GTT that rests, and finds what its row holds.
LEMMA ReadCaptures ==
  ASSUME Accounted, Typed, Exclusion, Captures, NEW t \in Requests \cup Sweepers,
         NEW g \in Gtts, NEW next \in {"modify", "cancel", "expire"}, ReadActive(t, g, next),
         NEW mine \in Locals, Keep(t, mine), mine.gtt = g, mine.held = gttMargin[g]
  PROVE  Captures'
<1>0. ThreadsOK /\ t \in Threads /\ t \notin Evaluators
  BY TypedParts, ThreadsAssumption DEF Threads
<1>1. next \in Pcs
  BY DEF Pcs, RequestPcs, SweeperPcs
<1>2. pc'[t] = next /\ my'[t] = mine /\ Others(t)
  BY <1>0, <1>1, OneMoves, OneKeeps DEF ReadActive, Others
<1>3. \A u \in Threads : ~Capturing(u)
  BY DEF ReadActive, RequestsApart, Accounted, Capturing
<1>4. /\ gttStatus[g] = "active" /\ gttStatus' = gttStatus /\ gttMargin' = gttMargin
      /\ order' = order
  BY DEF ReadActive, gtts, money
<1>5. \A u \in Threads : Capturing(u)' => u = t
  BY <1>2, <1>3 DEF Others, Capturing
<1>6. OneCapture'
  BY <1>5 DEF OneCapture
<1>7. FinalisesPlaced'
  <2> SUFFICES ASSUME NEW e \in Evaluators, pc'[e] = "finalise"
               PROVE  Placed(my[e].leg)' /\ my'[e] = my[e]
    BY DEF FinalisesPlaced
  <2>1. e \in Threads /\ e # t
    BY <1>0 DEF Threads
  <2> QED
    BY <1>2, <1>4, <2>1 DEF Others, Captures, FinalisesPlaced, Placed
<1>8. \A e \in Evaluators : Firing(e)' => my'[e].gtt # g
  <2> SUFFICES ASSUME NEW e \in Evaluators, Firing(e)'
               PROVE  my[e].gtt # g /\ my'[e] = my[e]
    OBVIOUS
  <2>1. e \in Threads /\ e # t
    BY <1>0 DEF Threads
  <2> QED
    BY <1>2, <1>4, <2>1 DEF Others, Firing, Exclusion, OwnerHoldsParent
<1>9. CaptureStands(t)'
  BY <1>2, <1>4, <1>8 DEF CaptureStands
<1>10. \A u \in Threads : CaptureStands(u)'
  BY <1>5, <1>9 DEF CaptureStands
<1> QED
  BY <1>6, <1>7, <1>10 DEF Captures

LEMMA RequestsCapture ==
  ASSUME Accounted, Typed, Exclusion, Captures, NEW r \in Requests, Call(r) \/ Serve(r)
  PROVE  Captures'
<1>0. ThreadsOK /\ RowsOK /\ r \in Threads /\ "idle" \in Pcs
  BY TypedParts DEF Threads, Pcs, EvaluatorPcs
<1>1. ASSUME NEW g \in Gtts, PlaceGtt(r, g)
      PROVE  Captures'
  <2>1. /\ pc' = pc /\ my' = my /\ order' = order
        /\ gttStatus[g] = "none" /\ gttStatus' = [gttStatus EXCEPT ![g] = "active"]
        /\ \A h \in Gtts : h # g => gttMargin'[h] = gttMargin[h]
    BY <1>0, <1>1 DEF PlaceGtt, RowsOK
  <2>2. /\ \A t \in Threads : ThreadStands(t) /\ (Capturing(t)' = Capturing(t))
        /\ \A l \in Legs : Placed(l)' = Placed(l)
    BY <2>1 DEF ThreadStands, Capturing, Placed
  <2>3. \A e \in Evaluators : Firing(e)' = Firing(e) /\ Undoable(e)' = Undoable(e)
    BY <2>1 DEF Firing, Undoable
  <2>4. ASSUME NEW t \in Threads, Capturing(t)
        PROVE  CaptureStands(t)'
    <3>1. CaptureStands(t) /\ my[t].gtt \in Gtts /\ gttStatus[my[t].gtt] # "none"
      BY <2>4 DEF Captures, CaptureStands
    <3>2. PICK h \in Gtts : h = my[t].gtt /\ h # g
      BY <2>1, <3>1
    <3>3. gttStatus'[h] = gttStatus[h] /\ gttMargin'[h] = gttMargin[h]
      BY <1>0, <2>1, <3>2 DEF RowsOK
    <3>4. \A e \in Evaluators : my[e].gtt = h => GivesBack(e)' = GivesBack(e)
      BY <2>1, <3>3 DEF GivesBack
    <3> QED
      BY <2>1, <2>2, <2>3, <2>4, <3>1, <3>2, <3>3, <3>4, CaptureKept
  <2> QED
    BY <2>1, <2>2, <2>4, CapturesKept
<1>2. ASSUME NEW g \in Gtts, ModifyRead(r, g)
      PROVE  Captures'
  <2>1. PICK m \in [LegsOf(g) -> Margins] :
          Keep(r, [Fresh EXCEPT !.gtt = g, !.held = gttMargin[g],
                             !.quote = [l \in Legs |-> IF Parent[l] = g THEN m[l] ELSE 0]])
    BY <1>2 DEF ModifyRead
  <2> DEFINE q == [l \in Legs |-> IF Parent[l] = g THEN m[l] ELSE 0]
             mine == [Fresh EXCEPT !.gtt = g, !.held = gttMargin[g], !.quote = q]
  <2>2. q \in [Legs -> Nat]
    BY MoneyAssumption DEF LegsOf
  <2> HIDE DEF q
  <2>3. mine \in Locals /\ mine.gtt = g /\ mine.held = gttMargin[g]
    BY <1>0, <2>2 DEF Fresh, Locals, RowsOK
  <2>4. Keep(r, mine)
    BY <2>1 DEF q
  <2> HIDE DEF mine
  <2> QED
    BY <1>2, <2>3, <2>4, ReadCaptures DEF ModifyRead
<1>3. ASSUME NEW g \in Gtts, CancelRead(r, g)
      PROVE  Captures'
  <2> DEFINE mine == [Fresh EXCEPT !.gtt = g, !.held = gttMargin[g]]
  <2>1. mine \in Locals /\ mine.gtt = g /\ mine.held = gttMargin[g]
    BY <1>0 DEF Fresh, Locals, RowsOK
  <2>2. Keep(r, mine)
    BY <1>3 DEF CancelRead
  <2> HIDE DEF mine
  <2> QED
    BY <1>3, <2>1, <2>2, ReadCaptures DEF CancelRead
<1>4. CASE ModifyCommit(r) \/ CancelCommit(r)
  <2>1. Capturing(r) /\ Return(r) /\ order' = order
    BY <1>4 DEF ModifyCommit, CancelCommit, Withdraw, Capturing
  <2>2. Others(r) /\ pc'[r] = "idle"
    BY <1>0, <2>1, OneMoves, OneKeeps DEF Return, Others
  <2> QED
    BY <1>0, <2>1, <2>2, CommitCaptures
<1> QED
  BY <1>1, <1>2, <1>3, <1>4 DEF Call, Serve

\* What an owner releases, blocks and records does not change what it gives back.
LEMMA InFireCaptures ==
  ASSUME Typed, Exclusion, Funding, Captures, NEW e \in Evaluators,
         \/ ReadReservation(e) \/ ReleaseReservation(e) \/ ReleaseFails(e)
         \/ OrderRefused(e) \/ OrderPriced(e) \/ InsertOrder(e) \/ BlockMargin(e)
         \/ Compensate(e) \/ PersistRestored(e) \/ PersistUnfunded(e)
  PROVE  Captures'
<1>0. RowsOK /\ ThreadsOK /\ my[e] \in Locals /\ e \in Threads /\ e \notin Sweepers
  BY TypedParts, EvaluatorMoves
<1>1. FirePcs \subseteq Pcs /\ FundedOwner(e)
  BY EvaluatorMoves DEF Funding
<1>2. gttStatus' = gttStatus
  BY DEF ReadReservation, ReleaseReservation, ReleaseFails, OrderRefused, OrderPriced,
         InsertOrder, BlockMargin, Compensate, PersistRestored, PersistUnfunded, gtts
<1>3. Firing(e) /\ pc[e] # "idle"
  BY DEF ReadReservation, ReleaseReservation, ReleaseFails, OrderRefused, OrderPriced,
         InsertOrder, BlockMargin, Compensate, PersistRestored, PersistUnfunded, Firing, FirePcs
<1>4. PICK g \in Gtts, l \in Legs : g = my[e].gtt /\ l = my[e].leg
  BY <1>3, EvaluatorMoves
<1>5. gttMargin[g] \in Nat /\ my[e].held \in Nat /\ my[e].ask \in Nat
  BY <1>0 DEF RowsOK, Locals
<1>6. \A h \in Gtts : h # g => gttMargin'[h] = gttMargin[h]
  BY <1>0, <1>4
  DEF ReadReservation, ReleaseReservation, ReleaseFails, OrderRefused, OrderPriced,
      InsertOrder, BlockMargin, Compensate, PersistRestored, PersistUnfunded, gtts, RowsOK
<1>7. \A k \in Legs : Placed(k) => Placed(k)'
  BY <1>0, <1>4, <1>5
  DEF ReadReservation, ReleaseReservation, ReleaseFails, OrderRefused, OrderPriced,
      InsertOrder, BlockMargin, Compensate, PersistRestored, PersistUnfunded, money, RowsOK,
      Placed, NoOrder
<1>8. ASSUME NEW next \in FirePcs \ {"finalise"}, pc'[e] = next, Others(e), my'[e].gtt = g,
             next \in Recorded \cup Remembered => Undoable(e) /\ GivesBack(e)' = GivesBack(e)
      PROVE  Captures'
  <2>1. Firing(e)' /\ ~Capturing(e)'
    BY <1>8 DEF Firing, FirePcs, Capturing
  <2> QED
    BY <1>2, <1>3, <1>4, <1>6, <1>7, <1>8, <2>1, CapturesByOwner DEF Undoable
<1>9. ASSUME my' = my, NEW next \in FirePcs, Goto(e, next)
      PROVE  pc'[e] = next /\ Others(e)
  BY <1>1, <1>9, EvaluatorMoves
<1>10. CASE \/ ReleaseFails(e) \/ OrderRefused(e) \/ BlockMargin(e) \/ ReleaseReservation(e)
            \/ PersistRestored(e) \/ PersistUnfunded(e)
  <2>1. my' = my
    BY <1>10 DEF ReleaseFails, OrderRefused, BlockMargin, ReleaseReservation,
                 PersistRestored, PersistUnfunded
  <2>2. CASE ReleaseFails(e)
    <3>1. pc'[e] = "revertParent" /\ Others(e) /\ pc[e] = "release" /\ gttMargin' = gttMargin
      BY <1>9, <2>1, <2>2 DEF ReleaseFails, FirePcs, gtts
    <3> QED
      BY <1>4, <1>8, <2>1, <3>1 DEF FirePcs, Undoable, Recorded, Remembered, GivesBack
  <2>3. CASE OrderRefused(e)
    <3>1. pc'[e] = "compensate" /\ Others(e) /\ pc[e] = "order"
      BY <1>9, <2>1, <2>3 DEF OrderRefused, FirePcs
    <3> QED
      BY <1>4, <1>8, <2>1, <3>1 DEF FirePcs, Undoable, Recorded, Remembered, GivesBack
  <2>4. CASE BlockMargin(e)
    <3>1. pc'[e] \in {"insert", "compensate", "restored", "unfunded"} /\ Others(e) /\ pc[e] = "block"
      BY <1>0, <1>9, <2>1, <2>4 DEF BlockMargin, FirePcs, Granted, Refused
    <3> QED
      BY <1>4, <1>8, <2>1, <3>1 DEF FirePcs, Undoable, Recorded, Remembered, GivesBack
  <2>5. CASE ReleaseReservation(e)
    <3>1. pc'[e] = "order" /\ Others(e) /\ pc[e] = "release"
      BY <1>9, <2>1, <2>5 DEF ReleaseReservation, FirePcs
    <3>2. my[e].held = gttMargin[g]
      BY <1>1, <1>3, <1>4, <3>1 DEF FundedOwner
    <3> QED
      BY <1>4, <1>8, <2>1, <3>1, <3>2 DEF FirePcs, Undoable, Recorded, Remembered, GivesBack
  <2>6. CASE PersistRestored(e)
    <3>1. pc'[e] = "revertParent" /\ Others(e) /\ pc[e] = "restored"
      BY <1>9, <2>1, <2>6 DEF PersistRestored, FirePcs
    <3>2. gttMargin'[g] = my[e].held
      BY <1>0, <1>4, <2>6 DEF PersistRestored, RowsOK
    <3> QED
      BY <1>4, <1>8, <2>1, <3>1, <3>2 DEF FirePcs, Undoable, Recorded, Remembered, GivesBack
  <2>7. CASE PersistUnfunded(e)
    <3>1. pc'[e] = "reject" /\ Others(e)
      BY <1>9, <2>1, <2>7 DEF PersistUnfunded, FirePcs
    <3> QED
      BY <1>4, <1>8, <2>1, <3>1 DEF FirePcs, Recorded, Remembered
  <2> QED
    BY <1>10, <2>2, <2>3, <2>4, <2>5, <2>6, <2>7
<1>11. CASE InsertOrder(e)
  <2>1. my' = my /\ pc[e] = "insert"
    BY <1>11 DEF InsertOrder
  <2>2. CASE Goto(e, "compensate")
    <3>1. pc'[e] = "compensate" /\ Others(e)
      BY <1>9, <2>1, <2>2 DEF FirePcs
    <3> QED
      BY <1>4, <1>8, <2>1, <3>1 DEF FirePcs, Undoable, Recorded, Remembered, GivesBack
  <2>3. CASE Goto(e, "finalise") /\ order' = [order EXCEPT ![l] = my[e].ask]
    <3>1. pc'[e] = "finalise" /\ Others(e)
      BY <1>9, <2>1, <2>3 DEF FirePcs
    <3>2. Placed(l)'
      BY <1>0, <1>5, <2>3 DEF Placed, NoOrder, RowsOK
    <3>3. Firing(e)' /\ ~Capturing(e)' /\ ~Undoable(e)'
      BY <3>1 DEF Firing, FirePcs, Capturing, Undoable, Recorded, Remembered
    <3> QED
      BY <1>2, <1>3, <1>4, <1>6, <1>7, <2>1, <3>1, <3>2, <3>3, CapturesByOwner
  <2> QED
    BY <1>4, <1>11, <2>2, <2>3 DEF InsertOrder
<1>12. CASE ReadReservation(e)
  <2> DEFINE mine == [my[e] EXCEPT !.held = gttMargin[g]]
  <2>1. mine \in Locals /\ mine.held = gttMargin[g] /\ mine.gtt = g
    BY <1>0, <1>4, <1>5 DEF Locals
  <2>2. Keep(e, mine) /\ Goto(e, IF gttMargin[g] > 0 THEN "release" ELSE "order")
    BY <1>4, <1>12 DEF ReadReservation
  <2> HIDE DEF mine
  <2>3. pc'[e] \in {"release", "order"} /\ my'[e] = mine /\ Others(e)
    BY <1>1, <2>1, <2>2, EvaluatorMoves DEF FirePcs
  <2>4. gttMargin' = gttMargin /\ pc[e] = "owner"
    BY <1>12 DEF ReadReservation, gtts
  <2> QED
    BY <1>4, <1>8, <2>1, <2>3, <2>4 DEF FirePcs, Undoable, Recorded, Remembered, GivesBack
<1>13. CASE OrderPriced(e)
  <2>1. PICK m \in Margins \cup {0} :
          Keep(e, [my[e] EXCEPT !.ask = m]) /\ Goto(e, IF m > 0 THEN "block" ELSE "insert")
    BY <1>13 DEF OrderPriced
  <2> DEFINE mine == [my[e] EXCEPT !.ask = m]
  <2>2. mine \in Locals /\ mine.held = my[e].held /\ mine.gtt = g
    BY <1>0, <1>4, MoneyAssumption DEF Locals
  <2>3. pc[e] = "order"
    BY <1>13 DEF OrderPriced
  <2> HIDE DEF mine
  <2>4. pc'[e] \in {"block", "insert"} /\ my'[e] = mine /\ Others(e)
    BY <1>1, <2>1, <2>2, EvaluatorMoves DEF FirePcs, mine
  <2> QED
    BY <1>4, <1>8, <2>2, <2>3, <2>4 DEF FirePcs, Undoable, Recorded, Remembered, GivesBack
<1>14. CASE Compensate(e)
  <2> DEFINE mine == [my[e] EXCEPT !.undo = TRUE, !.ask = my[e].held]
  <2>1. mine \in Locals /\ mine.held = my[e].held /\ mine.gtt = g
    BY <1>0, <1>4, <1>5 DEF Locals
  <2>2. Keep(e, mine) /\ Goto(e, IF my[e].held > 0 THEN "block" ELSE "revertParent")
    BY <1>14 DEF Compensate
  <2>3. pc[e] = "compensate" /\ gttMargin' = gttMargin
    BY <1>14 DEF Compensate, gtts
  <2> HIDE DEF mine
  <2>4. /\ pc'[e] = IF my[e].held > 0 THEN "block" ELSE "revertParent"
        /\ my'[e] = mine /\ Others(e)
    BY <1>1, <2>1, <2>2, EvaluatorMoves DEF FirePcs
  <2>5. gttMargin[g] = 0
    BY <1>1, <1>3, <1>4, <2>3 DEF FundedOwner, Recorded
  <2> QED
    BY <1>4, <1>5, <1>8, <2>1, <2>3, <2>4, <2>5 DEF FirePcs, Undoable, Recorded, Remembered, GivesBack
<1> QED
  BY <1>10, <1>11, <1>12, <1>13, <1>14
\* A step of one thread that writes one GTT keeps what is read of the others.
LEMMA CapturesBeside ==
  ASSUME Typed, Exclusion, Captures, NEW u \in Threads, Others(u), ~Capturing(u)',
         pc'[u] # "finalise",
         NEW g \in Gtts, Firing(u) => my[u].gtt = g, Firing(u)' => my'[u].gtt = g,
         order' = order,
         \A h \in Gtts : h # g => gttStatus'[h] = gttStatus[h] /\ gttMargin'[h] = gttMargin[h],
         \A t \in Threads : Capturing(t) /\ my[t].gtt = g /\ ThreadStands(t) => CaptureStands(t)'
  PROVE  Captures'
<1>1. \A t \in Threads : t = u \/ ThreadStands(t)
  BY DEF Others, ThreadStands
<1>2. \A t \in Threads : Capturing(t)' => Capturing(t) /\ ThreadStands(t)
  BY <1>1 DEF Capturing, ThreadStands
<1>3. \A l \in Legs : Placed(l)' = Placed(l)
  BY DEF Placed
<1>4. \A f \in Evaluators : pc'[f] = "finalise" => pc[f] = "finalise" /\ my'[f] = my[f]
  BY <1>1 DEF ThreadStands, Threads
<1>5. ASSUME NEW f \in Evaluators, f # u
      PROVE  ThreadStands(f) /\ Firing(f)' = Firing(f) /\ Undoable(f)' = Undoable(f)
  BY <1>1, <1>5 DEF Threads, ThreadStands, Firing, Undoable
<1>6. ASSUME NEW t \in Threads, Capturing(t), ThreadStands(t)
      PROVE  CaptureStands(t)'
  <2>1. CaptureStands(t) /\ my[t].gtt \in Gtts
    BY <1>6 DEF Captures, CaptureStands
  <2>2. PICK h \in Gtts : h = my[t].gtt
    BY <2>1
  <2>3. CASE h # g
    <3>1. \A f \in Evaluators : Firing(f) /\ my[f].gtt = h => Firing(f)' /\ my'[f].gtt = h
      BY <1>5, <2>3 DEF ThreadStands
    <3>2. \A f \in Evaluators : Firing(f)' /\ my'[f].gtt = h /\ Undoable(f)' =>
            Firing(f) /\ my[f].gtt = h /\ Undoable(f) /\ GivesBack(f)' = GivesBack(f)
      BY <1>5, <2>3 DEF ThreadStands, GivesBack
    <3> QED
      BY <1>3, <1>6, <2>1, <2>2, <2>3, <3>1, <3>2, CaptureKept
  <2> QED
    BY <1>6, <2>2, <2>3
<1> QED
  BY <1>2, <1>3, <1>4, <1>6, CapturesKept

\* Before its GTT is triggered, and after the fire, an evaluator changes nothing
\* that was read; when it claims the parent it will give back what the row holds.
LEMMA BesideFireCaptures ==
  ASSUME Typed, Exclusion, Captures, NEW e \in Evaluators,
         (\E l \in Legs : Claim(e, l)) \/ CheckLeg(e) \/ RevertClaim(e) \/ ClaimParent(e)
  PROVE  Captures'
<1>0. RowsOK /\ e \in Threads
  BY TypedParts DEF Threads
<1>1. {"idle", "claimed", "checked", "revertClaim", "owner"} \subseteq Pcs
  BY EvaluatorMoves DEF EvaluatorPcs, FirePcs
<1>2. ~Firing(e)
  BY DEF Claim, CheckLeg, RevertClaim, ClaimParent, Firing, FirePcs
<1>3. gttMargin' = gttMargin /\ order' = order
  BY DEF Claim, CheckLeg, RevertClaim, ClaimParent, gtts, money
<1>4. ASSUME Others(e), pc'[e] \in {"idle", "claimed", "checked", "revertClaim"},
             gttStatus' = gttStatus
      PROVE  Captures'
  <2>1. ~Firing(e)' /\ ~Capturing(e)'
    BY <1>4 DEF Firing, FirePcs, Capturing
  <2> QED
    BY <1>0, <1>2, <1>3, <1>4, <2>1, CapturesAside
<1>5. CASE \E l \in Legs : Claim(e, l)
  <2>1. PICK l \in Legs : Claim(e, l)
    BY <1>5
  <2> DEFINE mine == [Fresh EXCEPT !.leg = l, !.gtt = Parent[l]]
  <2>2. mine \in Locals
    BY LegsAssumption DEF Fresh, Locals
  <2>3. Goto(e, "claimed") /\ Keep(e, mine) /\ gttStatus' = gttStatus
    BY <2>1 DEF Claim, gtts
  <2> HIDE DEF mine
  <2> QED
    BY <1>1, <1>4, <2>2, <2>3, EvaluatorMoves
<1>6. CASE CheckLeg(e) \/ RevertClaim(e)
  <2>1. CASE Return(e)
    BY <1>1, <1>4, <1>6, <2>1, FreshIsTyped, EvaluatorMoves
    DEF Return, CheckLeg, RevertClaim, gtts
  <2>2. CASE CheckLeg(e) /\ Goto(e, "checked") /\ my' = my
    BY <1>1, <1>4, <2>2, EvaluatorMoves DEF CheckLeg, gtts
  <2> QED
    BY <1>6, <2>1, <2>2 DEF CheckLeg, RevertClaim
<1>7. CASE ClaimParent(e)
  <2>1. PICK g \in Gtts : g = my[e].gtt
    BY <1>7, EvaluatorMoves DEF ClaimParent
  <2>2. my' = my
    BY <1>7 DEF ClaimParent
  <2>3. CASE Goto(e, "revertClaim") /\ gttStatus' = gttStatus
    BY <1>1, <1>4, <2>2, <2>3, EvaluatorMoves
  <2>4. CASE /\ Goto(e, "owner") /\ gttStatus[g] = "active"
             /\ gttStatus' = [gttStatus EXCEPT ![g] = "triggered"]
    <3>1. pc'[e] = "owner" /\ Others(e)
      BY <1>1, <2>2, <2>4, EvaluatorMoves
    <3>2. Firing(e)' /\ ~Capturing(e)' /\ Undoable(e)' /\ GivesBack(e)' = gttMargin[g]
      BY <1>3, <2>1, <2>2, <3>1 DEF Firing, FirePcs, Capturing, Undoable, Recorded, GivesBack
    <3>3. /\ gttStatus'[g] = "triggered"
          /\ \A h \in Gtts : h # g => gttStatus'[h] = gttStatus[h]
      BY <1>0, <2>4 DEF RowsOK
    <3>4. \A f \in Evaluators : Firing(f)' /\ my'[f].gtt = g => f = e
      <4> SUFFICES ASSUME NEW f \in Evaluators, Firing(f)', my[f].gtt = g, f # e
                   PROVE  FALSE
        BY <2>2
      <4>1. Firing(f)
        BY <3>1 DEF Firing, Others, Threads
      <4> QED
        BY <2>4, <4>1 DEF Exclusion, OwnerHoldsParent
    <3>5. ASSUME NEW t \in Threads, Capturing(t), my[t].gtt = g, ThreadStands(t)
          PROVE  CaptureStands(t)'
      <4>1. my[t].held = gttMargin[g]
        BY <2>4, <3>5 DEF Captures, CaptureStands
      <4>2. my'[t] = my[t]
        BY <3>5 DEF ThreadStands
      <4>3. my'[e].gtt = g
        BY <2>1, <2>2
      <4> QED
        BY <3>2, <3>3, <3>4, <3>5, <4>1, <4>2, <4>3 DEF CaptureStands
    <3> QED
      BY <1>0, <1>2, <1>3, <2>1, <2>2, <3>1, <3>2, <3>3, <3>5, CapturesBeside
  <2> QED
    BY <1>7, <2>1, <2>3, <2>4 DEF ClaimParent
<1> QED
  BY <1>5, <1>6, <1>7

\* At its end the fire has placed an order, or its undoing has rejected the GTT
\* or given back what was read of it.
LEMMA FireEndCaptures ==
  ASSUME Typed, Exclusion, Funding, Captures, NEW e \in Evaluators,
         Finalise(e) \/ FinaliseFails(e) \/ RejectGtt(e) \/ RevertParent(e)
  PROVE  Captures'
<1>0. RowsOK /\ e \in Threads
  BY TypedParts DEF Threads
<1>1. {"idle", "revertClaim"} \subseteq Pcs
  BY EvaluatorMoves DEF EvaluatorPcs
<1>2. Firing(e) /\ pc[e] # "idle"
  BY DEF Finalise, FinaliseFails, RejectGtt, RevertParent, Firing, FirePcs
<1>3. gttMargin' = gttMargin /\ order' = order
  BY DEF Finalise, FinaliseFails, RejectGtt, RevertParent, gtts, money
<1>4. Others(e) /\ pc'[e] \in {"idle", "revertClaim"}
  <2>1. CASE Finalise(e) \/ FinaliseFails(e)
    BY <1>1, <2>1, FreshIsTyped, EvaluatorMoves DEF Finalise, FinaliseFails, Return
  <2>2. CASE RejectGtt(e) \/ RevertParent(e)
    BY <1>1, <2>2, EvaluatorMoves DEF RejectGtt, RevertParent
  <2> QED
    BY <2>1, <2>2
<1>5. ~Firing(e)' /\ ~Capturing(e)' /\ pc'[e] # "finalise"
  BY <1>4 DEF Firing, FirePcs, Capturing
<1>6. PICK g \in Gtts, l \in Legs : g = my[e].gtt /\ l = my[e].leg /\ Parent[l] = g
  BY <1>2, EvaluatorMoves
<1>7. \A f \in Evaluators : Firing(f)' => my'[f].gtt # g
  <2> SUFFICES ASSUME NEW f \in Evaluators, Firing(f)', f # e
               PROVE  my[f].gtt # g /\ my'[f] = my[f]
    BY <1>5
  <2>1. Firing(f) /\ my'[f] = my[f]
    BY <1>4 DEF Firing, Others, Threads
  <2> QED
    BY <1>2, <1>6, <2>1 DEF Exclusion, OneOwner
<1>8. gttStatus[g] = "triggered"
  BY <1>2, <1>6 DEF Exclusion, OwnerHoldsParent
<1>9. \A h \in Gtts : h # g => gttStatus'[h] = gttStatus[h]
  BY <1>0, <1>6 DEF Finalise, FinaliseFails, RejectGtt, RevertParent, gtts, RowsOK
<1>10. ASSUME NEW t \in Threads, Capturing(t), my[t].gtt = g, ThreadStands(t)
       PROVE  CaptureStands(t)'
  <2>1. my'[t] = my[t] /\ CaptureStands(t)
    BY <1>10 DEF ThreadStands, Captures
  <2>2. CASE Finalise(e) \/ FinaliseFails(e)
    <3>1. gttStatus' = gttStatus
      BY <2>2 DEF Finalise, FinaliseFails, gtts
    <3>2. Placed(l)'
      BY <1>3, <1>6, <2>2 DEF Finalise, FinaliseFails, Captures, FinalisesPlaced, Placed
    <3> QED
      BY <1>6, <1>7, <1>8, <1>10, <2>1, <3>1, <3>2 DEF CaptureStands
  <2>3. CASE RejectGtt(e)
    <3>1. gttStatus'[g] = "rejected"
      BY <1>0, <1>6, <2>3 DEF RejectGtt, RowsOK
    <3> QED
      BY <1>7, <1>10, <2>1, <3>1 DEF CaptureStands
  <2>4. CASE RevertParent(e)
    <3>1. gttStatus'[g] = "active"
      BY <1>0, <1>6, <1>8, <2>4 DEF RevertParent, RowsOK
    <3>2. my[t].held = gttMargin[g]
      BY <1>2, <1>6, <1>10, <2>1, <2>4 DEF RevertParent, CaptureStands, Recorded, GivesBack
    <3> QED
      BY <1>3, <1>7, <1>10, <2>1, <3>1, <3>2 DEF CaptureStands
  <2> QED
    BY <2>2, <2>3, <2>4
<1> QED
  BY <1>0, <1>3, <1>4, <1>5, <1>6, <1>9, <1>10, CapturesBeside

LEMMA EvaluatorsCapture ==
  ASSUME Typed, Exclusion, Funding, Captures, NEW e \in Evaluators,
         Fire(e) \/ \E l \in Legs : Claim(e, l)
  PROVE  Captures'
BY BesideFireCaptures, InFireCaptures, FireEndCaptures DEF Fire

\* A sweep puts right only what nobody can have read: an interrupted fire.
LEMMA PuttingRightCaptures ==
  ASSUME Typed, Exclusion, Captures, NEW s \in Sweepers, Rearm(s) \/ SweepRejects(s)
  PROVE  Captures'
<1>0. RowsOK /\ s \in Threads
  BY TypedParts DEF Threads
<1>1. s \notin Evaluators /\ Sweeping(s) /\ Inspected(s)
  BY SweeperMoves DEF Rearm, SweepRejects, Sweeping, SweepPcs, Inspected
<1>2. PICK g \in Gtts : g = my[s].gtt
  BY SweeperMoves DEF Rearm, SweepRejects
<1>3. /\ gttStatus[g] = "triggered"
      /\ \A e \in Evaluators : Firing(e) => my[e].gtt # g
      /\ \A l \in Legs : Parent[l] = g => ~Placed(l)
  BY <1>1, <1>2 DEF Exclusion, SweepsOwnerless, SweepsUnplaced
<1>4. pc'[s] = "sweep" /\ Others(s)
  BY NextIsTyped DEF Rearm, SweepRejects
<1>5. ~Firing(s) /\ ~Firing(s)' /\ ~Capturing(s)' /\ pc'[s] # "finalise" /\ order' = order
  BY <1>1, <1>4 DEF Firing, Capturing, Rearm, SweepRejects, money
<1>6. \A h \in Gtts : h # g => gttMargin'[h] = gttMargin[h] /\ gttStatus'[h] = gttStatus[h]
  BY <1>0, <1>2 DEF Rearm, SweepRejects, RowsOK
<1>7. \A t \in Threads : Capturing(t) => my[t].gtt # g
  BY <1>3 DEF Captures, CaptureStands
<1> QED
  BY <1>0, <1>4, <1>5, <1>6, <1>7, CapturesBeside

LEMMA SweepersCapture ==
  ASSUME Accounted, Typed, Exclusion, Captures, NEW s \in Sweepers,
         Reclaim(s) \/ ExpireCommit(s) \/ \E g \in Gtts : ExpireRead(s, g)
  PROVE  Captures'
<1>0. ThreadsOK /\ RowsOK /\ s \in Threads /\ s \notin Evaluators /\ my[s] \in Locals
  BY TypedParts, SweeperMoves
<1>1. {"idle", "stranded", "sweep", "block", "rearm", "sweepReject"} \subseteq Pcs
  BY SweeperMoves DEF SweeperPcs, SweepPcs
<1>2. ASSUME Others(s), pc'[s] \in {"idle", "stranded", "sweep", "block", "rearm", "sweepReject"},
             UNCHANGED gtts, order' = order
      PROVE  Captures'
  <2>1. ~Firing(s) /\ ~Firing(s)' /\ ~Capturing(s)'
    BY <1>0, <1>2 DEF Firing, Capturing
  <2> QED
    BY <1>0, <1>2, <2>1, CapturesAside DEF gtts
<1>3. ASSUME NEW next \in {"idle", "stranded", "sweep", "block", "rearm", "sweepReject"},
             Goto(s, next), UNCHANGED gtts, order' = order,
             my' = my \/ \E mine \in Locals : Keep(s, mine)
      PROVE  Captures'
  BY <1>1, <1>2, <1>3, SweeperMoves
<1>4. CASE ReclaimLegs(s)
  BY <1>3, <1>4 DEF ReclaimLegs, money
<1>5. CASE QueryStranded(s)
  <2>1. [Fresh EXCEPT !.todo = {g \in Gtts : gttStatus[g] = "triggered"}] \in Locals
    BY DEF Fresh, Locals
  <2> QED
    BY <1>3, <1>5, <2>1 DEF QueryStranded, money
<1>6. CASE SweepDone(s)
  BY <1>3, <1>6, FreshIsTyped DEF SweepDone, Return, money
<1>7. ASSUME NEW g \in Gtts, SweepSkips(s, g) \/ SweepFinalises(s, g)
      PROVE  Captures'
  <2>1. /\ pc' = pc /\ pc[s] = "sweep" /\ UNCHANGED gtts /\ order' = order
        /\ Keep(s, [my[s] EXCEPT !.todo = @ \ {g}])
    BY <1>7 DEF SweepSkips, SweepFinalises, money
  <2>2. Others(s)
    BY <1>0, <2>1, OneKeeps DEF Others
  <2> QED
    BY <1>2, <2>1, <2>2
<1>8. ASSUME NEW g \in Gtts, SweepInspects(s, g)
      PROVE  Captures'
  <2> DEFINE mine == [my[s] EXCEPT !.todo = @ \ {g}, !.gtt = g, !.held = gttMargin[g],
                         !.ask = IF gttMargin[g] > 0 THEN 0 ELSE Larger(g, legMargin)]
  <2>1. gttMargin[g] \in Nat /\ Larger(g, legMargin) \in Nat
    BY <1>0, LargerIsMaximum DEF RowsOK, LegsOf
  <2>2. mine \in Locals
    BY <1>0, <2>1 DEF Locals
  <2>3. /\ Keep(s, mine) /\ Goto(s, IF gttMargin[g] > 0 THEN "rearm" ELSE "block")
        /\ UNCHANGED gtts /\ order' = order
    BY <1>8 DEF SweepInspects, money
  <2> HIDE DEF mine
  <2> QED
    BY <1>3, <2>2, <2>3
<1>9. CASE BlockMargin(s)
  <2>1. PICK next \in {"rearm", "sweepReject"} : Goto(s, next)
    BY <1>9 DEF BlockMargin, Granted, Refused
  <2> QED
    BY <1>3, <1>9, <2>1 DEF BlockMargin
<1>10. CASE ExpireCommit(s)
  <2>1. Capturing(s) /\ Return(s) /\ order' = order
    BY <1>10 DEF ExpireCommit, Withdraw, Capturing
  <2>2. Others(s) /\ pc'[s] = "idle"
    BY <1>0, <1>1, <2>1, OneMoves, OneKeeps DEF Return, Others
  <2> QED
    BY <1>0, <2>1, <2>2, CommitCaptures
<1>11. ASSUME NEW g \in Gtts, ExpireRead(s, g)
       PROVE  Captures'
  <2> DEFINE mine == [Fresh EXCEPT !.gtt = g, !.held = gttMargin[g]]
  <2>1. mine \in Locals /\ mine.gtt = g /\ mine.held = gttMargin[g]
    BY <1>0 DEF Fresh, Locals, RowsOK
  <2>2. Keep(s, mine)
    BY <1>11 DEF ExpireRead
  <2> HIDE DEF mine
  <2> QED
    BY <1>11, <2>1, <2>2, ReadCaptures DEF ExpireRead
<1> QED
  BY <1>4, <1>5, <1>6, <1>7, <1>8, <1>9, <1>10, <1>11, PuttingRightCaptures DEF Reclaim

\* A crash leaves no reader behind.
LEMMA WorldCaptures ==
  ASSUME Typed, Captures,
         \/ \E l \in Legs : ClaimAges(l)
         \/ \E g \in Gtts : FallsDue(g)
         \/ Crash
         \/ UNCHANGED vars
  PROVE  Captures'
<1>1. CASE Crash
  <2>1. \A t \in Threads : ~Capturing(t)'
    BY <1>1 DEF Crash, Capturing
  <2>2. \A e \in Evaluators : pc'[e] # "finalise"
    BY <1>1 DEF Crash, Threads
  <2> QED
    BY <2>1, <2>2 DEF Captures, OneCapture, FinalisesPlaced, CaptureStands
<1>2. CASE UNCHANGED <<pc, my, gttStatus, gttMargin, order>>
  BY <1>2 DEF Captures, OneCapture, FinalisesPlaced, CaptureStands, Capturing, Firing, Placed,
              GivesBack
<1> QED
  BY <1>1, <1>2 DEF ClaimAges, FallsDue, vars, gtts, money

LEMMA InitCaptures == Init => Captures
BY DEF Init, Threads, Captures, OneCapture, FinalisesPlaced, CaptureStands, Capturing

LEMMA NextCaptures ==
  ASSUME Accounted
  PROVE  Typed /\ Exclusion /\ Funding /\ Captures /\ [Next]_vars => Captures'
<1>1. ~\E t \in Threads : DatabaseFails(t)
  BY DEF Accounted, Repairable, DatabaseFails
<1> QED
  BY <1>1, RequestsCapture, EvaluatorsCapture, SweepersCapture, WorldCaptures
  DEF Next, Step, Fault

THEOREM CapturesHold == Accounted => (Spec => [](Typed /\ Exclusion /\ Funding /\ Captures))
<1> SUFFICES ASSUME Accounted
             PROVE  Spec => [](Typed /\ Exclusion /\ Funding /\ Captures)
  OBVIOUS
<1>1. Repairable
  BY DEF Accounted
<1>2. Spec => [](Typed /\ Exclusion /\ Funding)
  BY <1>1, FundingHolds
<1>3. Init => Captures
  BY InitCaptures
<1>4. Typed /\ Exclusion /\ Funding /\ Captures /\ [Next]_vars => Captures'
  BY NextCaptures
<1> QED
  BY <1>2, <1>3, <1>4, PTL DEF Spec

\* The comment of cancel_gtt, "if our UPDATE matches then this value was still
\* current", is true when modify, cancel and expire do not overlap: a fire that
\* ran between the read and the UPDATE has given back what was read.
THEOREM CaptureIsCurrent == Accounted => (Spec => []CapturedIsCurrent)
<1> SUFFICES ASSUME Accounted
             PROVE  Spec => []CapturedIsCurrent
  OBVIOUS
<1>1. Spec => [](Typed /\ Exclusion /\ Funding /\ Captures)
  BY CapturesHold
<1>2. Captures => CapturedIsCurrent
  BY DEF Captures, CaptureStands, Capturing, CapturedIsCurrent
<1> QED
  BY <1>1, <1>2, PTL
-----------------------------------------------------------------------------
(***************************************************************************)
(* The ledger is the sum of what the rows hold.                            *)
(***************************************************************************)

HeldByGtts == SumFunctionOnSet(gttMargin, Gtts)
HeldByOrders == SumFunctionOnSet(order, {l \in Legs : Placed(l)})
UnderWay == SumFunctionOnSet(Blocked, Threads)

LEMMA InFlightIsNat ==
  ASSUME Typed, NEW t \in Threads
  PROVE  InFlight(t) \in Nat /\ Blocked[t] = InFlight(t)
BY TypedParts DEF ThreadsOK, Locals, InFlight, Blocked

LEMMA InFlightIsNatNext ==
  ASSUME Typed', NEW t \in Threads
  PROVE  InFlight(t)' \in Nat /\ Blocked'[t] = InFlight(t)'
BY DEF Typed, TypeOK, Locals, InFlight, Blocked

LEMMA PartsAreInt ==
  ASSUME Typed
  PROVE  HeldByGtts \in Int /\ HeldByOrders \in Int /\ UnderWay \in Int
<1>0. RowsOK
  BY TypedParts
<1>1. HeldByGtts \in Int
  <2>1. \A g \in Gtts : gttMargin[g] \in Int
    BY <1>0 DEF RowsOK
  <2> QED
    BY <2>1, FiniteAssumption, SumIsInt DEF HeldByGtts
<1>2. HeldByOrders \in Int
  <2>1. IsFiniteSet({l \in Legs : Placed(l)})
    BY FiniteAssumption, FS_Subset
  <2>2. \A l \in {k \in Legs : Placed(k)} : order[l] \in Int
    BY <1>0 DEF RowsOK, NoOrder
  <2> QED
    BY <2>1, <2>2, SumIsInt DEF HeldByOrders
<1>3. UnderWay \in Int
  <2>1. \A t \in Threads : Blocked[t] \in Int
    BY InFlightIsNat
  <2> QED
    BY <2>1, FiniteAssumption, SumIsInt DEF UnderWay
<1> QED
  BY <1>1, <1>2, <1>3

\* A commit to one row of sandbox_gtt.
LEMMA HeldByGttsMoves ==
  ASSUME Typed, NEW g \in Gtts, gttMargin'[g] \in Nat,
         \A h \in Gtts \ {g} : gttMargin'[h] = gttMargin[h]
  PROVE  HeldByGtts' = HeldByGtts + gttMargin'[g] - gttMargin[g]
<1>1. \A h \in Gtts : gttMargin[h] \in Int
  BY TypedParts DEF RowsOK
<1>2. gttMargin'[g] \in Int
  OBVIOUS
<1>3. SumFunctionOnSet(gttMargin', Gtts)
        = SumFunctionOnSet(gttMargin, Gtts) + gttMargin'[g] - gttMargin[g]
  BY <1>1, <1>2, FiniteAssumption, SumMovesWithOne
<1> QED
  BY <1>3 DEF HeldByGtts

\* The INSERT of an order.
LEMMA HeldByOrdersGains ==
  ASSUME Typed, NEW l \in Legs, ~Placed(l), NEW m \in Nat, order' = [order EXCEPT ![l] = m]
  PROVE  HeldByOrders' = HeldByOrders + m
<1> DEFINE S == {k \in Legs : Placed(k)}
<1>1. order \in [Legs -> Nat \cup {NoOrder}]
  BY TypedParts DEF RowsOK
<1>2. order'[l] = m /\ \A k \in Legs : k # l => order'[k] = order[k]
  BY <1>1
<1>3. {k \in Legs : Placed(k)}' = S \cup {l} /\ l \notin S
  BY <1>2 DEF Placed, NoOrder
<1>4. IsFiniteSet(S)
  BY FiniteAssumption, FS_Subset
<1>5. \A k \in S : order[k] \in Int /\ order'[k] = order[k]
  BY <1>1, <1>2, <1>3 DEF NoOrder
<1>6. \A k \in S \cup {l} : order'[k] \in Int
  BY <1>2, <1>5
<1> HIDE DEF S
<1>7. SumFunctionOnSet(order', S \cup {l}) = SumFunctionOnSet(order', S) + m
  <2>1. l \notin S /\ order'[l] = m
    BY <1>2, <1>3
  <2>2. \A f : (\A k \in S \cup {l} : f[k] \in Int) =>
          SumFunctionOnSet(f, S \cup {l}) = SumFunctionOnSet(f, S) + f[l]
    BY <1>4, <2>1, SumGainsOne
  <2> QED
    BY <1>6, <2>1, <2>2
<1>8. SumFunctionOnSet(order', S) = SumFunctionOnSet(order, S)
  BY <1>4, <1>5, SumOfSame
<1> QED
  BY <1>3, <1>7, <1>8 DEF HeldByOrders, S

\* What one thread blocks and writes.
LEMMA UnderWayMoves ==
  ASSUME Typed, Typed', NEW t \in Threads, Others(t)
  PROVE  UnderWay' = UnderWay + InFlight(t)' - InFlight(t)
<1>1. \A u \in Threads : Blocked[u] = InFlight(u) /\ Blocked[u] \in Int
  BY InFlightIsNat
<1>2. \A u \in Threads : Blocked'[u] = InFlight(u)' /\ Blocked'[u] \in Int
  BY InFlightIsNatNext
<1>3. \A u \in Threads \ {t} : Blocked'[u] = Blocked[u]
  BY <1>1, <1>2 DEF Others, InFlight
<1>4. SumFunctionOnSet(Blocked', Threads) = SumFunctionOnSet(Blocked, Threads) + Blocked'[t] - Blocked[t]
  BY <1>1, <1>2, <1>3, FiniteAssumption, SumMovesWithOne
<1> QED
  BY <1>1, <1>2, <1>4 DEF UnderWay

\* A step of one thread that writes no order is exact when the balance moves
\* with the row and with what is under way.
LEMMA ExactByOne ==
  ASSUME Typed, Typed', Exact, NEW t \in Threads, Others(t),
         NEW m \in Int, HeldByGtts' = HeldByGtts + m, order' = order, leaked' = leaked,
         funds'.used = funds.used + m + (InFlight(t)' - InFlight(t))
  PROVE  Exact'
<1>1. HeldByGtts \in Int /\ HeldByOrders \in Int /\ UnderWay \in Int
  BY PartsAreInt
<1>2. HeldByOrders' = HeldByOrders
  BY DEF HeldByOrders, Placed
<1>3. UnderWay' = UnderWay + (InFlight(t)' - InFlight(t))
  <2>1. InFlight(t) \in Int /\ InFlight(t)' \in Int
    BY InFlightIsNat, InFlightIsNatNext
  <2> QED
    BY <1>1, <2>1, UnderWayMoves
<1>4. InFlight(t)' - InFlight(t) \in Int /\ funds.used \in Int /\ leaked \in Nat
  BY InFlightIsNat, InFlightIsNatNext, TypedParts DEF RowsOK, Exact
<1>5. funds.used = HeldByGtts + HeldByOrders + UnderWay + leaked
  BY DEF Exact, LedgerExact, Reserved, HeldByGtts, HeldByOrders, UnderWay
<1>6. funds'.used = HeldByGtts' + HeldByOrders' + UnderWay' + leaked'
  BY <1>1, <1>2, <1>3, <1>4, <1>5
<1> QED
  BY <1>4, <1>6 DEF Exact, LedgerExact, Reserved, HeldByGtts, HeldByOrders, UnderWay

\* Most steps move no money.
LEMMA ExactAside ==
  ASSUME Typed, Typed', Exact, NEW t \in Threads, Others(t), InFlight(t)' = InFlight(t),
         gttMargin' = gttMargin, UNCHANGED money
  PROVE  Exact'
<1>1. HeldByGtts' = HeldByGtts + 0 /\ HeldByGtts \in Int
  BY PartsAreInt DEF HeldByGtts
<1>2. funds'.used = funds.used + 0 + (InFlight(t)' - InFlight(t))
  BY InFlightIsNat, TypedParts DEF money, RowsOK
<1> QED
  BY <1>1, <1>2, ExactByOne DEF money

\* A commit that moves the balance and one row by the same amount.
LEMMA ExactByRow ==
  ASSUME Typed, Typed', Exact, NEW t \in Threads, Others(t), InFlight(t)' = InFlight(t),
         NEW g \in Gtts, NEW m \in Nat, gttMargin' = [gttMargin EXCEPT ![g] = m],
         funds' = Moved(m - gttMargin[g]), order' = order, leaked' = leaked
  PROVE  Exact'
<1>1. gttMargin[g] \in Nat /\ funds.used \in Nat /\ HeldByGtts \in Int
  BY TypedParts, PartsAreInt DEF RowsOK
<1>2. HeldByGtts' = HeldByGtts + (m - gttMargin[g])
  <2>1. gttMargin'[g] = m /\ \A h \in Gtts \ {g} : gttMargin'[h] = gttMargin[h]
    BY TypedParts DEF RowsOK
  <2> QED
    BY <1>1, <2>1, HeldByGttsMoves
<1>3. funds'.used = funds.used + (m - gttMargin[g]) + (InFlight(t)' - InFlight(t))
  BY <1>1, InFlightIsNat DEF Moved
<1> QED
  BY <1>1, <1>2, <1>3, ExactByOne

\* What Goto and Keep do, whatever they write.
LEMMA ThreadMoves ==
  ASSUME ThreadsOK, NEW t \in Threads, NEW next, Goto(t, next)
  PROVE  /\ pc'[t] = next
         /\ my' = my => Others(t)
         /\ \A mine : Keep(t, mine) => my'[t] = mine /\ Others(t)
BY DEF Goto, Keep, ThreadsOK, Others

\* The end of a GTT releases what its row holds.
LEMMA WithdrawExact ==
  ASSUME Typed, Typed', Accounts, NEW t \in Threads, Capturing(t),
         NEW outcome, NEW open, Withdraw(t, outcome, open)
  PROVE  Exact'
<1>0. ThreadsOK /\ RowsOK /\ Exact
  BY TypedParts DEF Accounts
<1>1. CaptureStands(t) /\ my[t].held \in Nat
  BY <1>0 DEF Accounts, Captures, ThreadsOK, Locals
<1>2. PICK g \in Gtts : g = my[t].gtt
  BY <1>1 DEF CaptureStands
<1>3. Others(t) /\ pc'[t] = "idle"
  BY <1>0, ThreadMoves DEF Withdraw, Return
<1>4. InFlight(t)' = InFlight(t)
  BY <1>3 DEF InFlight, Capturing
<1>5. CASE UNCHANGED <<gttMargin, funds>>
  BY <1>0, <1>3, <1>4, <1>5, ExactAside DEF Withdraw, money
<1>6. CASE /\ gttStatus[g] = "active"
           /\ gttMargin' = [gttMargin EXCEPT ![g] = 0]
           /\ funds' = Moved(-my[t].held)
  <2>1. -my[t].held = 0 - gttMargin[g]
    BY <1>1, <1>2, <1>6 DEF CaptureStands
  <2> QED
    BY <1>0, <1>3, <1>4, <1>6, <2>1, ExactByRow DEF Withdraw
<1> QED
  BY <1>2, <1>5, <1>6 DEF Withdraw

LEMMA RequestsExact ==
  ASSUME Typed, Typed', Funding, Accounts, NEW r \in Requests, Call(r) \/ Serve(r)
  PROVE  Exact'
<1>0. ThreadsOK /\ RowsOK /\ r \in Threads /\ Exact
  BY TypedParts DEF Threads, Accounts
<1>1. ASSUME NEW g \in Gtts, PlaceGtt(r, g)
      PROVE  Exact'
  <2>1. PICK m \in [LegsOf(g) -> Margins] :
           /\ funds' = Moved(Reservation(g, m))
           /\ gttMargin' = [gttMargin EXCEPT ![g] = Reservation(g, m)]
    BY <1>1 DEF PlaceGtt
  <2>2. Reservation(g, m) \in Nat
    <3>1. \A l \in LegsOf(g) : m[l] \in Nat
      BY MoneyAssumption
    <3> QED
      BY <3>1, ReservationCovers
  <2>3. gttMargin[g] = 0
    BY <1>1 DEF PlaceGtt, Funding, FundedGtt
  <2>4. pc' = pc /\ my' = my /\ order' = order /\ leaked' = leaked
    BY <1>1 DEF PlaceGtt
  <2>5. Others(r) /\ InFlight(r)' = InFlight(r)
    BY <2>4 DEF Others, InFlight
  <2>6. Reservation(g, m) = Reservation(g, m) - gttMargin[g]
    BY <2>2, <2>3
  <2> QED
    BY <1>0, <2>1, <2>2, <2>4, <2>5, <2>6, ExactByRow
<1>2. ASSUME NEW g \in Gtts, NEW next \in {"modify", "cancel"}, ReadActive(r, g, next),
             NEW mine, Keep(r, mine)
      PROVE  Exact'
  <2>1. pc'[r] = next /\ Others(r) /\ pc[r] = "idle"
    BY <1>0, <1>2, ThreadMoves DEF ReadActive
  <2>2. InFlight(r)' = InFlight(r)
    BY <2>1 DEF InFlight
  <2> QED
    BY <1>0, <1>2, <2>1, <2>2, ExactAside DEF ReadActive, gtts
<1>3. CASE ModifyCommit(r)
  <2>1. CaptureStands(r) /\ Capturing(r) /\ my[r] \in Locals
    BY <1>0, <1>3 DEF Accounts, Captures, ModifyCommit, Capturing, ThreadsOK
  <2>2. PICK g \in Gtts, q \in [Legs -> Nat] : g = my[r].gtt /\ q = my[r].quote
    BY <2>1 DEF CaptureStands, Locals
  <2>3. Others(r) /\ pc'[r] = "idle" /\ pc[r] = "modify"
    BY <1>0, <1>3, ThreadMoves DEF ModifyCommit, Return
  <2>4. InFlight(r)' = InFlight(r)
    BY <2>3 DEF InFlight
  <2>5. CASE UNCHANGED <<gttMargin, funds>>
    BY <1>0, <1>3, <2>3, <2>4, <2>5, ExactAside DEF ModifyCommit, money
  <2>6. CASE /\ gttStatus[g] = "active"
             /\ gttMargin' = [gttMargin EXCEPT ![g] = Reservation(g, q)]
             /\ funds' = Moved(Reservation(g, q) - my[r].held)
    <3>1. my[r].held = gttMargin[g]
      BY <2>1, <2>2, <2>6 DEF CaptureStands
    <3>2. Reservation(g, q) \in Nat
      BY ReservationCovers DEF LegsOf
    <3> QED
      BY <1>0, <1>3, <2>3, <2>4, <2>6, <3>1, <3>2, ExactByRow DEF ModifyCommit
  <2> QED
    BY <1>3, <2>2, <2>5, <2>6 DEF ModifyCommit
<1>5. CASE CancelCommit(r)
  BY <1>0, <1>5, WithdrawExact DEF CancelCommit, Capturing
<1> QED
  BY <1>1, <1>2, <1>3, <1>5 DEF Call, Serve, ModifyRead, CancelRead
\* Only a thread about to write what it has blocked has money under way.
Writing == {"insert", "restored", "rearm"}

\* A step between two states without money under way, that moves none, is exact.
LEMMA QuietIsExact ==
  ASSUME Typed, Typed', Exact, NEW t \in Threads, pc[t] \notin Writing,
         NEW next, next \notin Writing, Goto(t, next),
         my' = my \/ \E mine : Keep(t, mine),
         gttMargin' = gttMargin, UNCHANGED money
  PROVE  Exact'
<1>1. pc'[t] = next /\ Others(t)
  BY TypedParts, ThreadMoves
<1>2. InFlight(t)' = InFlight(t)
  BY <1>1 DEF InFlight, Writing
<1> QED
  BY <1>1, <1>2, ExactAside

\* block_margin puts under way what it takes from the balance.
LEMMA BlockExact ==
  ASSUME Typed, Typed', Exact, NEW t \in Evaluators \cup Sweepers, BlockMargin(t)
  PROVE  Exact'
<1>0. t \in Threads /\ my[t].ask \in Nat /\ funds.used \in Nat /\ ThreadsOK
  BY TypedParts DEF Threads, ThreadsOK, Locals, RowsOK
<1>1. pc[t] = "block" /\ my' = my /\ gttMargin' = gttMargin /\ order' = order /\ leaked' = leaked
  BY DEF BlockMargin, gtts
<1>2. CASE Goto(t, Granted(t)) /\ funds' = Moved(my[t].ask)
  <2>1. Others(t) /\ pc'[t] = Granted(t)
    BY <1>0, <1>1, <1>2, ThreadMoves
  <2>2. InFlight(t)' = my[t].ask /\ InFlight(t) = 0
    BY <1>1, <2>1 DEF InFlight, Granted
  <2>3. HeldByGtts' = HeldByGtts + 0
    BY <1>1, PartsAreInt DEF HeldByGtts
  <2>4. funds'.used = funds.used + 0 + (InFlight(t)' - InFlight(t))
    BY <1>0, <1>2, <2>2 DEF Moved
  <2> QED
    BY <1>0, <1>1, <2>1, <2>3, <2>4, ExactByOne
<1>3. CASE Goto(t, Refused(t)) /\ funds' = funds
  <2>1. Refused(t) \notin Writing /\ pc[t] \notin Writing
    BY <1>1 DEF Refused, Writing
  <2> QED
    BY <1>0, <1>1, <1>3, <2>1, QuietIsExact DEF money
<1> QED
  BY <1>2, <1>3 DEF BlockMargin

\* The INSERT turns what is under way into an order, or loses it.
LEMMA InsertExact ==
  ASSUME Typed, Typed', Exact, NEW e \in Evaluators, InsertOrder(e)
  PROVE  Exact'
<1>0. e \in Threads /\ my[e].ask \in Nat /\ ThreadsOK
  BY TypedParts DEF Threads, ThreadsOK, Locals
<1>1. /\ pc[e] = "insert" /\ my' = my /\ gttMargin' = gttMargin /\ funds' = funds
  BY DEF InsertOrder, gtts
<1>2. PICK l \in Legs : l = my[e].leg
  BY <1>1, EvaluatorMoves
<1>3. PICK next \in {"finalise", "compensate"} : Goto(e, next)
  BY DEF InsertOrder
<1>4. Others(e) /\ pc'[e] = next
  BY <1>0, <1>1, <1>3, ThreadMoves
<1>5. InFlight(e) = my[e].ask /\ InFlight(e)' = 0
  BY <1>1, <1>4 DEF InFlight
<1>6. /\ HeldByGtts \in Int /\ HeldByOrders \in Int /\ UnderWay \in Int
      /\ HeldByGtts' = HeldByGtts
  BY <1>1, PartsAreInt DEF HeldByGtts
<1>7. UnderWay' = UnderWay - my[e].ask
  BY <1>0, <1>4, <1>5, <1>6, UnderWayMoves
<1>8. funds.used = HeldByGtts + HeldByOrders + UnderWay + leaked /\ leaked \in Nat
  BY DEF Exact, LedgerExact, Reserved, HeldByGtts, HeldByOrders, UnderWay
<1>9. CASE ~Placed(l) /\ order' = [order EXCEPT ![l] = my[e].ask] /\ leaked' = leaked
  <2>1. HeldByOrders' = HeldByOrders + my[e].ask
    BY <1>0, <1>9, HeldByOrdersGains
  <2>2. funds'.used = HeldByGtts' + HeldByOrders' + UnderWay' + leaked' /\ leaked' \in Nat
    BY <1>0, <1>1, <1>6, <1>7, <1>8, <1>9, <2>1
  <2> QED
    BY <2>2 DEF Exact, LedgerExact, Reserved, HeldByGtts, HeldByOrders, UnderWay
<1>10. CASE order' = order /\ leaked' = leaked + my[e].ask
  <2>1. HeldByOrders' = HeldByOrders
    BY <1>10 DEF HeldByOrders, Placed
  <2>2. funds'.used = HeldByGtts' + HeldByOrders' + UnderWay' + leaked' /\ leaked' \in Nat
    BY <1>0, <1>1, <1>6, <1>7, <1>8, <1>10, <2>1
  <2> QED
    BY <2>2 DEF Exact, LedgerExact, Reserved, HeldByGtts, HeldByOrders, UnderWay
<1> QED
  BY <1>2, <1>9, <1>10 DEF InsertOrder

LEMMA EvaluatorsExact ==
  ASSUME Typed, Typed', Funding, Accounts, NEW e \in Evaluators,
         Fire(e) \/ \E l \in Legs : Claim(e, l)
  PROVE  Exact'
<1>0. ThreadsOK /\ RowsOK /\ e \in Threads /\ my[e] \in Locals /\ Exact
  BY TypedParts, EvaluatorMoves DEF Accounts
<1>1. FundedOwner(e) /\ AsksInTurn(e)
  BY DEF Funding
<1>2. ASSUME pc[e] \notin Writing, NEW next \in Pcs \ Writing, Goto(e, next),
             my' = my \/ \E mine : Keep(e, mine), gttMargin' = gttMargin, UNCHANGED money
      PROVE  Exact'
  BY <1>0, <1>2, QuietIsExact
<1>3. {"idle", "claimed", "checked", "revertClaim", "owner", "release", "order", "block",
       "compensate", "revertParent"} \subseteq Pcs \ Writing
  BY DEF Pcs, EvaluatorPcs, FirePcs, Writing
<1>4. CASE \E l \in Legs : Claim(e, l)
  BY <1>2, <1>3, <1>4 DEF Claim, gtts, Writing
<1>5. CASE CheckLeg(e) \/ RevertClaim(e) \/ Finalise(e) \/ FinaliseFails(e)
  <2>1. pc[e] \notin Writing /\ gttMargin' = gttMargin /\ UNCHANGED money
    BY <1>5 DEF CheckLeg, RevertClaim, Finalise, FinaliseFails, gtts, Writing
  <2>2. Return(e) \/ (Goto(e, "checked") /\ my' = my)
    BY <1>5 DEF CheckLeg, RevertClaim, Finalise, FinaliseFails
  <2> QED
    BY <1>2, <1>3, <2>1, <2>2 DEF Return
<1>6. CASE \/ ClaimParent(e) \/ ReleaseFails(e) \/ OrderRefused(e) \/ RejectGtt(e)
           \/ RevertParent(e)
  <2>1. pc[e] \notin Writing /\ gttMargin' = gttMargin /\ UNCHANGED money /\ my' = my
    BY <1>6 DEF ClaimParent, ReleaseFails, OrderRefused, RejectGtt, RevertParent, gtts, Writing
  <2>2. PICK next \in {"owner", "revertClaim", "revertParent", "compensate"} : Goto(e, next)
    BY <1>6 DEF ClaimParent, ReleaseFails, OrderRefused, RejectGtt, RevertParent
  <2> QED
    BY <1>2, <1>3, <2>1, <2>2
<1>7. CASE ReadReservation(e) \/ Compensate(e)
  <2>1. pc[e] \notin Writing /\ gttMargin' = gttMargin /\ UNCHANGED money
    BY <1>7 DEF ReadReservation, Compensate, gtts, Writing
  <2>2. PICK next \in {"release", "order", "block", "revertParent"} : Goto(e, next)
    BY <1>7 DEF ReadReservation, Compensate
  <2>3. \E mine : Keep(e, mine)
    BY <1>7 DEF ReadReservation, Compensate
  <2> QED
    BY <1>2, <1>3, <2>1, <2>2, <2>3
<1>8. CASE OrderPriced(e)
  <2>1. PICK m \in Margins \cup {0} :
          Keep(e, [my[e] EXCEPT !.ask = m]) /\ Goto(e, IF m > 0 THEN "block" ELSE "insert")
    BY <1>8 DEF OrderPriced
  <2>2. m \in Nat /\ [my[e] EXCEPT !.ask = m].ask = m
    BY <1>0, MoneyAssumption DEF Locals
  <2>3. /\ pc'[e] = IF m > 0 THEN "block" ELSE "insert"
        /\ my'[e].ask = m /\ Others(e) /\ pc[e] = "order"
    BY <1>0, <1>8, <2>1, <2>2, ThreadMoves DEF OrderPriced
  <2>4. InFlight(e)' = 0 /\ InFlight(e) = 0
    BY <2>2, <2>3 DEF InFlight
  <2> QED
    BY <1>0, <1>8, <2>3, <2>4, ExactAside DEF OrderPriced, gtts
<1>9. CASE ReleaseReservation(e) \/ PersistRestored(e) \/ PersistUnfunded(e)
  <2>1. PICK g \in Gtts : g = my[e].gtt
    BY <1>9, EvaluatorMoves DEF ReleaseReservation, PersistRestored, PersistUnfunded
  <2>2. Firing(e) /\ my' = my /\ order' = order /\ leaked' = leaked
    BY <1>9 DEF ReleaseReservation, PersistRestored, PersistUnfunded, Firing, FirePcs, money
  <2>3. my[e].held \in Nat /\ my[e].ask \in Nat /\ gttMargin[g] \in Nat /\ funds.used \in Nat
    BY <1>0 DEF Locals, RowsOK
  <2>4. Others(e) /\ pc'[e] \in {"order", "revertParent", "reject"}
    BY <1>0, <1>9, <2>2, ThreadMoves DEF ReleaseReservation, PersistRestored, PersistUnfunded
  <2>5. InFlight(e)' = 0
    BY <2>4 DEF InFlight
  <2>6. CASE ReleaseReservation(e)
    <3>1. gttMargin' = [gttMargin EXCEPT ![g] = 0] /\ funds' = Moved(-my[e].held)
      BY <2>1, <2>6 DEF ReleaseReservation
    <3>2. -my[e].held = 0 - gttMargin[g]
      BY <1>1, <2>1, <2>2, <2>3, <2>6 DEF ReleaseReservation, FundedOwner
    <3>3. InFlight(e) = 0
      BY <2>6 DEF ReleaseReservation, InFlight
    <3> QED
      BY <1>0, <2>2, <2>4, <2>5, <3>1, <3>2, <3>3, ExactByRow
  <2>7. CASE PersistRestored(e)
    <3>1. gttMargin' = [gttMargin EXCEPT ![g] = my[e].held] /\ funds' = funds /\ pc[e] = "restored"
      BY <2>1, <2>7 DEF PersistRestored, money
    <3>2. gttMargin[g] = 0 /\ my[e].ask = my[e].held
      BY <1>1, <2>1, <2>2, <3>1 DEF FundedOwner, Recorded, AsksInTurn
    <3>3. InFlight(e) = my[e].held
      BY <3>1, <3>2 DEF InFlight
    <3>4. gttMargin'[g] = my[e].held /\ \A h \in Gtts \ {g} : gttMargin'[h] = gttMargin[h]
      BY <1>0, <3>1 DEF RowsOK
    <3>5. HeldByGtts' = HeldByGtts + my[e].held
      BY <2>3, <3>2, <3>4, HeldByGttsMoves, PartsAreInt
    <3>6. funds'.used = funds.used + my[e].held + (InFlight(e)' - InFlight(e))
      BY <2>3, <2>5, <3>1, <3>3
    <3> QED
      BY <1>0, <2>2, <2>3, <2>4, <3>5, <3>6, ExactByOne
  <2>8. CASE PersistUnfunded(e)
    <3>1. gttMargin[g] = 0
      BY <1>1, <2>1, <2>2, <2>8 DEF PersistUnfunded, FundedOwner, Recorded
    <3>2. gttMargin' = gttMargin
      BY <1>0, <2>1, <2>8, <3>1 DEF PersistUnfunded, RowsOK
    <3>3. InFlight(e) = 0
      BY <2>8 DEF PersistUnfunded, InFlight
    <3> QED
      BY <1>0, <2>4, <2>5, <2>8, <3>2, <3>3, ExactAside DEF PersistUnfunded
  <2> QED
    BY <1>9, <2>6, <2>7, <2>8
<1> QED
  BY <1>0, <1>4, <1>5, <1>6, <1>7, <1>8, <1>9, BlockExact, InsertExact DEF Fire

LEMMA SweepersExact ==
  ASSUME Typed, Typed', Exclusion, Funding, Accounts, NEW s \in Sweepers,
         Reclaim(s) \/ ExpireCommit(s) \/ \E g \in Gtts : ExpireRead(s, g)
  PROVE  Exact'
<1>0. ThreadsOK /\ RowsOK /\ s \in Threads /\ my[s] \in Locals /\ Exact /\ FundedSweep(s)
  BY TypedParts, SweeperMoves DEF Accounts, Funding
<1>1. CASE \/ ReclaimLegs(s) \/ QueryStranded(s) \/ SweepDone(s) \/ SweepRejects(s)
           \/ \E g \in Gtts : ExpireRead(s, g)
  <2>1. pc[s] \notin Writing /\ gttMargin' = gttMargin /\ UNCHANGED money
    BY <1>1 DEF ReclaimLegs, QueryStranded, SweepDone, SweepRejects, ExpireRead, ReadActive,
                gtts, Writing
  <2>2. PICK next \in {"idle", "stranded", "sweep", "expire"} : Goto(s, next)
    BY <1>1 DEF ReclaimLegs, QueryStranded, SweepDone, Return, SweepRejects, NextStranded,
                ExpireRead, ReadActive
  <2>3. my' = my \/ \E mine : Keep(s, mine)
    BY <1>1 DEF ReclaimLegs, QueryStranded, SweepDone, Return, SweepRejects, NextStranded,
                ExpireRead
  <2> QED
    BY <1>0, <2>1, <2>2, <2>3, QuietIsExact DEF Writing
<1>2. ASSUME NEW g \in Gtts, SweepSkips(s, g) \/ SweepFinalises(s, g)
      PROVE  Exact'
  <2>1. /\ pc' = pc /\ pc[s] = "sweep" /\ gttMargin' = gttMargin /\ UNCHANGED money
        /\ Keep(s, [my[s] EXCEPT !.todo = @ \ {g}])
    BY <1>2 DEF SweepSkips, SweepFinalises, gtts
  <2>2. Others(s) /\ InFlight(s)' = InFlight(s)
    BY <1>0, <2>1, OneKeeps DEF Others, InFlight
  <2> QED
    BY <1>0, <2>1, <2>2, ExactAside
<1>3. ASSUME NEW g \in Gtts, SweepInspects(s, g)
      PROVE  Exact'
  <2> DEFINE mine == [my[s] EXCEPT !.todo = @ \ {g}, !.gtt = g, !.held = gttMargin[g],
                         !.ask = IF gttMargin[g] > 0 THEN 0 ELSE Larger(g, legMargin)]
  <2>1. mine.ask = IF gttMargin[g] > 0 THEN 0 ELSE Larger(g, legMargin)
    BY <1>0 DEF Locals
  <2>2. /\ Keep(s, mine) /\ Goto(s, IF gttMargin[g] > 0 THEN "rearm" ELSE "block")
        /\ pc[s] = "sweep" /\ gttMargin' = gttMargin /\ UNCHANGED money
    BY <1>3 DEF SweepInspects, gtts
  <2> HIDE DEF mine
  <2>3. /\ pc'[s] = IF gttMargin[g] > 0 THEN "rearm" ELSE "block"
        /\ my'[s] = mine /\ Others(s)
    BY <1>0, <2>2, ThreadMoves
  <2>4. InFlight(s)' = InFlight(s)
    BY <2>1, <2>2, <2>3 DEF InFlight
  <2> QED
    BY <1>0, <2>2, <2>3, <2>4, ExactAside
<1>4. CASE Rearm(s)
  <2>1. PICK g \in Gtts : g = my[s].gtt
    BY <1>4, SweeperMoves DEF Rearm
  <2>2. Sweeping(s) /\ Inspected(s) /\ pc[s] = "rearm"
    BY <1>4 DEF Rearm, Sweeping, SweepPcs, Inspected
  <2>3. gttStatus[g] = "triggered" /\ my[s].held = gttMargin[g]
    BY <1>0, <2>1, <2>2 DEF Exclusion, SweepsOwnerless, FundedSweep
  <2>4. my[s].held \in Nat /\ my[s].ask \in Nat /\ gttMargin[g] \in Nat /\ funds.used \in Nat
    BY <1>0 DEF Locals, RowsOK
  <2>5. Others(s) /\ pc'[s] = "sweep"
    BY <1>4, NextIsTyped DEF Rearm
  <2>6. InFlight(s) = my[s].ask /\ InFlight(s)' = 0
    BY <2>2, <2>5 DEF InFlight
  <2>7. gttMargin' = [gttMargin EXCEPT ![g] = my[s].held + my[s].ask]
    BY <1>4, <2>1, <2>3 DEF Rearm
  <2>8. /\ gttMargin'[g] = my[s].held + my[s].ask
        /\ \A h \in Gtts \ {g} : gttMargin'[h] = gttMargin[h]
    BY <1>0, <2>7 DEF RowsOK
  <2>9. HeldByGtts' = HeldByGtts + my[s].ask
    BY <2>3, <2>4, <2>8, HeldByGttsMoves, PartsAreInt
  <2>10. order' = order /\ leaked' = leaked /\ funds' = funds
    BY <1>4 DEF Rearm, money
  <2>11. funds'.used = funds.used + my[s].ask + (InFlight(s)' - InFlight(s))
    BY <2>4, <2>6, <2>10
  <2> QED
    BY <1>0, <2>4, <2>5, <2>9, <2>10, <2>11, ExactByOne
<1>5. CASE ExpireCommit(s)
  BY <1>0, <1>5, WithdrawExact DEF ExpireCommit, Capturing
<1> QED
  BY <1>0, <1>1, <1>2, <1>3, <1>4, <1>5, BlockExact DEF Reclaim

\* A crash loses what was under way, and nothing else.
LEMMA WorldExact ==
  ASSUME Typed, Typed', Exact,
         \/ \E l \in Legs : ClaimAges(l)
         \/ \E g \in Gtts : FallsDue(g)
         \/ Crash
         \/ UNCHANGED vars
  PROVE  Exact'
<1>1. /\ gttMargin' = gttMargin /\ order' = order /\ funds' = funds
      /\ HeldByGtts' = HeldByGtts /\ HeldByOrders' = HeldByOrders
  BY DEF ClaimAges, FallsDue, Crash, vars, gtts, money, HeldByGtts, HeldByOrders, Placed
<1>2. funds.used = HeldByGtts + HeldByOrders + UnderWay + leaked /\ leaked \in Nat
  BY DEF Exact, LedgerExact, Reserved, HeldByGtts, HeldByOrders, UnderWay
<1>3. HeldByGtts \in Int /\ HeldByOrders \in Int /\ UnderWay \in Int
  BY PartsAreInt
<1>4. CASE Crash
  <2>1. UnderWay \in Nat
    <3>1. \A t \in Threads : Blocked[t] \in Nat
      BY InFlightIsNat
    <3> QED
      BY <3>1, FiniteAssumption, SumOfNats DEF UnderWay
  <2>2. UnderWay' = 0
    <3>1. \A t \in Threads : pc'[t] = "idle"
      BY <1>4 DEF Crash
    <3>2. \A t \in Threads : Blocked'[t] = 0
      BY <3>1 DEF Blocked, InFlight
    <3> QED
      BY <3>2, FiniteAssumption, SumOfZeros DEF UnderWay
  <2>3. leaked' = leaked + UnderWay
    BY <1>4 DEF Crash, UnderWay
  <2>4. funds'.used = HeldByGtts' + HeldByOrders' + UnderWay' + leaked' /\ leaked' \in Nat
    BY <1>1, <1>2, <1>3, <2>1, <2>2, <2>3
  <2> QED
    BY <2>4 DEF Exact, LedgerExact, Reserved, HeldByGtts, HeldByOrders, UnderWay
<1>5. CASE UNCHANGED <<pc, my, leaked>>
  <2>1. UnderWay' = UnderWay
    BY <1>5 DEF UnderWay, Blocked, InFlight
  <2>2. funds'.used = HeldByGtts' + HeldByOrders' + UnderWay' + leaked' /\ leaked' \in Nat
    BY <1>1, <1>2, <1>3, <1>5, <2>1
  <2> QED
    BY <2>2 DEF Exact, LedgerExact, Reserved, HeldByGtts, HeldByOrders, UnderWay
<1> QED
  BY <1>4, <1>5 DEF ClaimAges, FallsDue, vars, money

LEMMA InitExact == Init => Exact
<1> SUFFICES ASSUME Init
             PROVE  Exact
  OBVIOUS
<1>1. \A g \in Gtts : gttMargin[g] = 0
  BY DEF Init
<1>2. {l \in Legs : Placed(l)} = {}
  BY DEF Init, Placed
<1>3. \A t \in Threads : Blocked[t] = 0
  BY DEF Init, Blocked, InFlight
<1>4. /\ SumFunctionOnSet(gttMargin, Gtts) = 0
      /\ SumFunctionOnSet(Blocked, Threads) = 0
  BY <1>1, <1>3, FiniteAssumption, SumOfZeros
<1>5. SumFunctionOnSet(order, {l \in Legs : Placed(l)}) = 0
  BY <1>2, SumOfNone
<1>6. funds.used = 0 /\ leaked = 0
  BY DEF Init
<1> QED
  BY <1>4, <1>5, <1>6 DEF Exact, LedgerExact, Reserved

LEMMA NextAccounts ==
  ASSUME Accounted
  PROVE  Typed /\ Exclusion /\ Funding /\ Accounts /\ [Next]_vars => Accounts'
<1> SUFFICES ASSUME Typed, Exclusion, Funding, Accounts, [Next]_vars
             PROVE  Captures' /\ Exact'
  BY DEF Accounts
<1>1. Typed' /\ Exact
  BY NextTyped DEF Accounts
<1>2. Captures'
  BY NextCaptures DEF Accounts
<1>3. ~\E t \in Threads : DatabaseFails(t)
  BY DEF Accounted, Repairable, DatabaseFails
<1>4. Exact'
  BY <1>1, <1>3, RequestsExact, EvaluatorsExact, SweepersExact, WorldExact DEF Next, Step, Fault
<1> QED
  BY <1>2, <1>4

\* The ledger is, rupee for rupee, what the GTTs, the orders and the blocks under
\* way hold, but for what a crash or a failed INSERT left blocked.
THEOREM LedgerIsExact == Accounted => (Spec => []LedgerExact)
<1> SUFFICES ASSUME Accounted
             PROVE  Spec => []LedgerExact
  OBVIOUS
<1>1. Repairable
  BY DEF Accounted
<1>2. Spec => [](Typed /\ Exclusion /\ Funding)
  BY <1>1, FundingHolds
<1>3. Init => Accounts
  BY InitCaptures, InitExact DEF Accounts
<1>4. Typed /\ Exclusion /\ Funding /\ Accounts /\ [Next]_vars => Accounts'
  BY NextAccounts
<1>5. Accounts => LedgerExact
  BY DEF Accounts, Exact
<1> QED
  BY <1>2, <1>3, <1>4, <1>5, PTL DEF Spec
=============================================================================
