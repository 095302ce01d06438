----------------------------- MODULE SandboxGTT -----------------------------
(***************************************************************************)
(* The analyzer-mode Good-Till-Triggered orders of sandbox/gtt_manager.py: *)
(* the claim protocol that lets several evaluators watch the same trigger, *)
(* the user's place, modify and cancel, the expiry sweep, the sweep that   *)
(* recovers interrupted fires, and the margin ledger they all move.        *)
(*                                                                         *)
(* One action is one database transaction, or one read whose result is     *)
(* kept in a local variable and used later.  Threads share only the        *)
(* SQLite tables; a crash loses the threads and keeps the tables.          *)
(*                                                                         *)
(* The market is free: any pending leg may be crossed at any time.  A      *)
(* block of margin is one step here; SandboxFunds takes it apart.          *)
(***************************************************************************)
EXTENDS Integers, FiniteSets, Functions

CONSTANTS
  Gtts,        \* the trigger ids
  Legs,        \* the ids of sandbox_gtt_legs
  Parent,      \* Parent[l] is the GTT of leg l
  Evaluators,  \* threads that claim and fire: polling, WebSocket, catch-up
  Requests,    \* threads that serve the user's calls
  Sweepers,    \* threads that reclaim and expire: maintenance, polling, boot
  Margins,     \* the margins a leg or its order may need
  Capital,     \* the starting balance
  OcoMode,     \* gtt_oco_margin_mode
  MaxLeaked,   \* bound: the database fails no block once this much is leaked
  Admitted,    \* the hazards below that the configuration lets happen
  NoLeg, NoGtt

(***************************************************************************)
(* What a configuration may admit.                                         *)
(*   crash            the process dies between two transactions            *)
(*   insertFails      the INSERT of the child order raises                 *)
(*   answerLost       place_order raises after it committed the order      *)
(*   databaseFails    another read or commit raises                        *)
(*   requestsOverlap  two of modify, cancel and expire run at once         *)
(*   sweepOverlap     the sweep of stranded parents runs while a fire, or  *)
(*                    another such sweep, is in flight                     *)
(***************************************************************************)
Hazards ==
  {"crash", "insertFails", "answerLost", "databaseFails", "requestsOverlap", "sweepOverlap"}

Threads == Evaluators \cup Requests \cup Sweepers

LegsOf(g) == {l \in Legs : Parent[l] = g}
Siblings(l) == LegsOf(Parent[l]) \ {l}

\* A GTT has one leg (single) or two (two-leg).
ASSUME LegsAssumption ==
  /\ Parent \in [Legs -> Gtts]
  /\ \A g \in Gtts : \E a, b \in Legs : LegsOf(g) = {a, b}

ASSUME ThreadsAssumption ==
  /\ Evaluators \cap Requests = {}
  /\ Evaluators \cap Sweepers = {}
  /\ Requests \cap Sweepers = {}

ASSUME MoneyAssumption ==
  /\ Margins \subseteq Nat \ {0}
  /\ Capital \in Nat /\ MaxLeaked \in Nat
  /\ OcoMode \in {"max", "sum"}

ASSUME AdmittedAssumption == Admitted \subseteq Hazards

ASSUME NoneAssumption == NoLeg \notin Legs /\ NoGtt \notin Gtts

\* The tables and the process have finitely many rows and threads.
ASSUME FiniteAssumption == IsFiniteSet(Gtts) /\ IsFiniteSet(Legs) /\ IsFiniteSet(Threads)

VARIABLES
  gttStatus,    \* sandbox_gtt.gtt_status; "none" before it is placed
  gttMargin,    \* sandbox_gtt.margin_blocked
  legStatus,    \* sandbox_gtt_legs.leg_status
  legMargin,    \* sandbox_gtt_legs.leg_margin
  stale,        \* the leg's claimed_at is older than the claim timeout
  marked,       \* the leg's triggered_order_id is set
  order,        \* margin_blocked of the order row of a leg, or -1: no such row
  due,          \* the GTT's expires_at is past
  funds,        \* the user's row of sandbox_funds
  leaked,       \* not in the code: what is blocked for a row never written
  pc,           \* where each thread is
  my            \* the local variables of each thread

gtts == <<gttStatus, gttMargin, due>>
legs == <<legStatus, legMargin, stale, marked>>
money == <<order, funds, leaked>>
vars == <<gtts, legs, money, pc, my>>

NoOrder == -1
Placed(l) == order[l] # NoOrder

GttStates == {"none", "active", "triggered", "cancelled", "expired", "rejected"}
LegStates == {"none", "pending", "triggering", "triggered", "cancelled"}

\* From the claim of the parent to the end of the fire or of its undoing.
FirePcs == {"owner", "release", "order", "block", "insert", "finalise",
            "compensate", "restored", "unfunded", "reject", "revertParent"}
\* From the query for stranded parents to the end of the pass.
SweepPcs == {"sweep", "block", "rearm", "sweepReject"}
EvaluatorPcs == {"idle", "claimed", "checked", "revertClaim"} \cup FirePcs
RequestPcs == {"idle", "modify", "cancel"}
SweeperPcs == {"idle", "stranded", "expire"} \cup SweepPcs
Pcs == EvaluatorPcs \cup RequestPcs \cup SweeperPcs

\* The local variables of a thread at rest.
Fresh == [leg |-> NoLeg, gtt |-> NoGtt, held |-> 0, ask |-> 0, undo |-> FALSE,
          quote |-> [l \in Legs |-> 0], todo |-> {}]

Goto(t, next) == pc' = [pc EXCEPT ![t] = next]
Keep(t, locals) == my' = [my EXCEPT ![t] = locals]
Return(t) == Goto(t, "idle") /\ Keep(t, Fresh)

Firing(e) == e \in Evaluators /\ pc[e] \in FirePcs
Sweeping(s) == s \in Sweepers /\ pc[s] \in SweepPcs

-----------------------------------------------------------------------------
(***************************************************************************)
(* Margin.                                                                 *)
(***************************************************************************)

\* The larger leg of an OCO.
Larger(g, m) ==
  CHOOSE x \in {m[l] : l \in LegsOf(g)} : \A l \in LegsOf(g) : x >= m[l]

\* Both legs of an OCO.
Both(g, m) ==
  LET pair == CHOOSE p \in Legs \X Legs : LegsOf(g) = {p[1], p[2]}
  IN  IF pair[1] = pair[2] THEN m[pair[1]] ELSE m[pair[1]] + m[pair[2]]

\* What place_gtt and modify_gtt reserve.
Reservation(g, m) == IF OcoMode = "max" THEN Larger(g, m) ELSE Both(g, m)

\* The WHERE clause of stage_margin_delta: enough cash to block, enough
\* reserved to release.
CanStage(delta) ==
  \/ delta > 0 /\ funds.available >= delta
  \/ delta <= 0 /\ funds.used >= -delta

\* Its SET clause, computed by the database.
Moved(delta) == [available |-> funds.available - delta, used |-> funds.used + delta]

-----------------------------------------------------------------------------
(***************************************************************************)
(* The user's calls.                                                       *)
(***************************************************************************)

\* place_gtt: reservation, GTT and legs land in one commit.
PlaceGtt(r, g) ==
  /\ pc[r] = "idle"
  /\ gttStatus[g] = "none"
  /\ \E m \in [LegsOf(g) -> Margins] :
       /\ CanStage(Reservation(g, m))
       /\ funds' = Moved(Reservation(g, m))
       /\ gttMargin' = [gttMargin EXCEPT ![g] = Reservation(g, m)]
       /\ legMargin' = [l \in Legs |-> IF Parent[l] = g THEN m[l] ELSE legMargin[l]]
  /\ gttStatus' = [gttStatus EXCEPT ![g] = "active"]
  /\ legStatus' = [l \in Legs |-> IF Parent[l] = g THEN "pending" ELSE legStatus[l]]
  /\ UNCHANGED <<due, stale, marked, order, leaked, pc, my>>

\* Nobody is between the read and the commit of modify, cancel or expire.
RequestsApart ==
  "requestsOverlap" \in Admitted
    \/ \A t \in Threads : pc[t] \notin {"modify", "cancel", "expire"}

\* The read that modify_gtt, cancel_gtt and expire_due_gtts start from.
ReadActive(t, g, next) ==
  /\ pc[t] = "idle" /\ RequestsApart
  /\ gttStatus[g] = "active"
  /\ Goto(t, next)
  /\ UNCHANGED <<gtts, legs, money>>

ModifyRead(r, g) ==
  /\ ReadActive(r, g, "modify")
  /\ \E m \in [LegsOf(g) -> Margins] :
       Keep(r, [Fresh EXCEPT !.gtt = g, !.held = gttMargin[g],
                             !.quote = [l \in Legs |-> IF Parent[l] = g THEN m[l] ELSE 0]])

\* One transaction: conditional claim, margin delta against the value read
\* before, legs re-priced.  Losing the claim or the funds rolls all back.
ModifyCommit(r) ==
  LET g == my[r].gtt
      new == Reservation(g, my[r].quote)
      delta == new - my[r].held
  IN  /\ pc[r] = "modify"
      /\ Return(r)
      /\ \/ /\ gttStatus[g] = "active" /\ CanStage(delta)
            /\ gttMargin' = [gttMargin EXCEPT ![g] = new]
            /\ funds' = Moved(delta)
            /\ legMargin' = [l \in Legs |->
                               IF Parent[l] = g THEN my[r].quote[l] ELSE legMargin[l]]
         \/ /\ ~(gttStatus[g] = "active" /\ CanStage(delta))
            /\ UNCHANGED <<gttMargin, funds, legMargin>>
      /\ UNCHANGED <<gttStatus, due, legStatus, stale, marked, order, leaked>>

CancelRead(r, g) ==
  /\ ReadActive(r, g, "cancel")
  /\ Keep(r, [Fresh EXCEPT !.gtt = g, !.held = gttMargin[g]])

\* Mutant: the UPDATE matches on the id alone.
WithdrawUnclaimed(t, outcome, open) ==
  LET g == my[t].gtt
  IN  /\ Return(t)
      /\ CanStage(-my[t].held)
      /\ gttStatus' = [gttStatus EXCEPT ![g] = outcome]
      /\ gttMargin' = [gttMargin EXCEPT ![g] = 0]
      /\ legStatus' = [l \in Legs |-> IF Parent[l] = g /\ legStatus[l] \in open
                                      THEN "cancelled" ELSE legStatus[l]]
      /\ funds' = Moved(-my[t].held)
      /\ UNCHANGED <<due, legMargin, stale, marked, order, leaked>>

\* The transaction that ends a GTT: status, its legs that have placed nothing,
\* and the release of the margin read before; all or nothing.
Withdraw(t, outcome, open) ==
  LET g == my[t].gtt
      won == gttStatus[g] = "active" /\ CanStage(-my[t].held)
  IN  /\ Return(t)
      /\ \/ /\ won
            /\ gttStatus' = [gttStatus EXCEPT ![g] = outcome]
            /\ gttMargin' = [gttMargin EXCEPT ![g] = 0]
            /\ legStatus' = [l \in Legs |-> IF Parent[l] = g /\ legStatus[l] \in open
                                            THEN "cancelled" ELSE legStatus[l]]
            /\ stale' = [l \in Legs |-> stale[l] /\ ~(Parent[l] = g /\ legStatus[l] \in open)]
            /\ funds' = Moved(-my[t].held)
         \/ /\ ~won
            /\ UNCHANGED <<gttStatus, gttMargin, legStatus, stale, funds>>
      /\ UNCHANGED <<due, legMargin, marked, order, leaked>>

CancelCommit(r) == pc[r] = "cancel" /\ Withdraw(r, "cancelled", {"pending", "triggering"})

-----------------------------------------------------------------------------
(***************************************************************************)
(* FundManager.block_margin, run by the thread t for the amount my[t].ask. *)
(***************************************************************************)

\* Where the caller goes on when the money is blocked, and when it is not.
Granted(t) ==
  IF t \in Sweepers THEN "rearm" ELSE IF my[t].undo THEN "restored" ELSE "insert"
Refused(t) ==
  IF t \in Sweepers THEN "sweepReject" ELSE IF my[t].undo THEN "unfunded" ELSE "compensate"

\* Mutant: the balance is not looked at.
BlockUnchecked(t) ==
  /\ pc[t] = "block"
  /\ funds' = Moved(my[t].ask)
  /\ Goto(t, Granted(t))
  /\ UNCHANGED <<gtts, legs, order, leaked, my>>

BlockMargin(t) ==
  /\ pc[t] = "block"
  /\ \/ /\ funds.available >= my[t].ask
        /\ funds' = Moved(my[t].ask)
        /\ Goto(t, Granted(t))
     \/ /\ funds.available < my[t].ask
        /\ Goto(t, Refused(t))
        /\ UNCHANGED funds
  /\ UNCHANGED <<gtts, legs, order, leaked, my>>

-----------------------------------------------------------------------------
(***************************************************************************)
(* The evaluators.                                                         *)
(***************************************************************************)

\* try_claim_trigger: one conditional UPDATE, exclusive per GTT.
Claim(e, l) ==
  /\ pc[e] = "idle"
  /\ legStatus[l] = "pending"
  /\ \A k \in Siblings(l) : legStatus[k] \notin {"triggering", "triggered"}
  /\ gttStatus[Parent[l]] = "active"
  /\ legStatus' = [legStatus EXCEPT ![l] = "triggering"]
  /\ stale' = [stale EXCEPT ![l] = FALSE]
  /\ Goto(e, "claimed")
  /\ Keep(e, [Fresh EXCEPT !.leg = l, !.gtt = Parent[l]])
  /\ UNCHANGED <<gtts, legMargin, marked, money>>

\* fire_leg reads the leg again before it goes on.
CheckLeg(e) ==
  /\ pc[e] = "claimed"
  /\ \/ legStatus[my[e].leg] = "triggering" /\ Goto(e, "checked") /\ UNCHANGED my
     \/ legStatus[my[e].leg] # "triggering" /\ Return(e)
  /\ UNCHANGED <<gtts, legs, money>>

\* Mutant: the claim of the leg is thought to be enough.
ClaimParentUnasked(e) ==
  /\ pc[e] = "checked"
  /\ gttStatus' = [gttStatus EXCEPT ![my[e].gtt] = "triggered"]
  /\ Goto(e, "owner")
  /\ UNCHANGED <<gttMargin, due, legs, money, my>>

\* The conditional UPDATE that makes cancel and expire impossible.
ClaimParent(e) ==
  LET g == my[e].gtt
  IN  /\ pc[e] = "checked"
      /\ \/ /\ gttStatus[g] = "active"
            /\ gttStatus' = [gttStatus EXCEPT ![g] = "triggered"]
            /\ Goto(e, "owner")
         \/ /\ gttStatus[g] # "active"
            /\ Goto(e, "revertClaim")
            /\ UNCHANGED gttStatus
      /\ UNCHANGED <<gttMargin, due, legs, money, my>>

ReadReservation(e) ==
  /\ pc[e] = "owner"
  /\ Keep(e, [my[e] EXCEPT !.held = gttMargin[my[e].gtt]])
  /\ Goto(e, IF gttMargin[my[e].gtt] > 0 THEN "release" ELSE "order")
  /\ UNCHANGED <<gtts, legs, money>>

\* Mutant: the release is committed without the margin_blocked that records it.
ReleaseUnrecorded(e) ==
  /\ pc[e] = "release"
  /\ CanStage(-my[e].held)
  /\ funds' = Moved(-my[e].held)
  /\ Goto(e, "order")
  /\ UNCHANGED <<gtts, legs, order, leaked, my>>

\* The release and the margin_blocked = 0 that records it, in one commit.
ReleaseReservation(e) ==
  /\ pc[e] = "release"
  /\ CanStage(-my[e].held)
  /\ funds' = Moved(-my[e].held)
  /\ gttMargin' = [gttMargin EXCEPT ![my[e].gtt] = 0]
  /\ Goto(e, "order")
  /\ UNCHANGED <<gttStatus, due, legs, order, leaked, my>>

\* More than is reserved, or the commit raises: stand down.
ReleaseFails(e) ==
  /\ pc[e] = "release"
  /\ Goto(e, "revertParent")
  /\ UNCHANGED <<gtts, legs, money, my>>

\* place_order fails a validation or finds no quote: nothing was written.
OrderRefused(e) ==
  /\ pc[e] = "order"
  /\ Goto(e, "compensate")
  /\ UNCHANGED <<gtts, legs, money, my>>

\* place_order has a margin for the order: 0 when it reduces a position,
\* else priced again, so not always what the GTT had reserved.
OrderPriced(e) ==
  /\ pc[e] = "order"
  /\ \E m \in Margins \cup {0} :
       /\ Keep(e, [my[e] EXCEPT !.ask = m])
       /\ Goto(e, IF m > 0 THEN "block" ELSE "insert")
  /\ UNCHANGED <<gtts, legs, money>>

\* The INSERT carries gtt_leg_id, which is unique among the orders.
InsertOrder(e) ==
  LET l == my[e].leg
  IN  /\ pc[e] = "insert"
      /\ \/ /\ ~Placed(l)
            /\ order' = [order EXCEPT ![l] = my[e].ask]
            /\ UNCHANGED leaked
            /\ \/ Goto(e, "finalise")
               \/ "answerLost" \in Admitted /\ Goto(e, "compensate")
         \/ /\ Placed(l) \/ "insertFails" \in Admitted
            /\ Goto(e, "compensate")
            /\ leaked' = leaked + my[e].ask
            /\ UNCHANGED order
      /\ UNCHANGED <<gtts, legs, funds, my>>

\* The leg is triggered and bears its order id, the sibling is cancelled.
Finalise(e) ==
  LET l == my[e].leg
      open == {k \in Siblings(l) : legStatus[k] \in {"pending", "triggering"}}
  IN  /\ pc[e] = "finalise"
      /\ legStatus' = [k \in Legs |-> IF k = l THEN "triggered"
                                      ELSE IF k \in open THEN "cancelled" ELSE legStatus[k]]
      /\ stale' = [k \in Legs |-> stale[k] /\ k \notin open \cup {l}]
      /\ marked' = [marked EXCEPT ![l] = TRUE]
      /\ Return(e)
      /\ UNCHANGED <<gtts, legMargin, money>>

\* Mutant: the failure is undone like one before the order.
FinaliseUndone(e) ==
  /\ pc[e] = "finalise"
  /\ Goto(e, "compensate")
  /\ UNCHANGED <<gtts, legs, money, my>>

\* That commit raises: the order exists, so nothing is undone.
FinaliseFails(e) ==
  /\ pc[e] = "finalise"
  /\ Return(e)
  /\ UNCHANGED <<gtts, legs, money>>

\* _compensate_failed_fire: block again what had been released.
Compensate(e) ==
  /\ pc[e] = "compensate"
  /\ Keep(e, [my[e] EXCEPT !.undo = TRUE, !.ask = my[e].held])
  /\ Goto(e, IF my[e].held > 0 THEN "block" ELSE "revertParent")
  /\ UNCHANGED <<gtts, legs, money>>

\* Mutant: the row says what the leg that failed would have cost.
PersistLegMargin(e) ==
  /\ pc[e] = "restored"
  /\ gttMargin' = [gttMargin EXCEPT ![my[e].gtt] = legMargin[my[e].leg]]
  /\ Goto(e, "revertParent")
  /\ UNCHANGED <<gttStatus, due, legs, money, my>>

\* It was blocked: the row says so in a commit of its own.
PersistRestored(e) ==
  /\ pc[e] = "restored"
  /\ gttMargin' = [gttMargin EXCEPT ![my[e].gtt] = my[e].held]
  /\ Goto(e, "revertParent")
  /\ UNCHANGED <<gttStatus, due, legs, money, my>>

\* It was not: the GTT is rejected, in two commits.
PersistUnfunded(e) ==
  /\ pc[e] = "unfunded"
  /\ gttMargin' = [gttMargin EXCEPT ![my[e].gtt] = 0]
  /\ Goto(e, "reject")
  /\ UNCHANGED <<gttStatus, due, legs, money, my>>

RejectGtt(e) ==
  /\ pc[e] = "reject"
  /\ gttStatus' = [gttStatus EXCEPT ![my[e].gtt] = "rejected"]
  /\ Goto(e, "revertClaim")
  /\ UNCHANGED <<gttMargin, due, legs, money, my>>

RevertParent(e) ==
  LET g == my[e].gtt
  IN  /\ pc[e] = "revertParent"
      /\ gttStatus' = IF gttStatus[g] = "triggered"
                      THEN [gttStatus EXCEPT ![g] = "active"] ELSE gttStatus
      /\ Goto(e, "revertClaim")
      /\ UNCHANGED <<gttMargin, due, legs, money, my>>

RevertClaim(e) ==
  LET l == my[e].leg
  IN  /\ pc[e] = "revertClaim"
      /\ \/ /\ legStatus[l] = "triggering"
            /\ legStatus' = [legStatus EXCEPT ![l] = "pending"]
            /\ stale' = [stale EXCEPT ![l] = FALSE]
         \/ /\ legStatus[l] # "triggering"
            /\ UNCHANGED <<legStatus, stale>>
      /\ Return(e)
      /\ UNCHANGED <<gtts, legMargin, marked, money>>

-----------------------------------------------------------------------------
(***************************************************************************)
(* The sweepers.                                                           *)
(***************************************************************************)

\* Mutant: only the claims of GTTs that also claimed the parent.
ReclaimTriggeredLegs(s) ==
  LET dead == {l \in Legs : legStatus[l] = "triggering" /\ stale[l]
                              /\ gttStatus[Parent[l]] = "triggered"}
  IN  /\ pc[s] = "idle"
      /\ legStatus' = [l \in Legs |-> IF l \in dead THEN "pending" ELSE legStatus[l]]
      /\ stale' = [l \in Legs |-> stale[l] /\ l \notin dead]
      /\ Goto(s, "stranded")
      /\ UNCHANGED <<gtts, legMargin, marked, money, my>>

\* Claims older than the timeout go back to pending.
ReclaimLegs(s) ==
  /\ pc[s] = "idle"
  /\ legStatus' = [l \in Legs |-> IF legStatus[l] = "triggering" /\ stale[l]
                                  THEN "pending" ELSE legStatus[l]]
  /\ stale' = [l \in Legs |-> stale[l] /\ legStatus[l] # "triggering"]
  /\ Goto(s, "stranded")
  /\ UNCHANGED <<gtts, legMargin, marked, money, my>>

SweepAlone == \A t \in Threads : ~Firing(t) /\ ~Sweeping(t)

\* Mutant: only the GTTs with a leg still claimed.
QueryClaimed(s) ==
  /\ pc[s] = "stranded" /\ SweepAlone
  /\ Keep(s, [Fresh EXCEPT !.todo =
                {g \in Gtts : /\ gttStatus[g] = "triggered"
                              /\ \E l \in LegsOf(g) : legStatus[l] = "triggering"}])
  /\ Goto(s, "sweep")
  /\ UNCHANGED <<gtts, legs, money>>

\* reclaim_stranded_parents: every triggered GTT, whatever its age.
QueryStranded(s) ==
  /\ pc[s] = "stranded"
  /\ "sweepOverlap" \in Admitted \/ SweepAlone
  /\ Keep(s, [Fresh EXCEPT !.todo = {g \in Gtts : gttStatus[g] = "triggered"}])
  /\ Goto(s, "sweep")
  /\ UNCHANGED <<gtts, legs, money>>

SweepDone(s) ==
  /\ pc[s] = "sweep" /\ my[s].todo = {}
  /\ Return(s)
  /\ UNCHANGED <<gtts, legs, money>>

\* A leg bears the order id, or no leg could still fire: nothing to do.
SweepSkips(s, g) ==
  /\ pc[s] = "sweep" /\ g \in my[s].todo
  /\ \/ \E l \in LegsOf(g) : marked[l]
     \/ /\ \A l \in LegsOf(g) : ~Placed(l)
        /\ \A l \in LegsOf(g) : legStatus[l] \notin {"pending", "triggering"}
  /\ Keep(s, [my[s] EXCEPT !.todo = @ \ {g}])
  /\ UNCHANGED <<gtts, legs, money, pc>>

\* The order of some leg exists: that leg is marked, and the GTT has fired.
SweepFinalises(s, g) ==
  /\ pc[s] = "sweep" /\ g \in my[s].todo
  /\ \A l \in LegsOf(g) : ~marked[l]
  /\ \E l \in LegsOf(g) :
       /\ Placed(l)
       /\ legStatus' = [legStatus EXCEPT ![l] = "triggered"]
       /\ marked' = [marked EXCEPT ![l] = TRUE]
       /\ stale' = [stale EXCEPT ![l] = FALSE]
  /\ Keep(s, [my[s] EXCEPT !.todo = @ \ {g}])
  /\ UNCHANGED <<gtts, legMargin, money, pc>>

\* Mutant: the legs are believed, the orders not looked up.
SweepInspectsLegs(s, g) ==
  /\ pc[s] = "sweep" /\ g \in my[s].todo
  /\ \A l \in LegsOf(g) : ~marked[l]
  /\ \E l \in LegsOf(g) : legStatus[l] \in {"pending", "triggering"}
  /\ Keep(s, [my[s] EXCEPT !.todo = @ \ {g}, !.gtt = g, !.held = gttMargin[g],
                           !.ask = IF gttMargin[g] > 0 THEN 0 ELSE Larger(g, legMargin)])
  /\ Goto(s, IF gttMargin[g] > 0 THEN "rearm" ELSE "block")
  /\ UNCHANGED <<gtts, legs, money>>

\* No order exists: keep the reservation if it stands, else block again what
\* the larger leg needs.
SweepInspects(s, g) ==
  /\ pc[s] = "sweep" /\ g \in my[s].todo
  /\ \A l \in LegsOf(g) : ~marked[l] /\ ~Placed(l)
  /\ \E l \in LegsOf(g) : legStatus[l] \in {"pending", "triggering"}
  /\ Keep(s, [my[s] EXCEPT !.todo = @ \ {g}, !.gtt = g, !.held = gttMargin[g],
                           !.ask = IF gttMargin[g] > 0 THEN 0 ELSE Larger(g, legMargin)])
  /\ Goto(s, IF gttMargin[g] > 0 THEN "rearm" ELSE "block")
  /\ UNCHANGED <<gtts, legs, money>>

NextStranded(s) ==
  Goto(s, "sweep") /\ Keep(s, [Fresh EXCEPT !.todo = my[s].todo])

\* Mutant: what was blocked again is not recorded.
RearmUnrecorded(s) ==
  LET g == my[s].gtt
  IN  /\ pc[s] = "rearm"
      /\ gttStatus' = [gttStatus EXCEPT ![g] = "active"]
      /\ legStatus' = [l \in Legs |-> IF Parent[l] = g /\ legStatus[l] = "triggering"
                                      THEN "pending" ELSE legStatus[l]]
      /\ NextStranded(s)
      /\ UNCHANGED <<gttMargin, due, legMargin, stale, marked, money>>

\* Back to active with its claims, in one commit.
Rearm(s) ==
  LET g == my[s].gtt
  IN  /\ pc[s] = "rearm"
      /\ \/ /\ gttStatus[g] = "triggered"
            /\ gttStatus' = [gttStatus EXCEPT ![g] = "active"]
            /\ gttMargin' = [gttMargin EXCEPT ![g] = my[s].held + my[s].ask]
         \/ /\ gttStatus[g] # "triggered"
            /\ UNCHANGED <<gttStatus, gttMargin>>
      /\ legStatus' = [l \in Legs |-> IF Parent[l] = g /\ legStatus[l] = "triggering"
                                      THEN "pending" ELSE legStatus[l]]
      /\ stale' = [l \in Legs |-> stale[l] /\ ~(Parent[l] = g /\ legStatus[l] = "triggering")]
      /\ NextStranded(s)
      /\ UNCHANGED <<due, legMargin, marked, money>>

SweepRejects(s) ==
  /\ pc[s] = "sweepReject"
  /\ gttStatus' = [gttStatus EXCEPT ![my[s].gtt] = "rejected"]
  /\ NextStranded(s)
  /\ UNCHANGED <<gttMargin, due, legs, money>>

\* Mutant: the margins of the legs are released, not the reservation.
ExpireLegMargins(s, g) ==
  /\ due[g]
  /\ ReadActive(s, g, "expire")
  /\ Keep(s, [Fresh EXCEPT !.gtt = g, !.held = Both(g, legMargin)])

\* expire_due_gtts.
ExpireRead(s, g) ==
  /\ due[g]
  /\ ReadActive(s, g, "expire")
  /\ Keep(s, [Fresh EXCEPT !.gtt = g, !.held = gttMargin[g]])

\* Unlike a cancel it leaves a claimed leg to its claimant.
ExpireCommit(s) == pc[s] = "expire" /\ Withdraw(s, "expired", {"pending"})

-----------------------------------------------------------------------------
\* The claim of a leg gets older than gtt_claim_timeout_sec.
ClaimAges(l) ==
  /\ legStatus[l] = "triggering" /\ ~stale[l]
  /\ stale' = [stale EXCEPT ![l] = TRUE]
  /\ UNCHANGED <<gtts, legStatus, legMargin, marked, money, pc, my>>

\* The GTT passes its expires_at.
FallsDue(g) ==
  /\ gttStatus[g] = "active" /\ ~due[g]
  /\ due' = [due EXCEPT ![g] = TRUE]
  /\ UNCHANGED <<gttStatus, gttMargin, legs, money, pc, my>>

\* What the threads have blocked and not yet written to a row.
InFlight(t) ==
  IF pc[t] \in {"insert", "restored", "rearm"} THEN my[t].ask ELSE 0

Blocked == [t \in Threads |-> InFlight(t)]

\* Where a thread goes on when the statement it is at raises.
Rescue(t) ==
  CASE pc[t] = "owner" -> "compensate"
    [] pc[t] = "block" -> Refused(t)
    [] pc[t] = "restored" -> "revertParent"
    [] pc[t] = "unfunded" -> "reject"
    [] pc[t] \in {"reject", "revertParent"} -> "revertClaim"
    [] OTHER -> "idle"

\* Every step of the undoing rolls back its own failure, logs it and goes on
\* with the next; a failure anywhere else ends the call or the pass.
DatabaseFails(t) ==
  /\ "databaseFails" \in Admitted
  /\ pc[t] \notin {"idle", "release", "order", "insert", "finalise", "compensate"}
  /\ InFlight(t) > 0 => leaked < MaxLeaked
  /\ leaked' = leaked + InFlight(t)
  /\ IF Rescue(t) = "idle" THEN Return(t) ELSE Goto(t, Rescue(t)) /\ UNCHANGED my
  /\ UNCHANGED <<gtts, legs, order, funds>>

\* The process dies; what is committed stays.
Crash ==
  /\ "crash" \in Admitted
  /\ \E t \in Threads : pc[t] # "idle"
  /\ pc' = [t \in Threads |-> "idle"]
  /\ my' = [t \in Threads |-> Fresh]
  /\ leaked' = leaked + SumFunctionOnSet(Blocked, Threads)
  /\ UNCHANGED <<gtts, legs, order, funds>>

Init ==
  /\ gttStatus = [g \in Gtts |-> "none"]
  /\ gttMargin = [g \in Gtts |-> 0]
  /\ legStatus = [l \in Legs |-> "none"]
  /\ legMargin = [l \in Legs |-> 0]
  /\ stale = [l \in Legs |-> FALSE]
  /\ marked = [l \in Legs |-> FALSE]
  /\ order = [l \in Legs |-> NoOrder]
  /\ due = [g \in Gtts |-> FALSE]
  /\ funds = [available |-> Capital, used |-> 0]
  /\ leaked = 0
  /\ pc = [t \in Threads |-> "idle"]
  /\ my = [t \in Threads |-> Fresh]

\* The calls a user may or may not make.
Call(r) == \E g \in Gtts : PlaceGtt(r, g) \/ ModifyRead(r, g) \/ CancelRead(r, g)

Serve(r) == ModifyCommit(r) \/ CancelCommit(r)

Fire(e) ==
  \/ CheckLeg(e) \/ ClaimParent(e) \/ ReadReservation(e)
  \/ ReleaseReservation(e) \/ ReleaseFails(e)
  \/ OrderRefused(e) \/ OrderPriced(e) \/ InsertOrder(e)
  \/ BlockMargin(e)
  \/ Finalise(e) \/ FinaliseFails(e)
  \/ Compensate(e) \/ PersistRestored(e) \/ PersistUnfunded(e) \/ RejectGtt(e)
  \/ RevertParent(e) \/ RevertClaim(e)

Reclaim(s) ==
  \/ ReclaimLegs(s) \/ QueryStranded(s) \/ SweepDone(s)
  \/ \E g \in Gtts : SweepSkips(s, g) \/ SweepFinalises(s, g) \/ SweepInspects(s, g)
  \/ BlockMargin(s)
  \/ Rearm(s) \/ SweepRejects(s)

\* What a process does while nothing fails it.
Step ==
  \/ \E r \in Requests : Call(r) \/ Serve(r)
  \/ \E e \in Evaluators : Fire(e) \/ \E l \in Legs : Claim(e, l)
  \/ \E s \in Sweepers :
       Reclaim(s) \/ ExpireCommit(s) \/ \E g \in Gtts : ExpireRead(s, g)
  \/ \E l \in Legs : ClaimAges(l)
  \/ \E g \in Gtts : FallsDue(g)

Fault == Crash \/ \E t \in Threads : DatabaseFails(t)

Next == Step \/ Fault

Spec == Init /\ [][Next]_vars

\* A thread that began a call or a fire goes on, the sweep is periodic, and
\* time passes.  Nothing obliges the user to call or the market to cross.
Fairness ==
  /\ \A r \in Requests : WF_vars(Serve(r))
  /\ \A e \in Evaluators : WF_vars(Fire(e))
  /\ \A s \in Sweepers : /\ WF_vars(Reclaim(s) \/ ExpireCommit(s))
                          /\ SF_vars(ReclaimLegs(s)) /\ SF_vars(QueryStranded(s))
                          /\ \A g \in Gtts : SF_vars(ExpireRead(s, g))
  /\ \A l \in Legs : WF_vars(ClaimAges(l))

FairSpec == Spec /\ Fairness

-----------------------------------------------------------------------------
(***************************************************************************)
(* Properties.                                                             *)
(***************************************************************************)

Locals == [leg : Legs \cup {NoLeg}, gtt : Gtts \cup {NoGtt}, held : Nat, ask : Nat,
           undo : BOOLEAN,
           quote : [Legs -> Nat], todo : SUBSET Gtts]

\* Type correctness; balances and reservations are never negative.
TypeOK ==
  /\ gttStatus \in [Gtts -> GttStates]
  /\ gttMargin \in [Gtts -> Nat]
  /\ legStatus \in [Legs -> LegStates]
  /\ legMargin \in [Legs -> Nat]
  /\ due \in [Gtts -> BOOLEAN]
  /\ stale \in [Legs -> BOOLEAN]
  /\ marked \in [Legs -> BOOLEAN]
  /\ order \in [Legs -> Nat \cup {NoOrder}]
  /\ funds \in [available : Nat, used : Nat]
  /\ pc \in [Threads -> Pcs]
  /\ my \in [Threads -> Locals]

\* "Firing must happen exactly once": no two legs of a GTT ever have an order,
\* whichever evaluators, requests, sweeps and crashes interleave.
OneOrderPerGtt ==
  \A l, k \in Legs : Parent[l] = Parent[k] /\ Placed(l) /\ Placed(k) => l = k

\* A GTT that the user cancelled, that expired, that was rejected, or that
\* still rests has placed no order: a cancel that reports success is final.
OrderMeansTriggered ==
  \A l \in Legs : Placed(l) => gttStatus[Parent[l]] = "triggered"

\* The promise behind the claim protocol: seen by its user, a GTT rests until
\* the order row of one leg is committed; this is the only firing, and no
\* transaction, sweep or recovery takes a GTT out of an end.
FiredLeg(g) ==
  IF \E l \in LegsOf(g) : Placed(l) THEN CHOOSE l \in LegsOf(g) : Placed(l) ELSE NoLeg

SeenAs(g) ==
  IF \E l \in LegsOf(g) : Placed(l) THEN "fired"
  ELSE IF gttStatus[g] \in {"active", "triggered"} THEN "resting" ELSE gttStatus[g]

Contract == INSTANCE GttContract WITH
  state <- [g \in Gtts |-> SeenAs(g)], fired <- [g \in Gtts |-> FiredLeg(g)]

KeepsContract == Contract!Spec

\* A GTT that can still fire holds enough to fund either of its legs: it is
\* never handed back to the evaluators armed and unfunded.
ArmedIsFunded ==
  \A g \in Gtts : gttStatus[g] = "active" => gttMargin[g] >= Larger(g, legMargin)

Reserved ==
  SumFunctionOnSet(gttMargin, Gtts)
    + SumFunctionOnSet(order, {l \in Legs : Placed(l)})
    + SumFunctionOnSet(Blocked, Threads)

\* The ledger is the sum of what the GTTs, the orders and the blocks under way
\* hold, rupee for rupee, but for what a crash or a failed write left blocked:
\* nothing is released twice, and nothing else is lost.
LedgerExact == funds.used = Reserved + leaked

\* The comment of cancel_gtt on the margin it read before its UPDATE: "if our
\* UPDATE matches then this value was still current".
CapturedIsCurrent ==
  \A t \in Threads :
    pc[t] = "cancel" /\ gttStatus[my[t].gtt] = "active" => my[t].held = gttMargin[my[t].gtt]

\* A GTT whose fire was interrupted is re-armed, rejected, or recorded as
\* fired, once failures cease.
Stranded(g) == gttStatus[g] = "triggered" /\ \A l \in LegsOf(g) : ~marked[l]
StrandedRecovers ==
  <>[][Step]_vars => \A g \in Gtts : Stranded(g) ~> ~Stranded(g)

\* A claim does not hold its leg for ever, once failures cease.
ClaimIsTemporary ==
  <>[][Step]_vars =>
    \A l \in Legs : legStatus[l] = "triggering" ~> legStatus[l] # "triggering"

\* A GTT past its expiry does not rest, holding its margin, for ever, once
\* failures cease and the user stops re-pricing it.
ExpiryIsServed ==
  <>[][Step /\ \A r \in Requests : ~Call(r)]_vars =>
    \A g \in Gtts : due[g] /\ gttStatus[g] = "active" ~> gttStatus[g] # "active"
=============================================================================
