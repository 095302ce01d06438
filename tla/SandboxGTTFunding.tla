-------------------------- MODULE SandboxGTTFunding --------------------------
(***************************************************************************)
(* Why the margin of a GTT is neither lost nor counted twice: the          *)
(* inductive invariants behind ArmedIsFunded, LedgerExact and the comment  *)
(* of cancel_gtt.  While a GTT is fired its reservation moves from its row *)
(* to a local variable of the one owner and, when the fire is undone, back *)
(* through block_margin to the row.                                        *)
(***************************************************************************)
EXTENDS SandboxGTTExclusion

\* Nothing but the process, the INSERT of the order and its answer fails.
Repairable == Admitted \cap {"sweepOverlap", "databaseFails"} = {}

\* And modify, cancel and expire do not overlap.
Accounted == Repairable /\ "requestsOverlap" \notin Admitted

\* Where the row still, or again, records the reservation of a GTT that is
\* fired; and where only the owner remembers it.
Recorded == {"owner", "release", "revertParent"}
Remembered == {"order", "block", "insert", "compensate", "restored"}

\* What the GTT gets back if the fire is undone from here.
GivesBack(e) == IF pc[e] \in Recorded THEN gttMargin[my[e].gtt] ELSE my[e].held

\* An owner can give back enough for either leg, and knows what it released.
FundedOwner(e) ==
  Firing(e) =>
    /\ pc[e] \in Recorded \cup Remembered =>
         GivesBack(e) >= Larger(my[e].gtt, legMargin)
    /\ pc[e] \notin Recorded => gttMargin[my[e].gtt] = 0
    /\ pc[e] = "release" => my[e].held = gttMargin[my[e].gtt]

\* It blocks for the order first, and for the undoing what it had released.
AsksInTurn(e) ==
  /\ pc[e] \in {"claimed", "checked", "owner", "release", "order", "insert", "compensate"}
       => ~my[e].undo
  /\ pc[e] = "restored" \/ (pc[e] = "block" /\ my[e].undo) => my[e].ask = my[e].held

\* A sweep works with what the row holds, and makes up what is missing.
FundedSweep(s) ==
  Inspected(s) =>
    /\ my[s].held = gttMargin[my[s].gtt]
    /\ pc[s] # "sweepReject" => my[s].held + my[s].ask >= Larger(my[s].gtt, legMargin)

\* A GTT that rests is funded; one interrupted in its fire is, or holds nothing.
FundedGtt(g) ==
  /\ gttStatus[g] = "none" => gttMargin[g] = 0
  /\ gttStatus[g] = "active" => gttMargin[g] >= Larger(g, legMargin)
  /\ gttStatus[g] = "triggered" => gttMargin[g] = 0 \/ gttMargin[g] >= Larger(g, legMargin)

Funding ==
  /\ \A e \in Evaluators : FundedOwner(e) /\ AsksInTurn(e)
  /\ \A s \in Sweepers : FundedSweep(s)
  /\ \A g \in Gtts : FundedGtt(g)

-----------------------------------------------------------------------------
\* A thread between the read of a reservation and the commit that uses it.
Capturing(t) == pc[t] \in {"modify", "cancel", "expire"}

OneCapture == \A t, u \in Threads : Capturing(t) /\ Capturing(u) => t = u

\* Behind the back of that thread its GTT may be fired, and the fire undone, but
\* then the owner gives back what the thread has read.
CaptureStands(t) ==
  Capturing(t) =>
    /\ my[t].gtt \in Gtts /\ gttStatus[my[t].gtt] # "none"
    /\ gttStatus[my[t].gtt] = "active" => my[t].held = gttMargin[my[t].gtt]
    /\ gttStatus[my[t].gtt] = "triggered" =>
         \/ \E e \in Evaluators : Firing(e) /\ my[e].gtt = my[t].gtt
         \/ \E l \in Legs : Parent[l] = my[t].gtt /\ Placed(l)
    /\ \A e \in Evaluators :
         Firing(e) /\ my[e].gtt = my[t].gtt /\ pc[e] \in Recorded \cup Remembered =>
           GivesBack(e) = my[t].held

\* The fire that comes to its end has placed the order.
FinalisesPlaced == \A e \in Evaluators : pc[e] = "finalise" => Placed(my[e].leg)

Captures == OneCapture /\ FinalisesPlaced /\ \A t \in Threads : CaptureStands(t)

Exact == leaked \in Nat /\ LedgerExact

Accounts == Captures /\ Exact
=============================================================================
