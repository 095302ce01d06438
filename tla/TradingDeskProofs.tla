-------------------------- MODULE TradingDeskProofs ---------------------------
(***************************************************************************)
(* For any orders, requests, events, callbacks, workflows and bounds: the  *)
(* Action Center keeps its contract when decisions do not overlap and      *)
(* answers arrive; the bus accounts for every slot; and when no trigger is *)
(* registered again while a run of it is in flight, and no restart arms a  *)
(* watch that has run, a one-shot trigger runs once, runs do not stack up, *)
(* and a watch goes only when its workflow is deactivated.                 *)
(*                                                                         *)
(* What the Action Center, the bus and the triggers promise by themselves, *)
(* they promise in one process: every step of the desk is a step of each   *)
(* component or leaves it as it is.                                        *)
(***************************************************************************)
EXTENDS TradingDesk, FiniteSetTheorems, TLAPS

-----------------------------------------------------------------------------
(***************************************************************************)
(* The Action Center keeps ApprovalContract when no two decisions overlap  *)
(* and no answer of the broker is lost, crashes included: a row leaves     *)
(* 'pending' once, so that at most one request ever executes it, and       *)
(* between that request's commit and its last write nobody else sends the  *)
(* order or tells a verdict.                                               *)
(***************************************************************************)

\* The assumption of the theorems on the contract.
Orderly == CenterAdmitted = {}

Undecided == \A o \in Orders :
  rows[o].status \in {"none", "pending"} =>
    taken[o] = -1 /\ rows[o].broker = "none" /\ o \notin deleted

DecidesAlone == \A h \in Handlers :
  handlers[h].at = "deciding" =>
    /\ IsAwaiting(handlers[h].order)
    /\ \A g \in Handlers : handlers[g].at = "deciding" => g = h

\* What a request that executes an order knows of it.
InHand(h, o) ==
  /\ rows[o].status = "approved" /\ rows[o].broker = "none"
  /\ handlers[h].at \in {"executing", "sending"} => taken[o] = -1
  /\ handlers[h].at = "telling" => handlers[h].verdict = Verdict(o, taken[o])

WorksAlone == \A h \in Handlers :
  Works(h) =>
    /\ InHand(h, handlers[h].order)
    /\ \A g \in Handlers : Works(g) /\ handlers[g].order = handlers[h].order => g = h

CenterSound == Undecided /\ DecidesAlone /\ WorksAlone

-----------------------------------------------------------------------------
(***************************************************************************)
(* Requests.                                                               *)
(***************************************************************************)
LEMMA RequestParts ==
  ASSUME NEW r \in Request
  PROVE  /\ r.at \in {"idle", "next", "deciding", "executing", "sending", "telling"}
         /\ r.at = "next" => r.decision \in {"approved", "rejected"} /\ r.todo \subseteq Orders
         /\ r.at = "deciding" => /\ r.decision \in {"approved", "rejected"}
                                 /\ r.todo \subseteq Orders /\ r.order \in Orders
         /\ r.at \in {"executing", "sending", "telling"} =>
              r.todo \subseteq Orders /\ r.order \in Orders
         /\ r.at = "telling" => r.verdict \in {"open", "partial", "rejected"}
  BY DEF Request, NoRequest

LEMMA OnwardType ==
  ASSUME CenterTypeOK, NEW h \in Handlers, NEW todo \in SUBSET Orders,
         NEW decision \in {"approved", "rejected"}, Onward(h, todo, decision)
  PROVE  /\ handlers' \in [Handlers -> Request]
         /\ handlers'[h].at \in {"idle", "next"}
         /\ \A g \in Handlers \ {h} : handlers'[g] = handlers[g]
<1> DEFINE r == IF todo = {} THEN NoRequest
                ELSE [at |-> "next", decision |-> decision, todo |-> todo]
<1>1. r \in Request /\ r.at \in {"idle", "next"}
  BY DEF Request, NoRequest
<1>2. handlers' = [handlers EXCEPT ![h] = r]
  BY DEF Onward, Continues
<1> HIDE DEF r
<1> QED
  BY <1>1, <1>2 DEF CenterTypeOK

LEMMA ContinuesType ==
  ASSUME CenterTypeOK, NEW h \in Handlers, NEW r \in Request, Continues(h, r)
  PROVE  /\ handlers' \in [Handlers -> Request]
         /\ handlers'[h] = r
         /\ \A g \in Handlers \ {h} : handlers'[g] = handlers[g]
  BY DEF CenterTypeOK, Continues

LEMMA TellKeeps ==
  ASSUME CenterTypeOK, NEW o \in Orders, NEW verdict \in {"open", "partial", "rejected"},
         Tell(o, verdict)
  PROVE  /\ rows' \in [Orders -> Row]
         /\ \A p \in Orders : rows'[p].status = rows[p].status
         /\ \A p \in Orders \ {o} : rows'[p] = rows[p]
         /\ rows'[o].broker = (IF o \in deleted THEN rows[o].broker ELSE verdict)
<1>1. CASE o \in deleted
  BY <1>1 DEF CenterTypeOK, Tell
<1>2. CASE o \notin deleted
  <2>1. rows[o] \in Row
    BY DEF CenterTypeOK
  <2>2. [rows[o] EXCEPT !.broker = verdict] = [status |-> rows[o].status, broker |-> verdict]
    BY <2>1 DEF Row
  <2>3. rows' = [rows EXCEPT ![o] = [rows[o] EXCEPT !.broker = verdict]]
    BY <1>2 DEF Tell
  <2>4. rows' = [rows EXCEPT ![o] = [status |-> rows[o].status, broker |-> verdict]]
    BY <2>2, <2>3
  <2> QED
    BY <1>2, <2>1, <2>4 DEF CenterTypeOK, Row
<1> QED
  BY <1>1, <1>2

LEMMA VerdictType ==
  ASSUME NEW o \in Orders, NEW n \in Int
  PROVE  Verdict(o, n) \in {"open", "partial", "rejected"}
  BY DEF Verdict

\* Nothing was sent: nothing was taken.
LEMMA VerdictUnsent ==
  ASSUME NEW o \in Orders
  PROVE  Verdict(o, -1) = "rejected"
  BY CenterAssumption DEF Verdict

\* The two modules mean the same by a verdict.
LEMMA SameVerdict ==
  ASSUME NEW o \in Orders, NEW n \in Int
  PROVE  Approval!Verdict(o, n) = Verdict(o, n)
  BY DEF Verdict, Approval!Verdict

-----------------------------------------------------------------------------
(***************************************************************************)
(* Type correctness, whatever overlaps and whatever answer is lost.        *)
(***************************************************************************)

\* A handler that goes on to its next order leaves the types as they were.
LEMMA OnwardTyped ==
  ASSUME CenterTypeOK, NEW h \in Handlers, handlers[h].at \in {"executing", "sending", "telling"},
         Onward(h, handlers[h].todo, "approved")
  PROVE  handlers' \in [Handlers -> Request]
<1>1. handlers[h] \in Request
  BY DEF CenterTypeOK
<1>2. handlers[h].todo \in SUBSET Orders
  BY <1>1, RequestParts
<1> QED
  BY <1>2, OnwardType

\* A request that serves its order leaves the types as they were.
LEMMA ServesTyped ==
  ASSUME CenterTypeOK, NEW h \in Handlers, Serves(h)
  PROVE  CenterTypeOK'
<1> DEFINE r == handlers[h]
           o == handlers[h].order
<1>1. r \in Request
  BY DEF CenterTypeOK
<1>2. ASSUME NEW p \in Orders, Finds(h, p)
      PROVE  CenterTypeOK'
  <2>1. r.at = "next" /\ r.decision \in {"approved", "rejected"} /\ r.todo \ {p} \subseteq Orders
    BY <1>1, <1>2, RequestParts DEF Finds
  <2>2. [at |-> "deciding", decision |-> r.decision, todo |-> r.todo \ {p}, order |-> p] \in Request
    BY <2>1 DEF Request
  <2>3. handlers' \in [Handlers -> Request]
    BY <1>2, <2>2, ContinuesType DEF Finds
  <2> QED
    BY <1>2, <2>3 DEF Finds, CenterTypeOK
<1>3. ASSUME NEW p \in Orders, Misses(h, p)
      PROVE  CenterTypeOK'
  <2>1. r.decision \in {"approved", "rejected"} /\ r.todo \ {p} \in SUBSET Orders
    BY <1>1, <1>3, RequestParts DEF Misses
  <2>2. handlers' \in [Handlers -> Request]
    BY <1>3, <2>1, OnwardType DEF Misses
  <2> QED
    BY <1>3, <2>2 DEF Misses, CenterTypeOK
<1>4. CASE Decides(h)
  <2>1. r.decision \in {"approved", "rejected"} /\ r.todo \subseteq Orders /\ o \in Orders
    BY <1>1, <1>4, RequestParts DEF Decides
  <2> DEFINE next == IF r.decision = "rejected" THEN NoRequest
                     ELSE [at |-> "executing", todo |-> r.todo, order |-> o]
  <2>2. next \in Request
    BY <2>1 DEF Request
  <2>3. Continues(h, next)
    BY <1>4 DEF Decides
  <2>4. handlers' \in [Handlers -> Request]
    BY <2>2, <2>3, ContinuesType
  <2>5. rows' \in [Orders -> Row]
    BY <1>4, <2>1 DEF Decides, CenterTypeOK, Row
  <2> QED
    BY <1>4, <2>4, <2>5 DEF Decides, CenterTypeOK
<1>5. CASE LacksLogin(h)
  <2>1. o \in Orders
    BY <1>1, <1>5, RequestParts DEF LacksLogin
  <2>2. rows' \in [Orders -> Row]
    BY <1>5, <2>1, TellKeeps DEF LacksLogin
  <2> QED
    BY <1>5, <2>2, OnwardTyped DEF LacksLogin, CenterTypeOK
<1>6. CASE Executes(h)
  <2>1. o \in Orders /\ r.todo \subseteq Orders
    BY <1>1, <1>6, RequestParts DEF Executes
  <2>2. [at |-> "sending", todo |-> r.todo, order |-> o] \in Request
    BY <2>1 DEF Request
  <2>3. handlers' \in [Handlers -> Request]
    BY <1>6, <2>2, OnwardTyped, ContinuesType DEF Executes
  <2> QED
    BY <1>6, <2>3 DEF Executes, CenterTypeOK
<1>7. CASE FindsMatched(h)
  <2>1. handlers' \in [Handlers -> Request]
    BY <1>7, OnwardTyped DEF FindsMatched
  <2>2. o \in Orders
    BY <1>1, <1>7, RequestParts DEF FindsMatched
  <2>3. taken' \in [Orders -> Int]
    BY <1>7, <2>2 DEF FindsMatched, CenterTypeOK
  <2> QED
    BY <1>7, <2>1, <2>3 DEF FindsMatched, CenterTypeOK
<1>8. CASE Tells(h)
  <2>1. o \in Orders /\ r.verdict \in {"open", "partial", "rejected"}
    BY <1>1, <1>8, RequestParts DEF Tells
  <2>2. rows' \in [Orders -> Row]
    BY <1>8, <2>1, TellKeeps DEF Tells
  <2> QED
    BY <1>8, <2>2, OnwardTyped DEF Tells, CenterTypeOK
<1>9. ASSUME r.at = "sending", NEW n \in 0..Children[o], Sends(h, n)
      PROVE  CenterTypeOK'
  <2>1. o \in Orders /\ r.todo \subseteq Orders /\ n \in Int
    BY <1>1, <1>9, RequestParts
  <2>2. PICK verdict \in {"open", "partial", "rejected"} :
          Continues(h, [at |-> "telling", todo |-> r.todo, order |-> o, verdict |-> verdict])
    BY <1>9, <2>1, VerdictType DEF Sends
  <2>3. [at |-> "telling", todo |-> r.todo, order |-> o, verdict |-> verdict] \in Request
    BY <2>1 DEF Request
  <2>4. handlers' \in [Handlers -> Request]
    BY <2>2, <2>3, ContinuesType
  <2>5. taken' \in [Orders -> Int]
    BY <1>9, <2>1 DEF Sends, CenterTypeOK
  <2> QED
    BY <1>9, <2>4, <2>5 DEF Sends, CenterTypeOK
<1> QED
  BY <1>2, <1>3, <1>4, <1>5, <1>6, <1>7, <1>8, <1>9 DEF Serves

\* A request is asked for one row or for all that wait.
LEMMA RequestedTyped ==
  ASSUME CenterTypeOK, NEW h \in Handlers, NEW todo \in SUBSET Orders,
         NEW decision \in {"approved", "rejected"}, Requested(h, decision, todo)
  PROVE  CenterTypeOK'
<1>1. [at |-> "next", decision |-> decision, todo |-> todo] \in Request
  BY DEF Request
<1>2. handlers' \in [Handlers -> Request]
  BY <1>1, ContinuesType DEF Requested
<1> QED
  BY <1>2 DEF Requested, CenterTypeOK

\* Every step leaves the types as they were.
LEMMA CenterStepTyped ==
  ASSUME CenterTypeOK, [CenterNext \/ CenterRestart]_centerVars
  PROVE  CenterTypeOK'
<1>1. ASSUME NEW o \in Orders, Asks(o) \/ Deletes(o)
      PROVE  CenterTypeOK'
  BY <1>1 DEF Asks, Deletes, CenterTypeOK, Row
<1>2. ASSUME NEW h \in Handlers, ApproveAll(h)
      PROVE  CenterTypeOK'
  BY <1>2, RequestedTyped DEF ApproveAll
<1>3. ASSUME NEW h \in Handlers, NEW o \in Orders, ApproveOne(h, o) \/ RejectOne(h, o)
      PROVE  CenterTypeOK'
  <2>1. {o} \in SUBSET Orders
    OBVIOUS
  <2> QED
    BY <1>3, <2>1, RequestedTyped DEF ApproveOne, RejectOne
<1>4. ASSUME NEW h \in Handlers, Serves(h)
      PROVE  CenterTypeOK'
  BY <1>4, ServesTyped
<1>5. CASE CenterRestart
  <2>1. handlers' \in [Handlers -> Request]
    BY <1>5 DEF CenterRestart, Request
  <2>2. \A h \in {g \in Handlers : Works(g)} : handlers[h].order \in Orders
    <3> SUFFICES ASSUME NEW h \in Handlers, Works(h)
                 PROVE  handlers[h].order \in Orders
      OBVIOUS
    <3>1. handlers[h] \in Request
      BY DEF CenterTypeOK
    <3> QED
      BY <3>1, RequestParts DEF Works
  <2> QED
    BY <1>5, <2>1, <2>2 DEF CenterRestart, CenterTypeOK
<1>6. CASE UNCHANGED centerVars
  BY <1>6 DEF centerVars, CenterTypeOK
<1> QED
  BY <1>1, <1>2, <1>3, <1>4, <1>5, <1>6 DEF CenterNext

\* The rows of pending_orders and the requests at work on them keep their types
\* under every hazard and through crashes at any point, for any orders and any
\* number of requests: the executor writes no status that the table does not know.
THEOREM CenterTypeCorrect == CenterSpec => []CenterTypeOK
<1>1. CenterInit => CenterTypeOK
  BY DEF CenterInit, CenterTypeOK, Row, Request
<1>2. CenterTypeOK /\ [CenterNext \/ CenterRestart]_centerVars => CenterTypeOK'
  BY CenterStepTyped
<1> QED
  BY <1>1, <1>2, PTL DEF CenterSpec

-----------------------------------------------------------------------------
(***************************************************************************)
(* Steps of the contract.                                                  *)
(***************************************************************************)
Step == [Approval!Next]_Approval!vars

Kept == CenterTypeOK' /\ CenterSound' /\ Step

LEMMA StutterImplements == UNCHANGED <<rows, taken>> => Step
  BY DEF Step, Approval!vars

\* A request that steps back from its order, or had none, leaves the rest as it was.
LEMMA StepBackKeeps ==
  ASSUME CenterTypeOK, CenterSound, NEW h \in Handlers,
         handlers' \in [Handlers -> Request], handlers'[h].at \in {"idle", "next"},
         \A g \in Handlers \ {h} : handlers'[g] = handlers[g],
         UNCHANGED <<rows, deleted, taken, abandoned>>
  PROVE  Kept
<1>1. CenterTypeOK'
  BY DEF CenterTypeOK
<1>2. Undecided' /\ DecidesAlone'
  BY DEF CenterSound, Undecided, DecidesAlone, IsAwaiting
<1>3. WorksAlone'
  BY DEF CenterSound, WorksAlone, Works, InHand, Verdict
<1> QED
  BY <1>1, <1>2, <1>3, StutterImplements DEF Kept, CenterSound

LEMMA RequestedKeeps ==
  ASSUME CenterTypeOK, CenterSound, NEW h \in Handlers, NEW decision \in {"approved", "rejected"},
         NEW todo \in SUBSET Orders, Requested(h, decision, todo)
  PROVE  Kept
<1> DEFINE r == [at |-> "next", decision |-> decision, todo |-> todo]
<1>1. r \in Request /\ r.at = "next"
  BY DEF Request
<1>2. Continues(h, r) /\ UNCHANGED <<rows, deleted, taken, abandoned>>
  BY DEF Requested
<1> HIDE DEF r
<1> QED
  BY <1>1, <1>2, ContinuesType, StepBackKeeps

LEMMA MissesKeeps ==
  ASSUME CenterTypeOK, CenterSound, NEW h \in Handlers, NEW o \in Orders, Misses(h, o)
  PROVE  Kept
<1>1. handlers[h] \in Request /\ handlers[h].at = "next"
  BY DEF CenterTypeOK, Misses
<1>2. handlers[h].todo \ {o} \in SUBSET Orders /\ handlers[h].decision \in {"approved", "rejected"}
  BY <1>1, RequestParts
<1> QED
  BY <1>2, OnwardType, StepBackKeeps DEF Misses

LEMMA AsksKeeps ==
  ASSUME CenterTypeOK, CenterSound, NEW o \in Orders, Asks(o)
  PROVE  Kept
<1>1. rows[o] \in Row /\ rows[o].status = "none" /\ rows[o].broker = "none" /\ taken[o] = -1
  BY DEF CenterTypeOK, Asks, CenterSound, Undecided
<1>2. [rows[o] EXCEPT !.status = "pending"] = [status |-> "pending", broker |-> "none"]
  BY <1>1 DEF Row
<1>3. rows' = [rows EXCEPT ![o] = [status |-> "pending", broker |-> "none"]]
  BY <1>2 DEF Asks
<1>4. UNCHANGED <<deleted, taken, handlers, abandoned>>
  BY DEF Asks
<1>5. CenterTypeOK'
  BY <1>3, <1>4 DEF CenterTypeOK, Row
<1>6. Undecided'
  BY <1>1, <1>3, <1>4 DEF CenterTypeOK, CenterSound, Undecided
<1>7. DecidesAlone'
  BY <1>1, <1>3, <1>4, RequestParts DEF CenterTypeOK, CenterSound, DecidesAlone, IsAwaiting
<1>8. WorksAlone'
  <2>1. \A h \in Handlers : Works(h) => handlers[h].order \in Orders \ {o}
    BY <1>1, RequestParts DEF CenterTypeOK, CenterSound, WorksAlone, InHand, Works
  <2> QED
    BY <2>1, <1>3, <1>4 DEF CenterTypeOK, CenterSound, WorksAlone, InHand, Works, Verdict
<1>9. Approval!Ask(o)
  BY <1>1, <1>3, <1>4 DEF CenterTypeOK, Approval!Ask
<1> QED
  BY <1>5, <1>6, <1>7, <1>8, <1>9 DEF Kept, CenterSound, Step, Approval!Next

LEMMA FindsKeeps ==
  ASSUME Orderly, CenterTypeOK, CenterSound, NEW h \in Handlers, NEW o \in Orders, Finds(h, o)
  PROVE  Kept
<1> DEFINE r == [at |-> "deciding", decision |-> handlers[h].decision,
                 todo |-> handlers[h].todo \ {o}, order |-> o]
<1>1. handlers[h] \in Request /\ handlers[h].at = "next"
  BY DEF CenterTypeOK, Finds
<1>2. r \in Request /\ r.at = "deciding" /\ r.order = o
  BY <1>1, RequestParts DEF Request
<1>3. Continues(h, r) /\ IsAwaiting(o) /\ UNCHANGED <<rows, deleted, taken, abandoned>>
  BY DEF Finds
<1>4. \A g \in Handlers : handlers[g].at # "deciding"
  BY DEF Finds, Orderly
<1> HIDE DEF r
<1>5. /\ handlers' \in [Handlers -> Request] /\ handlers'[h] = r
      /\ \A g \in Handlers \ {h} : handlers'[g] = handlers[g]
  BY <1>2, <1>3, ContinuesType
<1>6. CenterTypeOK' /\ Undecided'
  BY <1>3, <1>5 DEF CenterTypeOK, CenterSound, Undecided
<1>7. DecidesAlone'
  BY <1>2, <1>3, <1>4, <1>5 DEF DecidesAlone, IsAwaiting
<1>8. WorksAlone'
  BY <1>2, <1>3, <1>5 DEF CenterSound, WorksAlone, Works, InHand, Verdict
<1> QED
  BY <1>3, <1>6, <1>7, <1>8, StutterImplements DEF Kept, CenterSound

LEMMA DecidesKeeps ==
  ASSUME CenterTypeOK, CenterSound, NEW h \in Handlers, Decides(h)
  PROVE  Kept
<1>1. handlers[h] \in Request /\ handlers[h].at = "deciding"
  BY DEF CenterTypeOK, Decides
<1> PICK o \in Orders, d \in {"approved", "rejected"}, todo \in SUBSET Orders :
      o = handlers[h].order /\ d = handlers[h].decision /\ todo = handlers[h].todo
  BY <1>1, RequestParts
<1> DEFINE r == IF d = "rejected" THEN NoRequest
                ELSE [at |-> "executing", todo |-> todo, order |-> o]
<1>3. /\ r \in Request
      /\ d = "rejected" => r.at = "idle"
      /\ d = "approved" => r.at = "executing" /\ r.order = o
  BY DEF Request, NoRequest
<1>4. Continues(h, r) /\ UNCHANGED <<deleted, taken, abandoned>>
  BY DEF Decides
<1>5. /\ IsAwaiting(o) /\ taken[o] = -1 /\ rows[o].broker = "none" /\ o \notin deleted
      /\ \A g \in Handlers \ {h} : handlers[g].at # "deciding"
  BY <1>1 DEF CenterSound, DecidesAlone, Undecided, IsAwaiting
<1>6. rows' = [rows EXCEPT ![o] = [status |-> d, broker |-> "none"]]
  <2>1. rows[o] \in Row
    BY DEF CenterTypeOK
  <2>2. [rows[o] EXCEPT !.status = d] = [status |-> d, broker |-> "none"]
    BY <1>5, <2>1 DEF Row
  <2>3. rows' = [rows EXCEPT ![o] = [rows[o] EXCEPT !.status = d]]
    BY DEF Decides
  <2> QED
    BY <2>2, <2>3
<1> HIDE DEF r
<1>7. /\ handlers' \in [Handlers -> Request] /\ handlers'[h] = r
      /\ \A g \in Handlers \ {h} : handlers'[g] = handlers[g]
  BY <1>3, <1>4, ContinuesType
<1>8. CenterTypeOK'
  BY <1>4, <1>6, <1>7 DEF CenterTypeOK, Row
<1>9. Undecided'
  BY <1>4, <1>6 DEF CenterTypeOK, CenterSound, Undecided
<1>10. DecidesAlone'
  BY <1>3, <1>5, <1>7 DEF DecidesAlone
<1>11. WorksAlone'
  <2>1. \A g \in Handlers : Works(g) => handlers[g].order \in Orders \ {o} /\ g # h
    BY <1>1, <1>5, RequestParts
    DEF CenterTypeOK, CenterSound, WorksAlone, InHand, Works, IsAwaiting
  <2>2. \A p \in Orders \ {o} : rows'[p] = rows[p]
    BY <1>6 DEF CenterTypeOK
  <2>3. \A g \in Handlers \ {h} : Works(g)' =>
          /\ Works(g) /\ InHand(g, handlers[g].order)' /\ handlers'[g].order # o
          /\ \A f \in Handlers \ {h} :
               Works(f)' /\ handlers'[f].order = handlers'[g].order => f = g
    BY <1>4, <1>7, <2>1, <2>2 DEF CenterSound, WorksAlone, Works, InHand, Verdict
  <2>4. Works(h)' => handlers'[h].order = o /\ InHand(h, o)'
    BY <1>3, <1>4, <1>5, <1>6, <1>7 DEF CenterTypeOK, Works, InHand
  <2> QED
    BY <2>3, <2>4, <1>7 DEF WorksAlone, InHand
<1>12. Approval!Decide(o, d)
  BY <1>4, <1>5, <1>6 DEF CenterTypeOK, Approval!Decide, IsAwaiting
<1> QED
  BY <1>8, <1>9, <1>10, <1>11, <1>12 DEF Kept, CenterSound, Step, Approval!Next

\* A request writes what it knows to be so to its row, and steps back from it.
LEMMA TellingKeeps ==
  ASSUME CenterTypeOK, CenterSound, NEW h \in Handlers, Works(h),
         NEW o \in Orders, o = handlers[h].order, Tell(o, Verdict(o, taken[o])),
         NEW todo \in SUBSET Orders, Onward(h, todo, "approved"),
         UNCHANGED <<deleted, taken, abandoned>>
  PROVE  Kept
<1>1. taken[o] \in Int /\ Verdict(o, taken[o]) \in {"open", "partial", "rejected"}
  BY VerdictType DEF CenterTypeOK
<1>2. /\ rows' \in [Orders -> Row]
      /\ \A p \in Orders : rows'[p].status = rows[p].status
      /\ \A p \in Orders \ {o} : rows'[p] = rows[p]
      /\ rows'[o].broker = (IF o \in deleted THEN rows[o].broker ELSE Verdict(o, taken[o]))
  BY <1>1, TellKeeps
<1>3. /\ handlers' \in [Handlers -> Request] /\ handlers'[h].at \in {"idle", "next"}
      /\ \A g \in Handlers \ {h} : handlers'[g] = handlers[g]
  BY OnwardType
<1>4. InHand(h, o) /\ \A g \in Handlers \ {h} : Works(g) => handlers[g].order \in Orders \ {o}
  BY RequestParts DEF CenterTypeOK, CenterSound, WorksAlone, Works
<1>5. CenterTypeOK'
  BY <1>2, <1>3 DEF CenterTypeOK
<1>6. Undecided'
  BY <1>2, <1>4 DEF CenterSound, Undecided, InHand
<1>7. DecidesAlone'
  BY <1>2, <1>3, RequestParts DEF CenterTypeOK, CenterSound, DecidesAlone, IsAwaiting
<1>8. WorksAlone'
  BY <1>2, <1>3, <1>4 DEF CenterSound, WorksAlone, Works, InHand, Verdict
<1>9. CASE o \in deleted
  <2>1. rows' = rows
    BY <1>9 DEF Tell
  <2> QED
    BY <2>1, <1>5, <1>6, <1>7, <1>8, StutterImplements DEF Kept, CenterSound
<1>10. CASE o \notin deleted
  <2>1. rows'[o].broker = Approval!Verdict(o, taken[o])
    BY <1>1, <1>2, <1>10, SameVerdict
  <2>2. Approval!Tell(o)
    BY <1>2, <1>4, <2>1 DEF Approval!Tell, InHand
  <2> QED
    BY <2>2, <1>5, <1>6, <1>7, <1>8 DEF Kept, CenterSound, Step, Approval!Next
<1> QED
  BY <1>9, <1>10

LEMMA TellsKeeps ==
  ASSUME CenterTypeOK, CenterSound, NEW h \in Handlers, Tells(h)
  PROVE  Kept
<1>1. handlers[h] \in Request /\ handlers[h].at = "telling" /\ Works(h)
  BY DEF CenterTypeOK, Tells, Works
<1>2. handlers[h].order \in Orders /\ handlers[h].todo \in SUBSET Orders
  BY <1>1, RequestParts
<1>3. handlers[h].verdict = Verdict(handlers[h].order, taken[handlers[h].order])
  BY <1>1 DEF CenterSound, WorksAlone, InHand
<1> QED
  BY <1>1, <1>2, <1>3, TellingKeeps DEF Tells

LEMMA LacksLoginKeeps ==
  ASSUME CenterTypeOK, CenterSound, NEW h \in Handlers, LacksLogin(h)
  PROVE  Kept
<1>1. handlers[h] \in Request /\ handlers[h].at = "executing" /\ Works(h)
  BY DEF CenterTypeOK, LacksLogin, Works
<1>2. handlers[h].order \in Orders /\ handlers[h].todo \in SUBSET Orders
  BY <1>1, RequestParts
<1>3. Verdict(handlers[h].order, taken[handlers[h].order]) = "rejected"
  BY <1>1, <1>2, VerdictUnsent DEF CenterSound, WorksAlone, InHand
<1> QED
  BY <1>1, <1>2, <1>3, TellingKeeps DEF LacksLogin

LEMMA ExecutesKeeps ==
  ASSUME CenterTypeOK, CenterSound, NEW h \in Handlers, Executes(h)
  PROVE  Kept
<1> DEFINE o == handlers[h].order
           r == [at |-> "sending", todo |-> handlers[h].todo, order |-> o]
<1>1. handlers[h] \in Request /\ handlers[h].at = "executing"
  BY DEF CenterTypeOK, Executes
<1>2. o \in Orders /\ handlers[h].todo \in SUBSET Orders
  BY <1>1, RequestParts
<1>3. UNCHANGED <<rows, deleted, taken, abandoned>>
  BY DEF Executes
<1>4. CASE Unfit(o)
  <2>1. Onward(h, handlers[h].todo, "approved")
    BY <1>4 DEF Executes
  <2> QED
    BY <1>2, <1>3, <2>1, OnwardType, StepBackKeeps
<1>5. CASE ~Unfit(o)
  <2>1. r \in Request /\ r.at = "sending" /\ r.order = o
    BY <1>2 DEF Request
  <2>2. Continues(h, r)
    BY <1>5 DEF Executes
  <2> HIDE DEF r
  <2>3. /\ handlers' \in [Handlers -> Request] /\ handlers'[h] = r
        /\ \A g \in Handlers \ {h} : handlers'[g] = handlers[g]
    BY <2>1, <2>2, ContinuesType
  <2>4. CenterTypeOK' /\ Undecided' /\ DecidesAlone'
    BY <1>3, <2>1, <2>3
    DEF CenterTypeOK, CenterSound, Undecided, DecidesAlone, IsAwaiting
  <2>5. \A g \in Handlers : (Works(g)' <=> Works(g)) /\ (Works(g) => handlers'[g].order = handlers[g].order)
    BY <1>1, <2>1, <2>3 DEF Works
  <2>6. WorksAlone'
    BY <1>1, <1>3, <2>1, <2>3, <2>5 DEF CenterSound, WorksAlone, InHand, Verdict
  <2> QED
    BY <1>3, <2>4, <2>6, StutterImplements DEF Kept, CenterSound
<1> QED
  BY <1>4, <1>5

LEMMA SendsKeeps ==
  ASSUME Orderly, CenterTypeOK, CenterSound, NEW h \in Handlers,
         NEW n \in 0..Children[handlers[h].order], Sends(h, n)
  PROVE  Kept
<1>1. handlers[h] \in Request /\ handlers[h].at = "sending" /\ Works(h)
  BY DEF CenterTypeOK, Sends, Works
<1> PICK o \in Orders, todo \in SUBSET Orders :
      o = handlers[h].order /\ todo = handlers[h].todo
  BY <1>1, RequestParts
<1> DEFINE r == [at |-> "telling", todo |-> todo, order |-> o, verdict |-> Verdict(o, n)]
<1>2. n \in Nat /\ n \in 0..Children[o]
  BY CenterAssumption
<1>3. InHand(h, o) /\ taken[o] = -1
  BY <1>1 DEF CenterSound, WorksAlone, InHand
<1>4. taken' = [taken EXCEPT ![o] = n] /\ UNCHANGED <<rows, deleted, abandoned>>
  <2>1. /\ taken' = [taken EXCEPT ![o] = (IF taken[o] < 0 THEN 0 ELSE taken[o]) + n]
        /\ UNCHANGED <<rows, deleted, abandoned>>
    BY DEF Sends
  <2>2. (IF taken[o] < 0 THEN 0 ELSE taken[o]) + n = n
    BY <1>2, <1>3
  <2> QED
    BY <2>1, <2>2
<1>5. Continues(h, r)
  BY DEF Sends, Orderly
<1>6. /\ r \in Request /\ r.at = "telling" /\ r.order = o
      /\ r.verdict = Verdict(o, n)
  BY <1>2, VerdictType DEF Request
<1> HIDE DEF r
<1>7. /\ handlers' \in [Handlers -> Request] /\ handlers'[h] = r
      /\ \A g \in Handlers \ {h} : handlers'[g] = handlers[g]
  BY <1>5, <1>6, ContinuesType
<1>8. CenterTypeOK'
  BY <1>2, <1>4, <1>7 DEF CenterTypeOK
<1>9. Undecided'
  BY <1>3, <1>4 DEF CenterTypeOK, CenterSound, Undecided, InHand
<1>10. DecidesAlone'
  BY <1>4, <1>6, <1>7 DEF CenterSound, DecidesAlone, IsAwaiting
<1>11. WorksAlone'
  <2>1. \A g \in Handlers : (Works(g)' <=> Works(g)) /\ (Works(g) => handlers'[g].order = handlers[g].order)
    BY <1>1, <1>6, <1>7 DEF Works
  <2>2. \A g \in Handlers \ {h} : Works(g) => handlers[g].order \in Orders \ {o}
    BY <1>1, RequestParts DEF CenterTypeOK, CenterSound, WorksAlone, Works
  <2>3. \A p \in Orders \ {o} : taken'[p] = taken[p]
    BY <1>4 DEF CenterTypeOK
  <2>4. \A g \in Handlers \ {h} : Works(g) => InHand(g, handlers[g].order)'
    BY <1>4, <1>7, <2>2, <2>3 DEF CenterSound, WorksAlone, InHand, Verdict
  <2>5. handlers'[h].order = o /\ InHand(h, o)'
    BY <1>3, <1>4, <1>6, <1>7 DEF CenterTypeOK, InHand, Verdict
  <2>6. \A f, g \in Handlers : Works(f)' /\ Works(g)' /\ handlers'[f].order = handlers'[g].order => f = g
    BY <2>1 DEF CenterSound, WorksAlone
  <2> QED
    BY <2>1, <2>4, <2>5, <2>6 DEF WorksAlone, InHand
<1>12. Approval!Send(o, n)
  BY <1>3, <1>4 DEF CenterTypeOK, Approval!Send, InHand
<1> QED
  BY <1>2, <1>8, <1>9, <1>10, <1>11, <1>12 DEF Kept, CenterSound, Step, Approval!Next

\* The contract counts it as sent, and taken by nobody.
LEMMA FindsMatchedKeeps ==
  ASSUME CenterTypeOK, CenterSound, NEW h \in Handlers, FindsMatched(h)
  PROVE  Kept
<1>1. handlers[h] \in Request /\ handlers[h].at = "sending" /\ Works(h)
  BY DEF CenterTypeOK, FindsMatched, Works
<1> PICK o \in Orders, todo \in SUBSET Orders :
      o = handlers[h].order /\ todo = handlers[h].todo
  BY <1>1, RequestParts
<1>2. InHand(h, o) /\ taken[o] = -1
  BY <1>1 DEF CenterSound, WorksAlone, InHand
<1>3. taken' = [taken EXCEPT ![o] = 0] /\ UNCHANGED <<rows, deleted, abandoned>>
  BY <1>2 DEF FindsMatched
<1>4. /\ handlers' \in [Handlers -> Request] /\ handlers'[h].at \in {"idle", "next"}
      /\ \A g \in Handlers \ {h} : handlers'[g] = handlers[g]
  BY OnwardType DEF FindsMatched
<1>5. CenterTypeOK'
  BY <1>3, <1>4 DEF CenterTypeOK
<1>6. Undecided'
  BY <1>2, <1>3 DEF CenterTypeOK, CenterSound, Undecided, InHand
<1>7. DecidesAlone'
  BY <1>3, <1>4 DEF CenterSound, DecidesAlone, IsAwaiting
<1>8. WorksAlone'
  <2>1. \A g \in Handlers : Works(g)' => g # h /\ Works(g) /\ handlers'[g] = handlers[g]
    BY <1>4 DEF Works
  <2>2. \A g \in Handlers \ {h} : Works(g) => handlers[g].order \in Orders \ {o}
    BY <1>1, RequestParts DEF CenterTypeOK, CenterSound, WorksAlone, Works
  <2>3. \A p \in Orders \ {o} : taken'[p] = taken[p]
    BY <1>3 DEF CenterTypeOK
  <2> QED
    BY <1>3, <2>1, <2>2, <2>3 DEF CenterSound, WorksAlone, InHand, Verdict
<1>9. Approval!Send(o, 0)
  BY <1>2, <1>3 DEF CenterTypeOK, Approval!Send, InHand
<1>10. 0 \in 0..Children[o]
  BY CenterAssumption
<1> QED
  BY <1>5, <1>6, <1>7, <1>8, <1>9, <1>10 DEF Kept, CenterSound, Step, Approval!Next

LEMMA DeletesKeeps ==
  ASSUME CenterTypeOK, CenterSound, NEW o \in Orders, Deletes(o)
  PROVE  Kept
<1>1. UNCHANGED <<rows, taken, handlers, abandoned>> /\ deleted' = deleted \cup {o}
  BY DEF Deletes
<1>2. CenterTypeOK'
  BY <1>1 DEF CenterTypeOK
<1>3. Undecided'
  BY <1>1 DEF CenterSound, Undecided, Deletes
<1>4. DecidesAlone' /\ WorksAlone'
  BY <1>1 DEF CenterSound, DecidesAlone, WorksAlone, Works, InHand, IsAwaiting, Verdict
<1> QED
  BY <1>1, <1>2, <1>3, <1>4, StutterImplements DEF Kept, CenterSound

LEMMA RestartKeeps ==
  ASSUME CenterTypeOK, CenterSound, CenterRestart
  PROVE  Kept
<1>1. UNCHANGED <<rows, deleted, taken>>
  BY DEF CenterRestart
<1>2. \A h \in Handlers : handlers'[h] = NoRequest /\ NoRequest.at = "idle"
  BY DEF CenterRestart, NoRequest
<1>3. CenterTypeOK'
  <2>1. \A h \in Handlers : Works(h) => handlers[h].order \in Orders
    BY RequestParts DEF CenterTypeOK, Works
  <2>2. abandoned' \subseteq Orders
    BY <2>1 DEF CenterTypeOK, CenterRestart
  <2>3. handlers' \in [Handlers -> Request]
    BY DEF CenterRestart, Request
  <2> QED
    BY <1>1, <2>2, <2>3 DEF CenterTypeOK
<1>4. CenterSound'
  BY <1>1, <1>2 DEF CenterSound, Undecided, DecidesAlone, WorksAlone, Works
<1> QED
  BY <1>1, <1>3, <1>4, StutterImplements DEF Kept

-----------------------------------------------------------------------------
(***************************************************************************)
(* The theorem.                                                            *)
(***************************************************************************)
LEMMA CenterStepKeeps ==
  ASSUME Orderly
  PROVE  CenterTypeOK /\ CenterSound /\ [CenterNext \/ CenterRestart]_centerVars => Kept
<1> SUFFICES ASSUME CenterTypeOK, CenterSound, [CenterNext \/ CenterRestart]_centerVars
             PROVE  Kept
  OBVIOUS
<1>1. ASSUME NEW o \in Orders, Asks(o) \/ Deletes(o)
      PROVE  Kept
  BY <1>1, AsksKeeps, DeletesKeeps
<1>2. ASSUME NEW h \in Handlers, ApproveAll(h)
      PROVE  Kept
  <2>1. {o \in Orders : IsAwaiting(o)} \in SUBSET Orders
    OBVIOUS
  <2> QED
    BY <1>2, <2>1, RequestedKeeps DEF ApproveAll
<1>3. ASSUME NEW h \in Handlers, NEW o \in Orders, ApproveOne(h, o) \/ RejectOne(h, o)
      PROVE  Kept
  BY <1>3, RequestedKeeps DEF ApproveOne, RejectOne
<1>4. ASSUME NEW h \in Handlers, Serves(h)
      PROVE  Kept
  <2>1. ASSUME NEW o \in Orders, Finds(h, o) \/ Misses(h, o)
        PROVE  Kept
    BY <2>1, FindsKeeps, MissesKeeps
  <2>2. ASSUME Decides(h) \/ LacksLogin(h) \/ Executes(h) \/ FindsMatched(h) \/ Tells(h)
        PROVE  Kept
    BY <2>2, DecidesKeeps, LacksLoginKeeps, ExecutesKeeps, FindsMatchedKeeps, TellsKeeps
  <2>3. ASSUME NEW n \in 0..Children[handlers[h].order], Sends(h, n)
        PROVE  Kept
    BY <2>3, SendsKeeps
  <2> QED
    BY <1>4, <2>1, <2>2, <2>3 DEF Serves
<1>5. CASE UNCHANGED centerVars
  <2>1. CenterTypeOK' /\ CenterSound'
    BY <1>5 DEF centerVars, CenterTypeOK, CenterSound, Undecided, DecidesAlone, IsAwaiting,
                WorksAlone, Works, InHand, Verdict
  <2> QED
    BY <1>5, <2>1, StutterImplements DEF centerVars, Kept
<1>6. CASE CenterRestart
  BY <1>6, RestartKeeps
<1> QED
  BY <1>1, <1>2, <1>3, <1>4, <1>5, <1>6 DEF CenterNext

LEMMA CenterInitSound == CenterInit => CenterTypeOK /\ CenterSound /\ Approval!Init
<1> SUFFICES ASSUME CenterInit
             PROVE  CenterTypeOK /\ CenterSound /\ Approval!Init
  OBVIOUS
<1>1. NoRequest \in Request /\ NoRequest.at = "idle"
  BY DEF Request, NoRequest
<1>2. CenterTypeOK
  BY <1>1 DEF CenterInit, CenterTypeOK, Row
<1>3. CenterSound
  BY <1>1 DEF CenterInit, CenterSound, Undecided, DecidesAlone, WorksAlone, Works
<1>4. Approval!Init
  BY DEF CenterInit, Approval!Init
<1> QED
  BY <1>2, <1>3, <1>4

\* While decisions do not overlap and the broker's answers arrive, every order is
\* decided once, goes to the broker at most once and only when approved, and what
\* its row says afterwards is what the broker took: for any orders, batches and
\* number of requests, and through crashes at any point.
THEOREM CenterKeepsContract ==
  ASSUME Orderly
  PROVE  CenterSpec => []CenterTypeOK /\ KeepsApprovalContract
<1>1. CenterTypeOK /\ CenterSound /\ [CenterNext \/ CenterRestart]_centerVars
        => CenterTypeOK' /\ CenterSound' /\ [Approval!Next]_Approval!vars
  BY CenterStepKeeps DEF Kept, Step
<1> QED
  BY <1>1, CenterInitSound, PTL DEF CenterSpec, KeepsApprovalContract, Approval!Spec

-----------------------------------------------------------------------------
(***************************************************************************)
(* The bus: counting the deliveries at some stages.                        *)
(***************************************************************************)
LEMMA FiniteDeliveries ==
  ASSUME NEW S
  PROVE  IsFiniteSet(At(S)) /\ Cardinality(At(S)) \in Nat
<1>1. IsFiniteSet(Deliveries)
  BY BusAssumption, FS_Product DEF Deliveries
<1>2. At(S) \subseteq Deliveries
  BY DEF At
<1> QED
  BY <1>1, <1>2, FS_Subset, FS_CardinalityType

LEMMA MovedCounts ==
  ASSUME BusTypeOK, NEW d \in Deliveries, NEW stage \in Stages, Moved(d, stage), NEW S
  PROVE  /\ deliveries' \in [Deliveries -> Stages]
         /\ deliveries[d] \in S /\ stage \in S => At(S)' = At(S)
         /\ deliveries[d] \notin S /\ stage \notin S => At(S)' = At(S)
         /\ deliveries[d] \notin S /\ stage \in S =>
              Cardinality(At(S)') = Cardinality(At(S)) + 1
         /\ deliveries[d] \in S /\ stage \notin S =>
              Cardinality(At(S)') = Cardinality(At(S)) - 1
<1>1. /\ deliveries' \in [Deliveries -> Stages] /\ deliveries'[d] = stage
      /\ \A c \in Deliveries \ {d} : deliveries'[c] = deliveries[c]
  BY DEF BusTypeOK, Moved
<1>2. (deliveries[d] \in S <=> stage \in S) => At(S)' = At(S)
  BY <1>1 DEF At
<1>3. ASSUME deliveries[d] \notin S, stage \in S
      PROVE  Cardinality(At(S)') = Cardinality(At(S)) + 1
  <2>1. At(S)' = At(S) \cup {d} /\ d \notin At(S)
    BY <1>1, <1>3 DEF At
  <2> QED
    BY <2>1, FiniteDeliveries, FS_AddElement
<1>4. ASSUME deliveries[d] \in S, stage \notin S
      PROVE  Cardinality(At(S)') = Cardinality(At(S)) - 1
  <2>1. At(S)' = At(S) \ {d} /\ d \in At(S)
    BY <1>1, <1>4 DEF At
  <2> QED
    BY <2>1, FiniteDeliveries, FS_RemoveElement
<1> QED
  BY <1>1, <1>2, <1>3, <1>4

BusSound == BusTypeOK /\ SlotsSound

LEMMA AdmitKeeps ==
  ASSUME BusSound, NEW d \in Deliveries, Admit(d)
  PROVE  BusSound'
<1>1. "reserved" \in Stages /\ "dropped" \in Stages
  BY DEF Stages
<1>2. CASE pending >= MaxPending
  <2>1. Moved(d, "dropped") /\ dropped' = dropped + 1 /\ UNCHANGED <<pending, subscribers, poolOpen>>
    BY <1>2 DEF Admit
  <2>2. At(Holding)' = At(Holding)
    BY <1>1, <2>1, MovedCounts DEF BusSound, Admit, Holding
  <2>3. Cardinality(At({"dropped"})') = Cardinality(At({"dropped"})) + 1
    BY <1>1, <2>1, MovedCounts DEF BusSound, Admit
  <2>4. deliveries' \in [Deliveries -> Stages]
    BY <1>1, <2>1, MovedCounts DEF BusSound
  <2>5. BusTypeOK'
    BY <2>1, <2>4 DEF BusSound, BusTypeOK
  <2>6. SlotsSound'
    BY <2>1, <2>2, <2>3 DEF BusSound, SlotsSound
  <2> QED
    BY <2>5, <2>6 DEF BusSound
<1>3. CASE ~(pending >= MaxPending)
  <2>1. Moved(d, "reserved") /\ pending' = pending + 1 /\ UNCHANGED <<dropped, subscribers, poolOpen>>
    BY <1>3 DEF Admit
  <2>2. Cardinality(At(Holding)') = Cardinality(At(Holding)) + 1
    BY <1>1, <2>1, MovedCounts DEF BusSound, Admit, Holding
  <2>3. At({"dropped"})' = At({"dropped"})
    BY <1>1, <2>1, MovedCounts DEF BusSound, Admit
  <2>4. deliveries' \in [Deliveries -> Stages]
    BY <1>1, <2>1, MovedCounts DEF BusSound
  <2>5. BusTypeOK'
    BY <2>1, <2>4 DEF BusSound, BusTypeOK
  <2>6. SlotsSound'
    BY <1>3, <2>1, <2>2, <2>3, BusAssumption DEF BusSound, BusTypeOK, SlotsSound
  <2> QED
    BY <2>5, <2>6 DEF BusSound
<1> QED
  BY <1>2, <1>3

\* A delivery gives its slot back.
LEMMA SlotReturned ==
  ASSUME BusSound, NEW d \in Deliveries, NEW stage \in {"refused", "done"},
         deliveries[d] \in Holding, Moved(d, stage), pending' = pending - 1,
         UNCHANGED <<subscribers, dropped, poolOpen>>
  PROVE  BusSound'
<1>1. stage \in Stages /\ stage \notin Holding /\ stage \notin {"dropped"}
  BY DEF Stages, Holding
<1>2. Cardinality(At(Holding)') = Cardinality(At(Holding)) - 1
  BY <1>1, MovedCounts DEF BusSound
<1>3. At({"dropped"})' = At({"dropped"})
  BY <1>1, MovedCounts DEF BusSound, Holding
<1>4. deliveries' \in [Deliveries -> Stages]
  BY <1>1, MovedCounts DEF BusSound
<1>5. Cardinality(At(Holding)') \in Nat
  <2>1. IsFiniteSet(Deliveries)
    BY BusAssumption, FS_Product DEF Deliveries
  <2>2. At(Holding)' \subseteq Deliveries
    BY DEF At
  <2> QED
    BY <2>1, <2>2, FS_Subset, FS_CardinalityType
<1>6. BusTypeOK'
  BY <1>2, <1>4, <1>5 DEF BusSound, BusTypeOK, SlotsSound
<1>7. SlotsSound'
  BY <1>2, <1>3, BusAssumption DEF BusSound, BusTypeOK, SlotsSound
<1> QED
  BY <1>6, <1>7 DEF BusSound

\* A delivery that has a slot keeps it.
LEMMA SlotKept ==
  ASSUME BusSound, NEW d \in Deliveries, NEW stage \in Holding,
         deliveries[d] \in Holding, Moved(d, stage),
         UNCHANGED <<subscribers, pending, dropped, poolOpen>>
  PROVE  BusSound'
<1>1. stage \in Stages /\ stage \notin {"dropped"} /\ deliveries[d] \notin {"dropped"}
  BY DEF Stages, Holding
<1>2. At(Holding)' = At(Holding) /\ At({"dropped"})' = At({"dropped"})
  BY <1>1, MovedCounts DEF BusSound
<1>3. deliveries' \in [Deliveries -> Stages]
  BY <1>1, MovedCounts DEF BusSound
<1> QED
  BY <1>2, <1>3 DEF BusSound, BusTypeOK, SlotsSound

LEMMA PublishKeeps ==
  ASSUME BusSound, NEW e \in Events, Publish(e)
  PROVE  BusSound'
<1>1. \A d \in Deliveries : d[1] = e => deliveries[d] = "none"
  BY DEF Publish, Deliveries
<1>2. /\ deliveries' \in [Deliveries -> Stages]
      /\ \A d \in Deliveries : deliveries'[d] = deliveries[d]
           \/ (deliveries[d] = "none" /\ deliveries'[d] \in {"due", "missed"})
  BY <1>1 DEF Publish, BusSound, BusTypeOK, Stages
<1>3. At(Holding)' = At(Holding) /\ At({"dropped"})' = At({"dropped"})
  BY <1>2 DEF At, Holding
<1> QED
  BY <1>2, <1>3 DEF Publish, BusSound, BusTypeOK, SlotsSound

LEMMA BusStepKeeps == BusSound /\ [BusNext]_busVars => BusSound'
<1> SUFFICES ASSUME BusSound, [BusNext]_busVars
             PROVE  BusSound'
  OBVIOUS
<1>1. ASSUME NEW cb \in Callbacks, Subscribe(cb) \/ Unsubscribe(cb)
      PROVE  BusSound'
  BY <1>1 DEF Subscribe, Unsubscribe, BusSound, BusTypeOK, SlotsSound, At
<1>2. ASSUME NEW d \in Deliveries, Deliver(d) \/ Return(d)
      PROVE  BusSound'
  <2>1. CASE Hand(d)
    BY <2>1, SlotReturned, SlotKept DEF Hand, Holding
  <2>2. CASE Start(d)
    BY <2>2, SlotKept DEF Start, Holding
  <2>3. CASE Return(d)
    BY <2>3, SlotReturned DEF Return, Holding
  <2> QED
    BY <1>2, <2>1, <2>2, <2>3, AdmitKeeps DEF Deliver
<1>3. CASE ClosePool
  BY <1>3 DEF ClosePool, BusSound, BusTypeOK, SlotsSound, At
<1>4. CASE UNCHANGED busVars
  BY <1>4 DEF busVars, BusSound, BusTypeOK, SlotsSound, At
<1> QED
  BY <1>1, <1>2, <1>3, <1>4, PublishKeeps DEF BusNext

LEMMA BusInitSound == BusInit => BusSound
<1> SUFFICES ASSUME BusInit
             PROVE  BusSound
  OBVIOUS
<1>1. At(Holding) = {} /\ At({"dropped"}) = {}
  BY DEF BusInit, At, Holding
<1>2. BusTypeOK
  BY DEF BusInit, BusTypeOK, Stages
<1> QED
  BY <1>1, <1>2, FS_EmptySet, BusAssumption DEF BusInit, BusSound, SlotsSound

\* For any number of events, callbacks, threads and slots, through a pool that
\* closes under the publishers: no slot of the bus is leaked or returned twice,
\* the cap holds, and what was shed is counted.
THEOREM SlotsAreAccountedFor == BusSpec => []SlotsSound
<1>1. BusSound => SlotsSound
  BY DEF BusSound
<1> QED
  BY <1>1, BusInitSound, BusStepKeeps, PTL DEF BusSpec

-----------------------------------------------------------------------------
(***************************************************************************)
(* The triggers.                                                           *)
(***************************************************************************)

\* The assumption of the theorems on triggers.
Calm == Admitted = {}

Asked(r) == r.by = "request"

\* Runs of triggers do not share a workflow, and queued says whose a price's are.
Alone == \A r, s \in runs : ~Asked(r) /\ ~Asked(s) /\ r.flow = s.flow => r = s

Queue == \A w \in Workflows : w \in queued <=> \E r \in runs : r.by = "price" /\ r.flow = w

\* A run is of its workflow's present registration, which it holds claimed if it
\* came from the bus or is its only one.
RunSound(r) ==
  IF Asked(r) THEN r.kind = "every_time"
  ELSE /\ r.nr = triggers[r.flow].nr /\ r.kind = triggers[r.flow].kind
       /\ r.by = "update" <=> r.flow \in Watching
       /\ r.by = "update" \/ r.kind = "once" => ~Armed(r.flow)
       /\ r.kind = "once" /\ r.at # "inside" => executed[r.flow] = 0

CheckSound ==
  check # Idle =>
    /\ check.nr = triggers[check.flow].nr /\ check.kind = triggers[check.flow].kind
    /\ check.at = "quote" /\ check.kind = "once" =>
         executed[check.flow] = 0 /\ \A r \in runs : r.flow = check.flow => Asked(r)
    /\ check.at = "remove" => ~Armed(check.flow)

OnceSound == \A w \in Workflows :
  executed[w] <= 1 /\ (triggers[w].kind = "once" /\ Armed(w) => executed[w] = 0)

FlowSound == Alone /\ Queue /\ (\A r \in runs : RunSound(r)) /\ CheckSound /\ OnceSound

\* What no step may do to a watch.
NotTaken == \A w \in Watching :
  Armed(w) /\ ~Registered(w)' => state'[w] \in {"inactive", "deactivating"}

Held == FlowTypeOK' /\ FlowSound' /\ NotTaken

LEMMA CheckParts ==
  ASSUME FlowTypeOK
  PROVE  /\ check = Idle \/ check.at \in {"quote", "remove"}
         /\ check.at \in {"quote", "remove"} =>
              /\ check # Idle
              /\ check.flow \in Workflows \ Watching /\ check.nr \in 0..MaxActivations
              /\ check.kind \in Kinds /\ (check.at = "remove" => check.kind = "once")
  BY DEF FlowTypeOK, Idle, Kinds

\* Setting the mode of one trigger.
LEMMA ModeSet ==
  ASSUME FlowTypeOK, NEW w \in Workflows, NEW m \in Modes,
         triggers' = [triggers EXCEPT ![w].mode = m]
  PROVE  /\ triggers' \in [Workflows -> Trigger]
         /\ triggers'[w].mode = m
         /\ \A v \in Workflows : triggers'[v].nr = triggers[v].nr
                                /\ triggers'[v].kind = triggers[v].kind
         /\ \A v \in Workflows \ {w} : triggers'[v] = triggers[v]
<1>1. triggers[w] \in Trigger
  BY DEF FlowTypeOK
<1>2. [triggers[w] EXCEPT !.mode = m] = [mode |-> m, kind |-> triggers[w].kind, nr |-> triggers[w].nr]
  BY <1>1 DEF Trigger
<1>3. triggers' = [triggers EXCEPT ![w] = [triggers[w] EXCEPT !.mode = m]]
  OBVIOUS
<1>4. triggers' = [triggers EXCEPT ![w] =
                     [mode |-> m, kind |-> triggers[w].kind, nr |-> triggers[w].nr]]
  BY <1>2, <1>3
<1> QED
  BY <1>1, <1>4 DEF FlowTypeOK, Trigger

\* Nothing but a handler's own progress.
LEMMA QuietHolds ==
  ASSUME FlowTypeOK, FlowSound, state' \in [Workflows -> States], monitor' \in BOOLEAN,
         UNCHANGED <<triggers, runs, queued, check, executed>>
  PROVE  Held
  BY DEF Held, FlowTypeOK, FlowSound, Alone, Queue, RunSound, CheckSound, OnceSound, NotTaken,
         Armed, Registered

\* A trigger goes.
LEMMA OffHolds ==
  ASSUME FlowTypeOK, FlowSound, NEW w \in Workflows, Removed(w),
         state' \in [Workflows -> States], check' \in {check, Idle},
         UNCHANGED <<runs, queued, executed>>,
         w \in Watching => state'[w] \in {"inactive", "deactivating"}
  PROVE  Held
<1>1. "off" \in Modes
  BY DEF Modes
<1>2. /\ triggers' \in [Workflows -> Trigger] /\ triggers'[w].mode = "off"
      /\ \A v \in Workflows : triggers'[v].nr = triggers[v].nr /\ triggers'[v].kind = triggers[v].kind
      /\ \A v \in Workflows \ {w} : triggers'[v] = triggers[v]
  BY <1>1, ModeSet DEF Removed
<1>3. \A v \in Workflows : Armed(v)' => Armed(v) /\ v # w
  BY <1>2 DEF Armed
<1>4. monitor' \in BOOLEAN
  BY DEF Removed, FlowTypeOK
<1>5. FlowTypeOK'
  BY <1>2, <1>4 DEF FlowTypeOK
<1>6. Alone' /\ Queue' /\ OnceSound'
  BY <1>2, <1>3 DEF FlowSound, Alone, Queue, OnceSound
<1>7. \A r \in runs' : RunSound(r)'
  BY <1>2, <1>3 DEF FlowSound, RunSound, FlowTypeOK, Run
<1>8. CheckSound'
  BY <1>2, <1>3, CheckParts DEF FlowSound, CheckSound, Idle
<1>9. NotTaken
  BY <1>2, FlowAssumption DEF NotTaken, Armed, Registered
<1> QED
  BY <1>5, <1>6, <1>7, <1>8, <1>9 DEF Held, FlowSound

\* A trigger that has no run and is not being checked is registered.
LEMMA RegistersHolds ==
  ASSUME Calm, FlowTypeOK, FlowSound, NEW w \in Workflows, NEW kind \in Kinds, Registers(w, kind)
  PROVE  Held
<1> DEFINE t == [mode |-> "armed", kind |-> kind, nr |-> triggers[w].nr + 1]
<1>1. \A r \in runs : r.flow = w => Asked(r)
  BY DEF Registers, Settled, Calm, Triggered, Asked
<1>2. check = Idle \/ check.flow # w
  BY DEF Registers, Settled, Calm, Checking
<1>3. triggers[w].nr + 1 \in 0..MaxActivations
  BY FlowAssumption DEF Registers, FlowTypeOK, Trigger
<1>4. t \in Trigger /\ t.kind = kind /\ t.mode = "armed"
  BY <1>3 DEF Trigger, Modes
<1>5. triggers' = [triggers EXCEPT ![w] = t] /\ executed' = [executed EXCEPT ![w] = 0]
  BY DEF Registers
<1> HIDE DEF t
<1>6. /\ triggers' \in [Workflows -> Trigger] /\ triggers'[w] = t
      /\ \A v \in Workflows \ {w} : triggers'[v] = triggers[v] /\ executed'[v] = executed[v]
      /\ executed' \in [Workflows -> Nat] /\ executed'[w] = 0
  BY <1>4, <1>5 DEF FlowTypeOK
<1>7. UNCHANGED <<runs, queued, check>> /\ state' \in [Workflows -> States] /\ monitor' \in BOOLEAN
  BY DEF Registers, FlowTypeOK, States
<1>8. FlowTypeOK'
  BY <1>6, <1>7 DEF FlowTypeOK
<1>9. Alone' /\ Queue' /\ OnceSound'
  BY <1>6, <1>7 DEF FlowSound, Alone, Queue, OnceSound, Armed
<1>10. \A r \in runs' : RunSound(r)'
  BY <1>1, <1>6, <1>7 DEF FlowSound, RunSound, FlowTypeOK, Run, Armed, Asked
<1>11. CheckSound'
  BY <1>2, <1>6, <1>7, CheckParts DEF FlowSound, CheckSound, Armed
<1>12. NotTaken
  BY <1>4, <1>6, FlowAssumption DEF NotTaken, Armed, Registered
<1> QED
  BY <1>8, <1>9, <1>10, <1>11, <1>12 DEF Held, FlowSound

\* An event claims its watches, which had no run, and gives each a run.
LEMMA OnOrderUpdateHolds ==
  ASSUME FlowTypeOK, FlowSound, NEW e \in Events, OnOrderUpdate(e)
  PROVE  Held
<1>1. /\ Claims(e) \subseteq Watching /\ Watching \subseteq Workflows
      /\ \A w \in Claims(e) : Armed(w)
  BY FlowAssumption DEF Claims
<1>2. \A r \in runs : r.flow \in Claims(e) => Asked(r)
  BY <1>1 DEF FlowSound, RunSound
<1>3. check = Idle \/ check.flow \notin Claims(e)
  BY <1>1, CheckParts
<1>4. /\ triggers' \in [Workflows -> Trigger]
      /\ \A v \in Workflows : triggers'[v].nr = triggers[v].nr /\ triggers'[v].kind = triggers[v].kind
      /\ \A v \in Workflows \ Claims(e) : triggers'[v] = triggers[v]
      /\ \A v \in Claims(e) : triggers'[v].mode = "claimed"
  <2> DEFINE t(v) == [mode |-> "claimed", kind |-> triggers[v].kind, nr |-> triggers[v].nr]
  <2>1. \A v \in Workflows : [triggers[v] EXCEPT !.mode = "claimed"] = t(v) /\ t(v) \in Trigger
    BY DEF FlowTypeOK, Trigger, Modes
  <2>2. triggers' = [v \in Workflows |->
          IF v \in Claims(e) THEN [triggers[v] EXCEPT !.mode = "claimed"] ELSE triggers[v]]
    BY DEF OnOrderUpdate
  <2>3. triggers' = [v \in Workflows |-> IF v \in Claims(e) THEN t(v) ELSE triggers[v]]
    BY <2>1, <2>2
  <2>4. \A v \in Workflows : t(v).mode = "claimed" /\ t(v).kind = triggers[v].kind /\ t(v).nr = triggers[v].nr
    OBVIOUS
  <2> HIDE DEF t
  <2> QED
    BY <1>1, <2>1, <2>3, <2>4 DEF FlowTypeOK
<1>5. \A v \in Workflows : Armed(v)' => Armed(v) /\ v \notin Claims(e)
  BY <1>1, <1>4 DEF Armed
<1>6. UNCHANGED <<state, queued, check, monitor, executed>>
  BY DEF OnOrderUpdate
<1>7. \A w \in Claims(e) :
        /\ NewRun(w, "update") \in Run
        /\ NewRun(w, "update").flow = w /\ NewRun(w, "update").by = "update"
        /\ NewRun(w, "update").nr = triggers[w].nr /\ NewRun(w, "update").kind = triggers[w].kind
  BY <1>1 DEF NewRun, Run, Sources, FlowTypeOK, Trigger
<1>8. \A r \in runs' : r \in runs \/ \E w \in Claims(e) : r = NewRun(w, "update")
  BY DEF OnOrderUpdate
<1>9. runs \subseteq runs'
  BY DEF OnOrderUpdate
<1>10. FlowTypeOK'
  BY <1>4, <1>6, <1>7, <1>8 DEF FlowTypeOK
<1>11. Alone'
  BY <1>2, <1>7, <1>8 DEF FlowSound, Alone, Asked
<1>12. Queue'
  BY <1>6, <1>7, <1>8, <1>9 DEF FlowSound, Queue
<1>13. OnceSound'
  BY <1>4, <1>5, <1>6 DEF FlowSound, OnceSound
<1>14. \A r \in runs' : RunSound(r)'
  <2>1. ASSUME NEW r \in runs
        PROVE  RunSound(r)'
    BY <1>2, <1>4, <1>5, <1>6 DEF FlowSound, RunSound, FlowTypeOK, Run
  <2>2. ASSUME NEW w \in Claims(e), NEW r, r = NewRun(w, "update")
        PROVE  RunSound(r)'
    BY <1>1, <1>4, <1>5, <1>6, <1>7, <2>2 DEF FlowSound, RunSound, OnceSound, Asked
  <2> QED
    BY <1>8, <2>1, <2>2
<1>15. CheckSound'
  BY <1>3, <1>4, <1>5, <1>6, <1>7, <1>8, CheckParts DEF FlowSound, CheckSound
<1>16. NotTaken
  BY <1>1, <1>4 DEF NotTaken, Armed, Registered
<1> QED
  BY <1>10, <1>11, <1>12, <1>13, <1>14, <1>15, <1>16 DEF Held, FlowSound

LEMMA ChecksHolds ==
  ASSUME FlowTypeOK, FlowSound, NEW w \in Workflows, Checks(w)
  PROVE  Held
<1> DEFINE c == [at |-> "quote", flow |-> w, nr |-> triggers[w].nr, kind |-> triggers[w].kind]
<1>1. check' = c /\ w \notin Watching /\ Armed(w) /\ UNCHANGED <<state, triggers, runs, queued, monitor, executed>>
  BY DEF Checks
<1>2. /\ c \in [at : {"quote"}, flow : Workflows \ Watching, nr : 0..MaxActivations, kind : Kinds]
      /\ c.at = "quote" /\ c.flow = w /\ c.nr = triggers[w].nr /\ c.kind = triggers[w].kind
  BY <1>1 DEF FlowTypeOK, Trigger
<1> HIDE DEF c
<1>3. FlowTypeOK'
  BY <1>1, <1>2 DEF FlowTypeOK
<1>4. CheckSound'
  BY <1>1, <1>2 DEF FlowSound, CheckSound, OnceSound, RunSound, Armed
<1>5. (\A r \in runs' : RunSound(r)') /\ Alone' /\ Queue' /\ OnceSound' /\ NotTaken
  BY <1>1 DEF FlowSound, Alone, Queue, OnceSound, RunSound, NotTaken, Armed, Registered
<1> QED
  BY <1>3, <1>4, <1>5 DEF Held, FlowSound

LEMMA CheckPassesHolds ==
  ASSUME FlowTypeOK, FlowSound, CheckPasses
  PROVE  Held
<1>1. check' = Idle /\ UNCHANGED <<state, triggers, runs, queued, monitor, executed>>
  BY DEF CheckPasses
<1> QED
  BY <1>1 DEF Held, FlowTypeOK, FlowSound, Alone, Queue, RunSound, CheckSound, OnceSound, NotTaken,
              Armed, Registered

\* The alert is latched if it is one-shot, and its workflow, which had no run
\* of a trigger unless one is queued, gets one.
LEMMA CheckMeetsHolds ==
  ASSUME FlowTypeOK, FlowSound, CheckMeets
  PROVE  Held
<1>1. check.at = "quote" /\ check # Idle
  BY CheckParts DEF CheckMeets
<1> PICK w \in Workflows \ Watching, kind \in Kinds : w = check.flow /\ kind = check.kind
  BY <1>1, CheckParts
<1>2. kind = triggers[w].kind /\ check.nr = triggers[w].nr /\ check.nr \in 0..MaxActivations
  BY <1>1, CheckParts DEF FlowSound, CheckSound
<1>3. UNCHANGED <<state, monitor, executed>>
  BY DEF CheckMeets
<1>4. /\ triggers' \in [Workflows -> Trigger]
      /\ \A v \in Workflows : triggers'[v].nr = triggers[v].nr /\ triggers'[v].kind = triggers[v].kind
      /\ \A v \in Workflows \ {w} : triggers'[v] = triggers[v]
      /\ Armed(w)' => Armed(w) /\ kind # "once"
      /\ kind # "once" => triggers'[w] = triggers[w]
  <2>1. CASE kind = "once" /\ Armed(w)
    <3>1. triggers' = [triggers EXCEPT ![w].mode = "claimed"]
      BY <1>2, <2>1 DEF CheckMeets, Latches
    <3>2. "claimed" \in Modes
      BY DEF Modes
    <3>3. /\ triggers' \in [Workflows -> Trigger] /\ triggers'[w].mode = "claimed"
          /\ \A v \in Workflows : triggers'[v].nr = triggers[v].nr
                                 /\ triggers'[v].kind = triggers[v].kind
          /\ \A v \in Workflows \ {w} : triggers'[v] = triggers[v]
      BY <3>1, <3>2, ModeSet
    <3> QED
      BY <2>1, <3>3 DEF Armed
  <2>2. CASE ~(kind = "once" /\ Armed(w))
    <3>1. triggers' = triggers
      BY <2>2 DEF CheckMeets, Latches
    <3> QED
      BY <2>2, <3>1 DEF Armed, FlowTypeOK
  <2> QED
    BY <2>1, <2>2
<1>5. \A v \in Workflows : Armed(v)' => Armed(v) /\ ~(v = w /\ kind = "once")
  BY <1>4 DEF Armed
<1>6. check' = Idle \/ (kind = "once" /\ check' = [check EXCEPT !.at = "remove"])
  BY DEF CheckMeets
<1>7. CheckSound' /\ check' \in {Idle} \cup
        [at : {"remove"}, flow : Workflows \ Watching, nr : 0..MaxActivations, kind : {"once"}]
  <2>1. CASE check' = Idle
    BY <2>1 DEF CheckSound
  <2>2. CASE kind = "once" /\ check' = [check EXCEPT !.at = "remove"]
    <3>1. check \in [at : {"quote"}, flow : Workflows \ Watching, nr : 0..MaxActivations, kind : Kinds]
      BY <1>1 DEF FlowTypeOK, Idle
    <3>2. /\ check'.at = "remove" /\ check'.flow = w /\ check'.nr = check.nr /\ check'.kind = "once"
          /\ check' \in [at : {"remove"}, flow : Workflows \ Watching, nr : 0..MaxActivations,
                         kind : {"once"}]
      BY <2>2, <3>1
    <3> QED
      BY <1>2, <1>4, <1>5, <2>2, <3>2 DEF CheckSound
  <2> QED
    BY <1>6, <2>1, <2>2
<1>8. OnceSound' /\ NotTaken
  BY <1>3, <1>4, <1>5, FlowAssumption DEF FlowSound, OnceSound, NotTaken, Armed, Registered
<1>9. ASSUME NEW r \in runs
      PROVE  RunSound(r)'
  BY <1>3, <1>4, <1>5 DEF FlowSound, RunSound, FlowTypeOK, Run
<1>10. CASE UNCHANGED <<runs, queued>>
  <2>1. FlowTypeOK'
    BY <1>3, <1>4, <1>7, <1>10 DEF FlowTypeOK, Kinds
  <2>2. Alone' /\ Queue'
    BY <1>10 DEF FlowSound, Alone, Queue
  <2> QED
    BY <1>7, <1>8, <1>9, <1>10, <2>1, <2>2 DEF Held, FlowSound
<1>11. CASE w \notin queued /\ runs' = runs \cup {PriceRun} /\ queued' = queued \cup {w}
  <2> PICK x \in Run : /\ x = PriceRun /\ x.flow = w /\ x.by = "price"
                        /\ x.nr = triggers[w].nr /\ x.kind = kind
    <3>1. PriceRun = [flow |-> w, by |-> "price", nr |-> check.nr, kind |-> kind, at |-> "queued"]
      BY DEF PriceRun
    <3>2. PriceRun \in Run
      BY <1>2, <3>1 DEF Run, Sources
    <3> QED
      BY <1>2, <3>1, <3>2
  <2>2. \A r \in runs : r.flow = w => Asked(r)
    BY <1>11 DEF FlowSound, Queue, RunSound, FlowTypeOK, Run, Sources, Asked
  <2>3. FlowTypeOK'
    BY <1>3, <1>4, <1>7, <1>11 DEF FlowTypeOK, Kinds
  <2>4. Alone'
    BY <1>11, <2>2 DEF FlowSound, Alone, Asked
  <2>5. Queue'
    BY <1>11 DEF FlowSound, Queue
  <2>6. kind = "once" => executed[w] = 0
    BY <1>1 DEF FlowSound, CheckSound
  <2>7. RunSound(x)'
    BY <1>2, <1>3, <1>4, <1>5, <2>6 DEF RunSound, Asked
  <2> QED
    BY <1>7, <1>8, <1>9, <1>11, <2>3, <2>4, <2>5, <2>7 DEF Held, FlowSound
<1>12. UNCHANGED <<runs, queued>> \/ (w \notin queued /\ runs' = runs \cup {PriceRun} /\ queued' = queued \cup {w})
  BY DEF CheckMeets
<1> QED
  BY <1>10, <1>11, <1>12

LEMMA RequestsHolds ==
  ASSUME FlowTypeOK, FlowSound, NEW w \in Workflows, Requests(w)
  PROVE  Held
<1> DEFINE x == [flow |-> w, by |-> "request", nr |-> 0, kind |-> "every_time", at |-> "queued"]
<1>1. runs' = runs \cup {x} /\ UNCHANGED <<state, triggers, queued, check, monitor, executed>>
  BY DEF Requests
<1>2. x \in Run /\ x.by = "request" /\ x.kind = "every_time"
  BY FlowAssumption DEF Run, Sources, Kinds
<1> HIDE DEF x
<1>3. FlowTypeOK'
  BY <1>1, <1>2 DEF FlowTypeOK
<1>4. Alone' /\ Queue' /\ OnceSound' /\ CheckSound' /\ NotTaken
  BY <1>1, <1>2
  DEF FlowSound, Alone, Queue, OnceSound, CheckSound, NotTaken, Armed, Registered, Asked
<1>5. \A r \in runs' : RunSound(r)'
  BY <1>1, <1>2 DEF FlowSound, RunSound, Armed, Asked
<1> QED
  BY <1>3, <1>4, <1>5 DEF Held, FlowSound

\* A run that moves on is the same run.
LEMMA MovedRun ==
  ASSUME FlowTypeOK, NEW r \in runs, NEW at \in {"queued", "waiting", "inside"}, Moves(r, at)
  PROVE  \E x \in Run : /\ runs' = (runs \ {r}) \cup {x} /\ x.at = at
                        /\ x.flow = r.flow /\ x.by = r.by /\ x.nr = r.nr /\ x.kind = r.kind
<1> DEFINE x == [flow |-> r.flow, by |-> r.by, nr |-> r.nr, kind |-> r.kind, at |-> at]
<1>1. r \in Run
  BY DEF FlowTypeOK
<1>2. [r EXCEPT !.at = at] = x /\ x \in Run
  BY <1>1 DEF Run
<1>3. runs' = (runs \ {r}) \cup {x}
  BY <1>2 DEF Moves
<1>4. x.at = at /\ x.flow = r.flow /\ x.by = r.by /\ x.nr = r.nr /\ x.kind = r.kind
  OBVIOUS
<1> QED
  BY <1>2, <1>3, <1>4

\* What a move leaves as it was.
LEMMA MovedKeeps ==
  ASSUME FlowTypeOK, FlowSound, NEW r \in runs, NEW x \in Run,
         runs' = (runs \ {r}) \cup {x}, x.flow = r.flow, x.by = r.by,
         UNCHANGED <<state, triggers, queued, check, monitor>>
  PROVE  /\ runs' \subseteq Run /\ Alone' /\ Queue' /\ NotTaken
         /\ \A w \in Workflows : Armed(w)' = Armed(w)
<1>1. \A s \in runs' : s = x \/ s \in runs \ {r}
  OBVIOUS
<1>2. runs' \subseteq Run
  BY <1>1 DEF FlowTypeOK
<1>3. Alone'
  BY <1>1 DEF FlowSound, Alone, Asked
<1>4. Queue'
  BY <1>1 DEF FlowSound, Queue
<1>5. NotTaken /\ \A w \in Workflows : Armed(w)' = Armed(w)
  BY DEF NotTaken, Armed, Registered
<1> QED
  BY <1>2, <1>3, <1>4, <1>5

LEMMA EntersHolds ==
  ASSUME FlowTypeOK, FlowSound, NEW r \in runs, Enters(r)
  PROVE  Held
<1>1. Moves(r, "waiting") /\ r.at = "queued" /\ UNCHANGED <<state, triggers, queued, check, monitor, executed>>
  BY DEF Enters
<1> PICK x \in Run : /\ runs' = (runs \ {r}) \cup {x} /\ x.at = "waiting"
                     /\ x.flow = r.flow /\ x.by = r.by /\ x.nr = r.nr /\ x.kind = r.kind
  BY <1>1, MovedRun
<1>2. runs' \subseteq Run /\ Alone' /\ Queue' /\ NotTaken
  BY <1>1, MovedKeeps
<1>3. FlowTypeOK' /\ OnceSound'
  BY <1>1, <1>2 DEF FlowTypeOK, FlowSound, OnceSound, Armed
<1>4. CheckSound'
  BY <1>1 DEF FlowSound, CheckSound, Armed, Asked
<1>5. \A s \in runs : RunSound(s)'
  BY <1>1 DEF FlowSound, RunSound, Armed, Asked
<1>6. RunSound(x)'
  BY <1>1, <1>5 DEF RunSound, Asked
<1> QED
  BY <1>2, <1>3, <1>4, <1>5, <1>6 DEF Held, FlowSound

\* The one run of a one-shot trigger goes in, and has not been in before.
LEMMA AcquiresHolds ==
  ASSUME FlowTypeOK, FlowSound, NEW r \in runs, Acquires(r)
  PROVE  Held
<1>1. Moves(r, "inside") /\ r.at = "waiting" /\ UNCHANGED <<state, triggers, queued, check, monitor>>
  BY DEF Acquires
<1> PICK x \in Run : /\ runs' = (runs \ {r}) \cup {x} /\ x.at = "inside"
                     /\ x.flow = r.flow /\ x.by = r.by /\ x.nr = r.nr /\ x.kind = r.kind
  BY <1>1, MovedRun
<1> PICK w \in Workflows : w = r.flow
  BY DEF FlowTypeOK, Run
<1>2. \/ r.kind # "once" /\ executed' = executed
      \/ /\ r.kind = "once" /\ executed[w] = 0 /\ ~Armed(w) /\ ~Asked(r)
         /\ executed' = [executed EXCEPT ![w] = 1]
  <2>1. CASE r.kind = "once"
    <3>1. ~Asked(r) /\ executed[w] = 0
      BY <1>1, <2>1 DEF FlowSound, RunSound
    <3>2. ~Armed(w)
      BY <2>1, <3>1 DEF FlowSound, RunSound
    <3>3. executed' = [executed EXCEPT ![w] = executed[w] + 1]
      BY <2>1 DEF Acquires
    <3> QED
      BY <2>1, <3>1, <3>2, <3>3
  <2>2. CASE r.kind # "once"
    BY <2>2 DEF Acquires
  <2> QED
    BY <2>1, <2>2
<1>3. /\ executed' \in [Workflows -> Nat]
      /\ \A v \in Workflows : executed'[v] = executed[v]
                             \/ (v = w /\ r.kind = "once" /\ executed'[v] = 1)
  BY <1>2 DEF FlowTypeOK
<1>4. r.kind = "once" => /\ ~Asked(r) /\ ~Armed(w)
                          /\ \A s \in runs \ {r} : s.flow = w => Asked(s)
  BY <1>2 DEF FlowSound, Alone
<1>5. /\ runs' \subseteq Run /\ Alone' /\ Queue' /\ NotTaken
      /\ \A v \in Workflows : Armed(v)' = Armed(v)
  BY <1>1, MovedKeeps
<1>6. FlowTypeOK'
  BY <1>1, <1>3, <1>5 DEF FlowTypeOK
<1>7. OnceSound'
  BY <1>1, <1>3, <1>4, <1>5 DEF FlowSound, OnceSound
<1>8. CheckSound'
  <2>1. check.at = "quote" /\ check.kind = "once" /\ r.kind = "once" => check.flow # w
    BY <1>4, CheckParts DEF FlowSound, CheckSound
  <2>2. check # Idle => check.flow \in Workflows
    BY CheckParts
  <2> QED
    BY <1>1, <1>3, <1>4, <2>1, <2>2, CheckParts DEF FlowSound, CheckSound, Armed, Asked
<1>9. \A s \in runs' : RunSound(s)'
  <2>1. ASSUME NEW s \in runs \ {r}
        PROVE  RunSound(s)'
    <3>1. s.flow \in Workflows /\ RunSound(s)
      BY DEF FlowSound, FlowTypeOK, Run
    <3>2. Asked(s) \/ executed'[s.flow] = executed[s.flow]
      BY <1>3, <1>4, <3>1
    <3> QED
      BY <1>1, <1>5, <3>1, <3>2 DEF RunSound, Asked
  <2>2. RunSound(x)'
    BY <1>1, <1>3, <1>4, <1>5 DEF FlowSound, RunSound, Asked
  <2> QED
    BY <2>1, <2>2
<1> QED
  BY <1>5, <1>6, <1>7, <1>8, <1>9 DEF Held, FlowSound

\* A run ends: its watch, which it holds claimed, watches again or goes.
LEMMA OverHolds ==
  ASSUME FlowTypeOK, FlowSound, NEW r \in runs, Over(r), UNCHANGED <<state, check, monitor, executed>>
  PROVE  Held
<1> PICK w \in Workflows : w = r.flow
  BY DEF FlowTypeOK, Run
<1>1. runs' = runs \ {r} /\ queued' = Unqueued(r)
  BY DEF Over
<1>2. /\ triggers' \in [Workflows -> Trigger]
      /\ \A v \in Workflows : triggers'[v].nr = triggers[v].nr /\ triggers'[v].kind = triggers[v].kind
      /\ \A v \in Workflows \ {w} : triggers'[v] = triggers[v]
      /\ r.by # "update" => triggers' = triggers
      /\ r.by = "update" => w \in Watching /\ ~Armed(w) /\ (r.kind = "once" => ~Armed(w)')
      /\ r.by = "update" => r.kind = triggers[w].kind /\ ~Asked(r)
  <2>1. r.by = "update" => w \in Watching /\ ~Armed(w) /\ r.kind = triggers[w].kind /\ ~Asked(r)
    BY DEF FlowSound, RunSound, Asked
  <2>2. CASE r.by # "update" \/ triggers' = triggers
    <3>1. triggers' = triggers
      BY <2>2 DEF Over
    <3> QED
      BY <2>1, <3>1 DEF FlowTypeOK, Armed
  <2>3. CASE r.by = "update" /\ r.kind = "once"
    <3>1. triggers' = [triggers EXCEPT ![w].mode = "off"] /\ "off" \in Modes
      BY <2>3 DEF Over, Taken, Modes
    <3>2. triggers' \in [Workflows -> Trigger] /\ triggers'[w].mode = "off"
      BY <3>1, ModeSet
    <3>3. /\ \A v \in Workflows : triggers'[v].nr = triggers[v].nr /\ triggers'[v].kind = triggers[v].kind
          /\ \A v \in Workflows \ {w} : triggers'[v] = triggers[v]
      BY <3>1, ModeSet
    <3> QED
      BY <2>1, <2>3, <3>2, <3>3 DEF Armed
  <2>4. CASE r.by = "update" /\ r.kind # "once" /\ triggers' # triggers
    <3>1. triggers' = [triggers EXCEPT ![w].mode = "armed"] /\ "armed" \in Modes
      BY <2>4 DEF Over, Released, Modes
    <3>2. triggers' \in [Workflows -> Trigger] /\ triggers'[w].mode = "armed"
      BY <3>1, ModeSet
    <3>3. /\ \A v \in Workflows : triggers'[v].nr = triggers[v].nr /\ triggers'[v].kind = triggers[v].kind
          /\ \A v \in Workflows \ {w} : triggers'[v] = triggers[v]
      BY <3>1, ModeSet
    <3> QED
      BY <2>1, <2>4, <3>2, <3>3 DEF Armed
  <2> QED
    BY <2>2, <2>3, <2>4
<1>3. ~Asked(r) => \A s \in runs \ {r} : s.flow = w => Asked(s)
  BY DEF FlowSound, Alone
<1>4. FlowTypeOK'
  BY <1>1, <1>2 DEF FlowTypeOK, Unqueued
<1>5. Alone'
  BY <1>1 DEF FlowSound, Alone
<1>6. Queue'
  <2>1. CASE r.by = "price"
    <3>1. queued' = queued \ {w} /\ ~Asked(r)
      BY <1>1, <2>1 DEF Unqueued, Asked
    <3>2. \A s \in runs' : s.by = "price" => s.flow # w
      BY <1>1, <1>3, <3>1 DEF Asked
    <3> QED
      BY <1>1, <3>1, <3>2 DEF FlowSound, Queue
  <2>2. CASE r.by # "price"
    BY <1>1, <2>2 DEF FlowSound, Queue, Unqueued
  <2> QED
    BY <2>1, <2>2
<1>7. OnceSound'
  BY <1>2 DEF FlowSound, OnceSound, Armed
<1>8. CheckSound'
  <2>1. check = Idle \/ (check.flow \in Workflows /\ triggers'[check.flow] = triggers[check.flow])
    BY <1>2, CheckParts
  <2> QED
    BY <1>1, <2>1 DEF FlowSound, CheckSound, Armed
<1>9. \A s \in runs' : RunSound(s)'
  BY <1>1, <1>2, <1>3 DEF FlowSound, RunSound, FlowTypeOK, Run, Armed, Asked
<1>10. NotTaken
  BY <1>2, FlowAssumption DEF NotTaken, Armed, Registered
<1> QED
  BY <1>4, <1>5, <1>6, <1>7, <1>8, <1>9, <1>10 DEF Held, FlowSound

\* The process starts again: what is armed has not run.
LEMMA RestartHolds ==
  ASSUME Calm, FlowTypeOK, FlowSound, Restart
  PROVE  Held
<1> DEFINE armed(w) == IsActive(w) /\ w \in Watching
           t(w) == IF armed(w)
                   THEN [mode |-> "armed", kind |-> triggers[w].kind, nr |-> triggers[w].nr + 1]
                   ELSE [mode |-> "off", kind |-> triggers[w].kind, nr |-> triggers[w].nr]
<1>1. /\ runs' = {} /\ queued' = {} /\ check' = Idle /\ monitor' = FALSE /\ executed' = executed
      /\ state' = [w \in Workflows |-> IF IsActive(w) THEN "active" ELSE "inactive"]
      /\ \A w \in Watching : IsActive(w) => executed[w] = 0
      /\ \A w \in Workflows : triggers[w].nr < MaxActivations
  BY DEF Restart, Calm
<1>2. \A w \in Workflows :
        [triggers[w] EXCEPT !.mode = "off"] = [mode |-> "off", kind |-> triggers[w].kind, nr |-> triggers[w].nr]
  BY DEF FlowTypeOK, Trigger
<1>3. triggers' = [w \in Workflows |-> t(w)]
  BY <1>2 DEF Restart
<1>4. \A w \in Workflows : t(w) \in Trigger
  <2> SUFFICES ASSUME NEW w \in Workflows
               PROVE  t(w) \in Trigger
    OBVIOUS
  <2>1. triggers[w].nr + 1 \in 0..MaxActivations
    BY <1>1, FlowAssumption DEF FlowTypeOK, Trigger
  <2> QED
    BY <2>1 DEF FlowTypeOK, Trigger, Modes
<1>5. \A w \in Workflows : Armed(w)' => armed(w)
  BY <1>3 DEF Armed
<1>6. \A w \in Workflows : armed(w) => Armed(w)' /\ Registered(w)'
  BY <1>3 DEF Armed, Registered
<1> HIDE DEF t
<1>7. FlowTypeOK'
  BY <1>1, <1>3, <1>4 DEF FlowTypeOK, States
<1>8. Alone' /\ Queue' /\ CheckSound' /\ \A r \in runs' : RunSound(r)'
  BY <1>1 DEF Alone, Queue, CheckSound
<1>9. OnceSound'
  BY <1>1, <1>5 DEF FlowSound, OnceSound
<1>10. NotTaken
  BY <1>1, <1>6, FlowAssumption DEF NotTaken
<1> QED
  BY <1>7, <1>8, <1>9, <1>10 DEF Held, FlowSound

-----------------------------------------------------------------------------
(***************************************************************************)
(* The invariant: Calm keeps it over every step.                           *)
(***************************************************************************)
LEMMA FlowStepsHold ==
  ASSUME Calm, FlowTypeOK, FlowSound, FlowSteps
  PROVE  Held
<1>1. ASSUME NEW w \in Workflows, Activates(w) \/ Deactivates(w)
      PROVE  Held
  <2>1. state' \in [Workflows -> States] /\ monitor' \in BOOLEAN
    BY <1>1 DEF FlowTypeOK, Activates, Deactivates, States
  <2>2. UNCHANGED <<triggers, runs, queued, check, executed>>
    BY <1>1 DEF Activates, Deactivates
  <2> QED
    BY <2>1, <2>2, QuietHolds
<1>2. ASSUME NEW w \in Workflows, Unregisters(w)
      PROVE  Held
  <2>1. state' \in [Workflows -> States] /\ state'[w] = "deactivating"
    BY <1>2 DEF FlowTypeOK, Unregisters, States
  <2>2. Removed(w) /\ UNCHANGED <<runs, queued, check, executed>>
    BY <1>2 DEF Unregisters
  <2> QED
    BY <2>1, <2>2, OffHolds
<1>3. ASSUME NEW w \in Workflows, Expires(w)
      PROVE  Held
  <2>1. w \notin Watching /\ Removed(w) /\ UNCHANGED <<state, runs, queued, check, executed>>
    BY <1>3 DEF Expires
  <2> QED
    BY <2>1, OffHolds DEF FlowTypeOK
<1>4. ASSUME CheckRemoves
      PROVE  Held
  <2>1. check.flow \in Workflows /\ check.flow \notin Watching
    BY <1>4, CheckParts DEF CheckRemoves
  <2> PICK w \in Workflows : w = check.flow /\ w \notin Watching
    BY <2>1
  <2>2. Removed(w) /\ check' = Idle /\ UNCHANGED <<state, runs, queued, executed>>
    BY <1>4 DEF CheckRemoves
  <2> QED
    BY <2>2, OffHolds DEF FlowTypeOK
<1>5. ASSUME NEW r \in runs, TurnsBack(r) \/ Leaves(r)
      PROVE  Held
  BY <1>5, OverHolds DEF TurnsBack, Leaves
<1> QED
  BY <1>1, <1>2, <1>3, <1>4, <1>5, RegistersHolds, ChecksHolds, RequestsHolds, CheckPassesHolds,
     CheckMeetsHolds, EntersHolds, AcquiresHolds
  DEF FlowSteps

LEMMA FlowStep ==
  ASSUME Calm, FlowTypeOK, FlowSound, [FlowNext]_<<busVars, flowVars>>
  PROVE  Held
<1>1. ASSUME UNCHANGED flowVars
      PROVE  Held
  BY <1>1, QuietHolds DEF flowVars, FlowTypeOK
<1> QED
  BY <1>1, OnOrderUpdateHolds, FlowStepsHold, RestartHolds DEF FlowNext, BusSteps

LEMMA FlowInitSound == FlowInit => FlowTypeOK /\ FlowSound
<1> SUFFICES ASSUME FlowInit
             PROVE  FlowTypeOK /\ FlowSound
  OBVIOUS
<1>1. NoTrigger \in Trigger
  BY FlowAssumption DEF NoTrigger, Trigger, Modes, Kinds
<1>2. FlowTypeOK
  BY <1>1 DEF FlowInit, FlowTypeOK, States
<1>3. FlowSound
  BY DEF FlowInit, FlowSound, Alone, Queue, CheckSound, OnceSound
<1> QED
  BY <1>2, <1>3

LEMMA FlowInductive ==
  ASSUME Calm
  PROVE  FlowSpec => [](FlowTypeOK /\ FlowSound)
<1>1. FlowInit => FlowTypeOK /\ FlowSound
  BY FlowInitSound
<1>2. FlowTypeOK /\ FlowSound /\ [FlowNext]_<<busVars, flowVars>> => (FlowTypeOK /\ FlowSound)'
  BY FlowStep DEF Held
<1> QED
  BY <1>1, <1>2, PTL DEF FlowSpec

\* For any workflows, events, matches and pools: the triggers' state has its types.
THEOREM TriggersTypeCorrect ==
  ASSUME Calm
  PROVE  FlowSpec => []FlowTypeOK
<1> QED
  BY FlowInductive, PTL

\* A one-shot trigger runs its workflow at most once for each activation,
\* however many events claim it, restarts interrupt it or runs wait for the lock.
THEOREM OneShotsRunOnce ==
  ASSUME Calm
  PROVE  FlowSpec => []OneShotRunsOnce
<1>1. FlowTypeOK /\ FlowSound => OneShotRunsOnce
  BY DEF FlowSound, OnceSound, OneShotRunsOnce
<1> QED
  BY <1>1, FlowInductive, PTL

\* No run of a trigger is stacked behind another, and the price monitor's table
\* says exactly whose runs are queued.
THEOREM RunsDoNotStack ==
  ASSUME Calm
  PROVE  FlowSpec => []OneRunInFlight
<1>1. ASSUME FlowTypeOK, FlowSound
      PROVE  OneRunInFlight
  <2>1. \A w \in Workflows : \A r, s \in Triggered(w) : r = s
    BY <1>1 DEF FlowSound, Alone, Asked, Triggered
  <2>2. queued = {r.flow : r \in From("price")}
    BY <1>1 DEF FlowSound, Queue, From, FlowTypeOK, Run
  <2> QED
    BY <2>1, <2>2 DEF OneRunInFlight
<1>2. FlowTypeOK /\ FlowSound => OneRunInFlight
  BY <1>1
<1> QED
  BY <1>2, FlowInductive, PTL

\* Only a deactivation takes away a watch that no event has claimed.
THEOREM WatchesStay ==
  ASSUME Calm
  PROVE  FlowSpec => UnclaimedWatchStays
<1>1. FlowTypeOK /\ FlowSound /\ [FlowNext]_<<busVars, flowVars>>
        => [\A w \in Watching :
             Armed(w) /\ ~Registered(w)' => state'[w] \in {"inactive", "deactivating"}]_<<busVars, flowVars>>
  BY FlowStep DEF Held, NotTaken
<1> QED
  BY <1>1, FlowInductive, PTL DEF FlowSpec, UnclaimedWatchStays

-----------------------------------------------------------------------------
\* A restart gives every slot back.
LEMMA RestartedBus ==
  ASSUME BusSound, Restart
  PROVE  BusSound'
<1>1. /\ subscribers' \in Listening /\ pending' = 0 /\ dropped' = 0 /\ poolOpen' = TRUE
      /\ deliveries' = [d \in Deliveries |-> IF deliveries[d] = "none" THEN "none" ELSE "missed"]
  BY DEF Restart
<1>2. At(Holding)' = {} /\ At({"dropped"})' = {}
  BY <1>1 DEF At, Holding
<1>3. BusTypeOK'
  BY <1>1 DEF BusTypeOK, Stages, Listening
<1> QED
  BY <1>1, <1>2, <1>3, FS_EmptySet, BusAssumption DEF BusSound, SlotsSound

\* The bus keeps its types and its slots whatever the monitors, the handlers and
\* restarts do.
LEMMA BusInductive == FlowSpec => []BusSound
<1>1. BusInit => BusSound
  BY BusInitSound
<1>2. BusSound /\ [FlowNext]_<<busVars, flowVars>> => BusSound'
  <2> SUFFICES ASSUME BusSound, [FlowNext]_<<busVars, flowVars>>
               PROVE  BusSound'
    OBVIOUS
  <2>1. [BusNext]_busVars \/ Restart
    <3>1. ASSUME NEW e \in Events, OnOrderUpdate(e)
          PROVE  BusNext
      <4>1. <<e, FlowCallback>> \in Deliveries /\ Return(<<e, FlowCallback>>)
        BY <3>1, FlowAssumption DEF Deliveries, OnOrderUpdate
      <4> QED
        BY <4>1 DEF BusNext
    <3> QED
      BY <3>1 DEF FlowNext, BusSteps, FlowSteps, BusNext
  <2> QED
    BY <2>1, BusStepKeeps, RestartedBus
<1> QED
  BY <1>1, <1>2, PTL DEF FlowSpec

\* The bus keeps its slots whatever the monitors, the handlers and restarts do.
THEOREM SlotsSurviveRestarts == FlowSpec => []SlotsSound
<1>1. BusSound => SlotsSound
  BY DEF BusSound
<1> QED
  BY <1>1, BusInductive, PTL

-----------------------------------------------------------------------------
(***************************************************************************)
(* The components in one process.                                          *)
(***************************************************************************)

LEMMA DeskStepOfCenter == [DeskNext]_deskVars => [CenterNext \/ CenterRestart]_centerVars
<1> SUFFICES ASSUME [DeskNext]_deskVars
             PROVE  [CenterNext \/ CenterRestart]_centerVars
  OBVIOUS
<1>1. CASE DeskRestart
  BY <1>1 DEF DeskRestart
<1>2. ASSUME NEW o \in Events, Updates(o)
      PROVE  UNCHANGED centerVars
  BY <1>2 DEF Updates
<1>3. CASE UNCHANGED deskVars
  BY <1>3 DEF deskVars
<1> QED
  BY <1>1, <1>2, <1>3 DEF DeskNext

LEMMA DeskStepOfFlows == [DeskNext]_deskVars => [FlowNext]_<<busVars, flowVars>>
<1> SUFFICES ASSUME [DeskNext]_deskVars
             PROVE  [FlowNext]_<<busVars, flowVars>>
  OBVIOUS
<1>1. CASE DeskRestart
  BY <1>1 DEF DeskRestart, FlowNext
<1>2. ASSUME NEW o \in Events, Updates(o)
      PROVE  FlowNext
  BY <1>2 DEF Updates, FlowNext
<1>3. ASSUME NEW o \in Events, OnOrderUpdate(o)
      PROVE  FlowNext
  BY <1>3 DEF FlowNext
<1>4. CASE BusSteps \/ FlowSteps
  BY <1>4 DEF FlowNext
<1>5. CASE UNCHANGED deskVars
  BY <1>5 DEF deskVars
<1> QED
  BY <1>1, <1>2, <1>3, <1>4, <1>5 DEF DeskNext

\* In one process, whatever overlaps and whatever answers are lost, the Action
\* Center, the bus and its counters keep their types: no delivery is in two stages
\* and no counter goes below zero, though a slot is returned on three paths.
THEOREM DeskTypeCorrect == DeskSpec => [](CenterTypeOK /\ BusTypeOK)
<1>1. DeskSpec => CenterSpec
  BY DeskStepOfCenter, PTL DEF DeskSpec, DeskInit, CenterSpec
<1>2. DeskSpec => FlowSpec
  BY DeskStepOfFlows, PTL DEF DeskSpec, DeskInit, FlowSpec
<1>3. BusSound => BusTypeOK
  BY DEF BusSound
<1> QED
  BY <1>1, <1>2, <1>3, CenterTypeCorrect, BusInductive, PTL

\* In one process with the bus and the triggers, through restarts of it all, the
\* Action Center still decides an order once, sends it at most once and only when
\* approved, and tells what the broker took.
THEOREM DeskKeepsContract ==
  ASSUME Orderly
  PROVE  DeskSpec => KeepsApprovalContract
<1>1. DeskSpec => CenterSpec
  BY DeskStepOfCenter, PTL DEF DeskSpec, DeskInit, CenterSpec
<1> QED
  BY <1>1, CenterKeepsContract, PTL

\* In one process with the Action Center, a one-shot trigger runs once, runs do not
\* stack up, and the bus accounts for its slots.
THEOREM DeskRunsOnce ==
  ASSUME Calm
  PROVE  DeskSpec => [](OneShotRunsOnce /\ OneRunInFlight /\ SlotsSound)
<1>1. DeskSpec => FlowSpec
  BY DeskStepOfFlows, PTL DEF DeskSpec, DeskInit, FlowSpec
<1> QED
  BY <1>1, OneShotsRunOnce, RunsDoNotStack, SlotsSurviveRestarts, PTL

\* In one process with the Action Center, only a deactivation takes away a watch
\* that no update has claimed.
THEOREM DeskWatchesStay ==
  ASSUME Calm
  PROVE  DeskSpec => UnclaimedWatchStays
<1>1. DeskSpec => FlowSpec
  BY DeskStepOfFlows, PTL DEF DeskSpec, DeskInit, FlowSpec
<1> QED
  BY <1>1, WatchesStay, PTL
=============================================================================
