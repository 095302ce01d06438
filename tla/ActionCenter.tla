---------------------------- MODULE ActionCenter ----------------------------
(***************************************************************************)
(* The Action Center: orders that wait for an approval, the requests that  *)
(* approve, reject and delete them, one by one or all at once, and the     *)
(* execution of an approved order, which waits for the broker between what *)
(* it reads of the row and what it writes to it.                           *)
(*                                                                         *)
(* The single worker gives way only where it waits, so nothing comes       *)
(* between the query of an approval and its commit; threads would come.    *)
(***************************************************************************)
EXTENDS Integers

CONSTANTS
  Orders,         \* the rows of pending_orders that will be used
  Handlers,       \* requests served side by side
  Children,       \* how many orders of the broker each row stands for
  Smart,          \* the smart orders, which bring a position to a size
  CenterAdmitted  \* which of the hazards below may happen

(***************************************************************************)
(*   decisionsOverlap  two requests are between the query that finds a row *)
(*                     pending and the commit of what they decide          *)
(*   answerLost        the broker takes an order and the call fails        *)
(***************************************************************************)
CenterHazards == {"decisionsOverlap", "answerLost"}

ASSUME CenterAssumption ==
  /\ Children \in [Orders -> Nat \ {0}] /\ Smart \subseteq Orders
  /\ CenterAdmitted \subseteq CenterHazards

VARIABLES
  rows,      \* status and broker_status; what a deleted row said last
  deleted,   \* the rows that are deleted
  taken,     \* how many children of each the broker has taken; -1: not sent
  handlers,  \* the requests
  abandoned  \* rows that an execution was at work on when the process died

centerVars == <<rows, deleted, taken, handlers, abandoned>>

Row == [status : {"none", "pending", "approved", "rejected"},
        broker : {"none", "open", "partial", "rejected"}]

NoRequest == [at |-> "idle"]

Request ==
  {NoRequest}
    \cup [at : {"next"}, decision : {"approved", "rejected"}, todo : SUBSET Orders]
    \cup [at : {"deciding"}, decision : {"approved", "rejected"}, todo : SUBSET Orders,
          order : Orders]
    \cup [at : {"executing", "sending"}, todo : SUBSET Orders, order : Orders]
    \cup [at : {"telling"}, todo : SUBSET Orders, order : Orders,
          verdict : {"open", "partial", "rejected"}]

IsAwaiting(o) == rows[o].status = "pending"
Works(h) == handlers[h].at \in {"executing", "sending", "telling"}

CenterInit ==
  /\ rows = [o \in Orders |-> [status |-> "none", broker |-> "none"]]
  /\ deleted = {} /\ abandoned = {}
  /\ taken = [o \in Orders |-> -1]
  /\ handlers = [h \in Handlers |-> NoRequest]

-----------------------------------------------------------------------------
Continues(h, request) == handlers' = [handlers EXCEPT ![h] = request]

\* On to the next row of an approve-all, if there is one.
Onward(h, todo, decision) ==
  Continues(h, IF todo = {} THEN NoRequest
               ELSE [at |-> "next", decision |-> decision, todo |-> todo])

\* update_broker_status does nothing to a row that is gone.
Tell(o, verdict) ==
  rows' = IF o \in deleted THEN rows ELSE [rows EXCEPT ![o].broker = verdict]

\* queue_order in semi-automatic mode.
Asks(o) ==
  /\ rows[o].status = "none"
  /\ rows' = [rows EXCEPT ![o].status = "pending"]
  /\ UNCHANGED <<deleted, taken, handlers, abandoned>>

\* A request for one row, as some page shows it, or for all that are pending.
Requested(h, decision, todo) ==
  /\ handlers[h] = NoRequest
  /\ Continues(h, [at |-> "next", decision |-> decision, todo |-> todo])
  /\ UNCHANGED <<rows, deleted, taken, abandoned>>

ApproveOne(h, o) == rows[o].status # "none" /\ Requested(h, "approved", {o})

ApproveAll(h) ==
  LET waiting == {o \in Orders : IsAwaiting(o)}
  IN  waiting # {} /\ Requested(h, "approved", waiting)

RejectOne(h, o) == rows[o].status # "none" /\ Requested(h, "rejected", {o})

\* Mutant: the row is found whatever its status.
FindsAny(h, o) ==
  /\ handlers[h].at = "next" /\ o \in handlers[h].todo
  /\ o \notin deleted
  /\ "decisionsOverlap" \in CenterAdmitted \/ \A g \in Handlers : handlers[g].at # "deciding"
  /\ Continues(h, [at |-> "deciding", decision |-> handlers[h].decision,
                   todo |-> handlers[h].todo \ {o}, order |-> o])
  /\ UNCHANGED <<rows, deleted, taken, abandoned>>

\* The query for a pending row finds it.
Finds(h, o) ==
  /\ handlers[h].at = "next" /\ o \in handlers[h].todo
  /\ IsAwaiting(o)
  /\ "decisionsOverlap" \in CenterAdmitted \/ \A g \in Handlers : handlers[g].at # "deciding"
  /\ Continues(h, [at |-> "deciding", decision |-> handlers[h].decision,
                   todo |-> handlers[h].todo \ {o}, order |-> o])
  /\ UNCHANGED <<rows, deleted, taken, abandoned>>

\* It finds none: decided meanwhile, or deleted.
Misses(h, o) ==
  /\ handlers[h].at = "next" /\ o \in handlers[h].todo
  /\ ~IsAwaiting(o)
  /\ Onward(h, handlers[h].todo \ {o}, handlers[h].decision)
  /\ UNCHANGED <<rows, deleted, taken, abandoned>>

\* The commit; an approval goes on to execute_approved_order.
Decides(h) ==
  /\ handlers[h].at = "deciding"
  /\ rows' = [rows EXCEPT ![handlers[h].order].status = handlers[h].decision]
  /\ Continues(h, IF handlers[h].decision = "rejected" THEN NoRequest
                  ELSE [at |-> "executing", todo |-> handlers[h].todo,
                        order |-> handlers[h].order])
  /\ UNCHANGED <<deleted, taken, abandoned>>

\* The row is gone, or is not approved.
Unfit(o) == o \in deleted \/ rows[o].status # "approved"

\* Mutant: the call that finds nobody logged in says so to nobody.
LacksLoginUntold(h) ==
  LET o == handlers[h].order
  IN  /\ handlers[h].at = "executing" /\ ~Unfit(o)
      /\ Onward(h, handlers[h].todo, "approved")
      /\ UNCHANGED <<rows, deleted, taken, abandoned>>

\* No api key, no token or no broker.
LacksLogin(h) ==
  LET o == handlers[h].order
  IN  /\ handlers[h].at = "executing" /\ ~Unfit(o)
      /\ Tell(o, "rejected")
      /\ Onward(h, handlers[h].todo, "approved")
      /\ UNCHANGED <<deleted, taken, abandoned>>

Executes(h) ==
  LET o == handlers[h].order
  IN  /\ handlers[h].at = "executing"
      /\ IF Unfit(o) THEN Onward(h, handlers[h].todo, "approved")
         ELSE Continues(h, [at |-> "sending", todo |-> handlers[h].todo, order |-> o])
      /\ UNCHANGED <<rows, deleted, taken, abandoned>>

\* Mutant: a batch that was taken in part has no verdict.
VerdictOfWhole(o, n) == IF n = Children[o] THEN "open" ELSE IF n = 0 THEN "rejected" ELSE "none"

\* What is told of a batch of which the broker took n.
Verdict(o, n) == IF n = Children[o] THEN "open" ELSE IF n > 0 THEN "partial" ELSE "rejected"

\* The service sends the order and its answer comes back.
Sends(h, n) ==
  LET o == handlers[h].order
      before == IF taken[o] < 0 THEN 0 ELSE taken[o]
      answers == {Verdict(o, n)}
                   \cup (IF "answerLost" \in CenterAdmitted THEN {"rejected"} ELSE {})
  IN  /\ handlers[h].at = "sending"
      /\ taken' = [taken EXCEPT ![o] = before + n]
      /\ \E verdict \in answers :
           Continues(h, [at |-> "telling", todo |-> handlers[h].todo, order |-> o,
                         verdict |-> verdict])
      /\ UNCHANGED <<rows, deleted, abandoned>>

\* A smart order finds the position as it should be: nothing is sent or told.
FindsMatched(h) ==
  LET o == handlers[h].order
  IN  /\ handlers[h].at = "sending" /\ o \in Smart
      /\ taken' = [taken EXCEPT ![o] = IF taken[o] < 0 THEN 0 ELSE taken[o]]
      /\ Onward(h, handlers[h].todo, "approved")
      /\ UNCHANGED <<rows, deleted, abandoned>>

Tells(h) ==
  /\ handlers[h].at = "telling"
  /\ Tell(handlers[h].order, handlers[h].verdict)
  /\ Onward(h, handlers[h].todo, "approved")
  /\ UNCHANGED <<deleted, taken, abandoned>>

\* delete_pending_order: a row that is decided, sent or not.
Deletes(o) ==
  /\ rows[o].status \in {"approved", "rejected"} /\ o \notin deleted
  /\ deleted' = deleted \cup {o}
  /\ UNCHANGED <<rows, taken, handlers, abandoned>>

\* The process dies and starts again; nothing resumes an execution.
CenterRestart ==
  /\ handlers' = [h \in Handlers |-> NoRequest]
  /\ abandoned' = abandoned \cup {handlers[h].order : h \in {g \in Handlers : Works(g)}}
  /\ UNCHANGED <<rows, deleted, taken>>

Serves(h) ==
  \/ \E o \in Orders : Finds(h, o) \/ Misses(h, o)
  \/ Decides(h) \/ LacksLogin(h) \/ Executes(h) \/ FindsMatched(h) \/ Tells(h)
  \/ handlers[h].at = "sending" /\ \E n \in 0..Children[handlers[h].order] : Sends(h, n)

CenterNext ==
  \/ \E o \in Orders : Asks(o) \/ Deletes(o)
  \/ \E h \in Handlers :
       \/ ApproveAll(h) \/ Serves(h)
       \/ \E o \in Orders : ApproveOne(h, o) \/ RejectOne(h, o)

CenterSpec == CenterInit /\ [][CenterNext \/ CenterRestart]_centerVars

-----------------------------------------------------------------------------
CenterTypeOK ==
  /\ rows \in [Orders -> Row]
  /\ deleted \subseteq Orders /\ abandoned \subseteq Orders
  /\ taken \in [Orders -> Int]
  /\ handlers \in [Handlers -> Request]

Approval == INSTANCE ApprovalContract WITH
  decision <- [o \in Orders |-> IF rows[o].status = "pending" THEN "asked" ELSE rows[o].status],
  verdict <- [o \in Orders |-> rows[o].broker]

\* Every order is decided once, goes to the broker once and only if approved, and
\* what the row says afterwards is what the broker took of it.
KeepsApprovalContract == Approval!Spec

\* An approved order comes to a verdict, unless its row is deleted, the process
\* dies while it is executed, or it is a smart order that had nothing to do.
ApprovalSettles ==
  \A o \in Orders :
    rows[o].status = "approved" ~>
      (rows[o].broker # "none" \/ o \in deleted \cup abandoned \/ (o \in Smart /\ taken[o] = 0))
=============================================================================
