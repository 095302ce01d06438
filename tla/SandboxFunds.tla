---------------------------- MODULE SandboxFunds ----------------------------
(***************************************************************************)
(* The account of sandbox/fund_manager.py, at the grain of its reads and   *)
(* commits.  Most operations read the row into the session, change it in   *)
(* memory and commit, under one lock for the whole class; a GTT's          *)
(* transaction instead lets the database compute the new balances, and     *)
(* commits later; a reset reads the row before it takes the lock.          *)
(*                                                                         *)
(* SQLite has one writer at a time and readers see what is committed.  The *)
(* session writes back only the columns whose value it has changed.        *)
(***************************************************************************)
EXTENDS Integers

CONSTANTS
  Threads,     \* request handlers, engines and maintenance threads
  Amounts,     \* the margins and proceeds that are moved
  Profits,     \* realized profits and losses
  Marks,       \* values of the open positions
  Capital,     \* starting_capital
  MaxBalance,  \* bound: proceeds are credited only below this worth
  MaxPnl,      \* bound: realized profits and losses stay near this
  Admitted,    \* which of the hazards below may happen
  NoThread

(***************************************************************************)
(*   stageOverlaps  a staged change and a locked operation run at once     *)
(*   resetOverlaps  an operation runs between the read of a reset and its  *)
(*                  write                                                  *)
(***************************************************************************)
Hazards == {"stageOverlaps", "resetOverlaps"}

ASSUME FundsAssumption ==
  /\ Amounts \subseteq Nat \ {0}
  /\ Profits \subseteq Int /\ 0 \in Profits
  /\ Marks \subseteq Int
  /\ Capital \in Nat
  /\ MaxBalance \in Nat /\ MaxPnl \in Nat
  /\ Admitted \subseteq Hazards
  /\ NoThread \notin Threads

VARIABLES
  funds,    \* the committed row of sandbox_funds
  lock,     \* who holds FundManager._lock
  writer,   \* whose transaction has the database's write lock
  pc,       \* where each thread is
  my,       \* its call and the copy of the row in its session
  book      \* not in the code: the account as the successful calls make it

vars == <<funds, lock, writer, pc, my, book>>

Row == [available : Int, used : Int, realized : Int, unrealized : Int, total : Int]

Opening == [available |-> Capital, used |-> 0, realized |-> 0, unrealized |-> 0, total |-> 0]

\* A call of one of the operations that take the lock.
Call(op, amount, pnl) == [op |-> op, amount |-> amount, pnl |-> pnl]

LockedCalls ==
  {Call(op, a, 0) : op \in {"block", "transfer", "credit"}, a \in Amounts}
    \cup {Call("release", a, p) : a \in Amounts \cup {0}, p \in Profits}
    \cup {Call("mark", 0, u) : u \in Marks}

\* A positive change reserves; a negative one gives back, and no profit with it.
StagedCalls == {Call(op, a, 0) : op \in {"block", "unblock"}, a \in Amounts}

ResetCall == Call("reset", 0, 0)

Calls == LockedCalls \cup StagedCalls \cup {ResetCall}

Rest == [call |-> ResetCall, row |-> Opening]

\* Mutant: a block is not checked.
GrantsAnyBlock(call, row) == call.op \in {"release", "unblock", "transfer"} => call.amount <= row.used

\* Mutant: what is given back is not checked.
GrantsAnyRelease(call, row) == call.op = "block" => row.available >= call.amount

\* The sufficiency checks.
Grants(call, row) ==
  /\ call.op = "block" => row.available >= call.amount
  /\ call.op \in {"release", "unblock", "transfer"} => call.amount <= row.used

\* What the operation adds to the cash, to the margin reserved, to the profit.
Cash(call) ==
  CASE call.op = "block" -> -call.amount
    [] call.op = "release" -> call.amount + call.pnl
    [] call.op \in {"credit", "unblock"} -> call.amount
    [] OTHER -> 0

Reserve(call) ==
  CASE call.op = "block" -> call.amount
    [] call.op \in {"release", "unblock", "transfer"} -> -call.amount
    [] OTHER -> 0

Realized(call, row) == row.realized + (IF call.op = "release" THEN call.pnl ELSE 0)
Unrealized(call, row) == IF call.op = "mark" THEN call.pnl ELSE row.unrealized

\* What the operation makes of the row; only two of them bring the total up to date.
After(call, row) ==
  IF call.op = "reset" THEN Opening
  ELSE [available |-> row.available + Cash(call), used |-> row.used + Reserve(call),
        realized |-> Realized(call, row), unrealized |-> Unrealized(call, row),
        total |-> IF call.op \in {"release", "mark"}
                  THEN Realized(call, row) + Unrealized(call, row) ELSE row.total]

\* The UPDATE that the session emits for the copy it read.
Flushed(call, copy) ==
  LET new == After(call, copy)
      Column(c) == IF new[c] # copy[c] THEN new[c] ELSE funds[c]
  IN  [available |-> Column("available"), used |-> Column("used"),
       realized |-> Column("realized"), unrealized |-> Column("unrealized"),
       total |-> Column("total")]

Goto(t, next) == pc' = [pc EXCEPT ![t] = next]
Return(t) == Goto(t, "idle") /\ my' = [my EXCEPT ![t] = Rest]

-----------------------------------------------------------------------------
(***************************************************************************)
(* block_margin, release_margin, transfer_margin_to_holdings,              *)
(* credit_sale_proceeds and update_unrealized_pnl.                         *)
(***************************************************************************)

\* What the market may still add stays between the bounds.
InBounds(call) ==
  /\ call.op = "credit" => funds.available + funds.used < MaxBalance
  /\ call.op = "release" /\ call.pnl > 0 => funds.realized < MaxPnl
  /\ call.op = "release" /\ call.pnl < 0 => funds.realized > -MaxPnl

\* Mutant: the lock is not waited for.
EnterUnlocked(t, call) ==
  /\ pc[t] = "idle" /\ writer = NoThread
  /\ \A u \in Threads : pc[u] # "reset"
  /\ InBounds(call)
  /\ lock' = t
  /\ Goto(t, "entered")
  /\ my' = [my EXCEPT ![t] = [call |-> call, row |-> Opening]]
  /\ UNCHANGED <<funds, writer, book>>

Enter(t, call) ==
  /\ pc[t] = "idle" /\ lock = NoThread
  /\ "stageOverlaps" \in Admitted \/ writer = NoThread
  /\ "resetOverlaps" \in Admitted \/ \A u \in Threads : pc[u] # "reset"
  /\ InBounds(call)
  /\ lock' = t
  /\ Goto(t, "entered")
  /\ my' = [my EXCEPT ![t] = [call |-> call, row |-> Opening]]
  /\ UNCHANGED <<funds, writer, book>>

\* The row is read, and the check made, in memory.
ReadRow(t) ==
  /\ pc[t] = "entered"
  /\ \/ /\ Grants(my[t].call, funds)
        /\ my' = [my EXCEPT ![t].row = funds]
        /\ Goto(t, "loaded")
        /\ UNCHANGED lock
     \/ /\ ~Grants(my[t].call, funds)
        /\ Return(t)
        /\ lock' = NoThread
  /\ UNCHANGED <<funds, writer, book>>

WriteRow(t) ==
  /\ pc[t] = "loaded" /\ writer = NoThread
  /\ funds' = Flushed(my[t].call, my[t].row)
  /\ book' = After(my[t].call, book)
  /\ lock' = NoThread
  /\ Return(t)
  /\ UNCHANGED writer

\* The commit raises: the database stays locked for too long.
WriteFails(t) ==
  /\ pc[t] = "loaded"
  /\ lock' = NoThread
  /\ Return(t)
  /\ UNCHANGED <<funds, writer, book>>

-----------------------------------------------------------------------------
(***************************************************************************)
(* stage_margin_delta: checked and computed by the database, committed or  *)
(* rolled back by the caller, and no lock taken.                           *)
(***************************************************************************)
Stage(t, call) ==
  /\ pc[t] = "idle" /\ writer = NoThread
  /\ "stageOverlaps" \in Admitted \/ lock = NoThread
  /\ "resetOverlaps" \in Admitted \/ \A u \in Threads : pc[u] # "reset"
  /\ Grants(call, funds)
  /\ writer' = t
  /\ Goto(t, "staged")
  /\ my' = [my EXCEPT ![t] = [call |-> call, row |-> After(call, funds)]]
  /\ UNCHANGED <<funds, lock, book>>

CommitStage(t) ==
  /\ pc[t] = "staged"
  /\ funds' = my[t].row
  /\ book' = After(my[t].call, book)
  /\ writer' = NoThread
  /\ Return(t)
  /\ UNCHANGED lock

RollbackStage(t) ==
  /\ pc[t] = "staged"
  /\ writer' = NoThread
  /\ Return(t)
  /\ UNCHANGED <<funds, lock, book>>

-----------------------------------------------------------------------------
(***************************************************************************)
(* _reset_funds: get_funds and reset_all_user_funds read the row first.    *)
(***************************************************************************)
ResetRead(t) ==
  /\ pc[t] = "idle"
  /\ "resetOverlaps" \in Admitted \/ (lock = NoThread /\ writer = NoThread)
  /\ Goto(t, "reset")
  /\ my' = [my EXCEPT ![t] = [call |-> ResetCall, row |-> funds]]
  /\ UNCHANGED <<funds, lock, writer, book>>

ResetWrite(t) ==
  /\ pc[t] = "reset" /\ lock = NoThread /\ writer = NoThread
  /\ funds' = Flushed(ResetCall, my[t].row)
  /\ book' = Opening
  /\ Return(t)
  /\ UNCHANGED <<lock, writer>>

Init ==
  /\ funds = Opening /\ book = Opening
  /\ lock = NoThread /\ writer = NoThread
  /\ pc = [t \in Threads |-> "idle"]
  /\ my = [t \in Threads |-> Rest]

Move(t) ==
  \/ \E call \in LockedCalls : Enter(t, call)
  \/ ReadRow(t) \/ WriteRow(t) \/ WriteFails(t)
  \/ \E call \in StagedCalls : Stage(t, call)
  \/ CommitStage(t) \/ RollbackStage(t)
  \/ ResetRead(t) \/ ResetWrite(t)

Next == \E t \in Threads : Move(t)

Spec == Init /\ [][Next]_vars

-----------------------------------------------------------------------------
(***************************************************************************)
(* Properties.                                                             *)
(***************************************************************************)
Pcs == {"idle", "entered", "loaded", "staged", "reset"}

\* Type correctness; no more is ever reserved than was blocked.
TypeOK ==
  /\ funds \in Row /\ funds.used >= 0
  /\ book \in Row
  /\ lock \in Threads \cup {NoThread} /\ writer \in Threads \cup {NoThread}
  /\ pc \in [Threads -> Pcs]
  /\ my \in [Threads -> [call : Calls, row : Row]]

\* "Class-level lock for thread safety across all fund operations": the row is
\* what the calls that reported success add up to, none lost, none doubled.
NoLostUpdate == funds = book

Ledger == INSTANCE FundsLedger

\* Each of them is one entry of the ledger, its check made on the balance it
\* changes: cash is not reserved twice, nor margin given back twice.
KeepsLedger == Ledger!Spec
=============================================================================
