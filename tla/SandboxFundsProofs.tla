-------------------------- MODULE SandboxFundsProofs --------------------------
(***************************************************************************)
(* As long as neither a staged change nor a reset overlaps an operation    *)
(* under the lock, the row of sandbox_funds is the ledger, for any number  *)
(* of threads and any amounts.                                             *)
(***************************************************************************)
EXTENDS SandboxFunds, TLAPS

\* One thread at a time is past the lock, one in a transaction, never both.
Held ==
  /\ \A t \in Threads : pc[t] \in {"entered", "loaded"} => lock = t
  /\ \A t \in Threads : pc[t] = "staged" => writer = t /\ lock = NoThread
  /\ writer # NoThread => lock = NoThread

\* A reset that has read the row finds nobody else at work.
ResetAlone ==
  \A t \in Threads : pc[t] = "reset" => lock = NoThread /\ writer = NoThread

\* The copies in the sessions are current, and so are the checks made on them.
CopiesCurrent ==
  \A t \in Threads :
    /\ pc[t] = "entered" => my[t].call \in LockedCalls
    /\ pc[t] = "loaded" =>
         /\ my[t].call \in LockedCalls
         /\ my[t].row = funds /\ Grants(my[t].call, funds)
    /\ pc[t] = "staged" =>
         /\ my[t].call \in StagedCalls
         /\ my[t].row = After(my[t].call, funds) /\ Grants(my[t].call, funds)
    /\ pc[t] = "reset" => my[t].row = funds \/ funds = Opening

Serial == TypeOK /\ NoLostUpdate /\ Held /\ ResetAlone /\ CopiesCurrent

\* A call is of one of six kinds, with whole amounts.
LEMMA CallKinds ==
  ASSUME NEW call \in Calls
  PROVE  /\ call.op \in {"block", "unblock", "transfer", "credit", "release", "mark", "reset"}
         /\ call.amount \in Nat /\ call.pnl \in Int
         /\ call \in StagedCalls => call.op \in {"block", "unblock"}
BY FundsAssumption DEF Calls, LockedCalls, StagedCalls, ResetCall, Call

\* The values at rest are typed.
LEMMA RestIsTyped == Rest \in [call : Calls, row : Row] /\ Opening \in Row /\ ResetCall \in Calls
BY FundsAssumption DEF Rest, Calls, Row, Opening

\* An operation that its check grants makes a row of a row.
LEMMA AfterIsRow ==
  ASSUME NEW call \in Calls, NEW row \in Row
  PROVE  /\ After(call, row) \in Row
         /\ row.used >= 0 /\ Grants(call, row) => After(call, row).used >= 0
<1>1. /\ call.op \in {"block", "unblock", "transfer", "credit", "release", "mark", "reset"}
      /\ call.amount \in Nat /\ call.pnl \in Int
  BY CallKinds
<1>2. CASE call.op = "reset"
  BY <1>2, RestIsTyped DEF After, Opening
<1>3. CASE call.op # "reset"
  <2>1. Cash(call) \in Int /\ Reserve(call) \in Int
    BY <1>1 DEF Cash, Reserve
  <2>2. Realized(call, row) \in Int /\ Unrealized(call, row) \in Int
    BY <1>1 DEF Realized, Unrealized, Row
  <2>3. After(call, row) \in Row /\ After(call, row).used = row.used + Reserve(call)
    BY <1>3, <2>1, <2>2 DEF After, Row
  <2>4. row.used >= 0 /\ Grants(call, row) => row.used + Reserve(call) >= 0
    BY <1>1 DEF Grants, Reserve, Row
  <2> QED
    BY <2>3, <2>4
<1> QED
  BY <1>2, <1>3

\* A flush of a current copy writes the whole new row.
LEMMA FlushOfCurrent ==
  ASSUME NEW call \in Calls, funds \in Row
  PROVE  Flushed(call, funds) = After(call, funds)
<1>1. After(call, funds) \in Row
  BY AfterIsRow
<1> DEFINE new == After(call, funds)
           Column(c) == IF new[c] # funds[c] THEN new[c] ELSE funds[c]
<1>2. \A c : Column(c) = new[c]
  OBVIOUS
<1>3. Flushed(call, funds) =
        [available |-> new["available"], used |-> new["used"], realized |-> new["realized"],
         unrealized |-> new["unrealized"], total |-> new["total"]]
  BY <1>2 DEF Flushed
<1> HIDE DEF new
<1> QED
  BY <1>1, <1>3 DEF Row, new

\* A reset over an account already reset changes nothing.
LEMMA ResetOfReset ==
  ASSUME NEW copy, funds = Opening
  PROVE  Flushed(ResetCall, copy) = Opening
<1>1. After(ResetCall, copy) = Opening
  BY DEF After, ResetCall, Call
<1> QED
  BY <1>1 DEF Flushed, Opening

-----------------------------------------------------------------------------
(***************************************************************************)
(* Whatever overlaps.                                                      *)
(***************************************************************************)

\* A copy in a session was granted its operation, current or not.
Granted(t) ==
  /\ pc[t] = "loaded" => my[t].row.used >= 0 /\ Grants(my[t].call, my[t].row)
  /\ pc[t] = "staged" => my[t].row.used >= 0

\* The inductive invariant of type correctness.
Typed == TypeOK /\ \A t \in Threads : Granted(t)

\* A flush writes a column of the copy's new row or keeps the committed one: both
\* rows reserve no less than nothing, so the mixture does not either.
LEMMA FlushIsRow ==
  ASSUME NEW call \in Calls, NEW copy \in Row, funds \in Row, funds.used >= 0,
         After(call, copy).used >= 0
  PROVE  Flushed(call, copy) \in Row /\ Flushed(call, copy).used >= 0
<1>1. After(call, copy) \in Row
  BY AfterIsRow
<1> DEFINE new == After(call, copy)
           Column(c) == IF new[c] # copy[c] THEN new[c] ELSE funds[c]
<1>2. Flushed(call, copy) =
        [available |-> Column("available"), used |-> Column("used"),
         realized |-> Column("realized"), unrealized |-> Column("unrealized"),
         total |-> Column("total")]
  BY DEF Flushed
<1>3. \A c \in {"available", "used", "realized", "unrealized", "total"} :
        new[c] \in Int /\ funds[c] \in Int
  BY <1>1 DEF Row
<1>4. \A c \in {"available", "used", "realized", "unrealized", "total"} : Column(c) \in Int
  BY <1>3
<1>5. Column("used") >= 0
  OBVIOUS
<1> HIDE DEF Column
<1> QED
  BY <1>2, <1>4, <1>5 DEF Row

\* A thread that moves and leaves the account and the other threads' copies alone.
LEMMA TypedByMove ==
  ASSUME Typed, NEW t \in Threads, NEW next \in Pcs, Goto(t, next),
         NEW mine \in [call : Calls, row : Row], my' = [my EXCEPT ![t] = mine],
         funds' \in Row, funds'.used >= 0, book' \in Row,
         lock' \in Threads \cup {NoThread}, writer' \in Threads \cup {NoThread},
         next = "loaded" => mine.row.used >= 0 /\ Grants(mine.call, mine.row),
         next = "staged" => mine.row.used >= 0
  PROVE  Typed'
<1>1. my' \in [Threads -> [call : Calls, row : Row]] /\ pc' \in [Threads -> Pcs]
  BY DEF Typed, TypeOK, Goto
<1>2. TypeOK'
  BY <1>1 DEF TypeOK
<1>3. my'[t] = mine /\ pc'[t] = next
  BY DEF Typed, TypeOK, Goto
<1>4. \A u \in Threads \ {t} : my'[u] = my[u] /\ pc'[u] = pc[u]
  BY DEF Typed, TypeOK, Goto
<1>5. Granted(t)'
  BY <1>3 DEF Granted
<1>6. \A u \in Threads \ {t} : Granted(u)'
  BY <1>4 DEF Granted, Typed
<1> QED
  BY <1>2, <1>5, <1>6 DEF Typed

\* Every move leaves the types as they were.
LEMMA MoveTyped ==
  ASSUME Typed, NEW t \in Threads, Move(t)
  PROVE  Typed'
<1>1. /\ funds \in Row /\ funds.used >= 0 /\ book \in Row
      /\ lock \in Threads \cup {NoThread} /\ writer \in Threads \cup {NoThread}
      /\ my[t] \in [call : Calls, row : Row] /\ my \in [Threads -> [call : Calls, row : Row]]
  BY DEF Typed, TypeOK
<1>2. my[t].call \in Calls /\ my[t].row \in Row
  BY <1>1
<1>3. Granted(t)
  BY DEF Typed
<1>4. ASSUME NEW call \in LockedCalls, Enter(t, call)
      PROVE  Typed'
  <2>1. [call |-> call, row |-> Opening] \in [call : Calls, row : Row]
    BY RestIsTyped DEF Calls
  <2> QED
    BY <1>1, <1>4, <2>1, TypedByMove DEF Enter, Pcs
<1>5. CASE ReadRow(t)
  <2>1. CASE Grants(my[t].call, funds)
    <3> DEFINE mine == [call |-> my[t].call, row |-> funds]
    <3>1. my' = [my EXCEPT ![t] = mine]
      BY <1>1, <1>5, <2>1 DEF ReadRow
    <3>2. mine \in [call : Calls, row : Row]
      BY <1>1, <1>2
    <3>3. mine.call = my[t].call /\ mine.row = funds
      OBVIOUS
    <3>4. /\ Goto(t, "loaded") /\ UNCHANGED <<funds, book, lock, writer>>
      BY <1>5, <2>1 DEF ReadRow
    <3> HIDE DEF mine
    <3> QED
      BY <1>1, <2>1, <3>1, <3>2, <3>3, <3>4, TypedByMove DEF Pcs
  <2>2. CASE ~Grants(my[t].call, funds)
    BY <1>1, <1>5, <2>2, RestIsTyped, TypedByMove DEF ReadRow, Return, Pcs
  <2> QED
    BY <2>1, <2>2
<1>6. CASE WriteRow(t)
  <2>1. After(my[t].call, my[t].row).used >= 0
    BY <1>2, <1>3, <1>6, AfterIsRow DEF WriteRow, Granted
  <2>2. Flushed(my[t].call, my[t].row) \in Row /\ Flushed(my[t].call, my[t].row).used >= 0
    BY <1>1, <1>2, <2>1, FlushIsRow
  <2>3. After(my[t].call, book) \in Row
    BY <1>1, <1>2, AfterIsRow
  <2> QED
    BY <1>1, <1>6, <2>2, <2>3, RestIsTyped, TypedByMove DEF WriteRow, Return, Pcs
<1>7. CASE WriteFails(t)
  BY <1>1, <1>7, RestIsTyped, TypedByMove DEF WriteFails, Return, Pcs
<1>8. ASSUME NEW call \in StagedCalls, Stage(t, call)
      PROVE  Typed'
  <2>1. call \in Calls
    BY DEF Calls
  <2>2. After(call, funds) \in Row /\ After(call, funds).used >= 0
    BY <1>1, <1>8, <2>1, AfterIsRow DEF Stage
  <2>3. [call |-> call, row |-> After(call, funds)] \in [call : Calls, row : Row]
    BY <2>1, <2>2
  <2> QED
    BY <1>1, <1>8, <2>2, <2>3, TypedByMove DEF Stage, Pcs
<1>9. CASE CommitStage(t)
  <2>1. my[t].row.used >= 0
    BY <1>3, <1>9 DEF CommitStage, Granted
  <2>2. After(my[t].call, book) \in Row
    BY <1>1, <1>2, AfterIsRow
  <2> QED
    BY <1>1, <1>2, <1>9, <2>1, <2>2, RestIsTyped, TypedByMove DEF CommitStage, Return, Pcs
<1>10. CASE RollbackStage(t)
  BY <1>1, <1>10, RestIsTyped, TypedByMove DEF RollbackStage, Return, Pcs
<1>11. CASE ResetRead(t)
  <2>1. [call |-> ResetCall, row |-> funds] \in [call : Calls, row : Row]
    BY <1>1, RestIsTyped
  <2> QED
    BY <1>1, <1>11, <2>1, TypedByMove DEF ResetRead, Pcs
<1>12. CASE ResetWrite(t)
  <2>1. After(ResetCall, my[t].row) = Opening /\ Opening.used = 0
    BY DEF After, ResetCall, Call, Opening
  <2>2. Flushed(ResetCall, my[t].row) \in Row /\ Flushed(ResetCall, my[t].row).used >= 0
    BY <1>1, <1>2, <2>1, RestIsTyped, FlushIsRow
  <2> QED
    BY <1>1, <1>12, <2>2, RestIsTyped, TypedByMove DEF ResetWrite, Return, Pcs
<1> QED
  BY <1>4, <1>5, <1>6, <1>7, <1>8, <1>9, <1>10, <1>11, <1>12 DEF Move

\* Even where updates are lost, because a staged change or a reset overlaps an
\* operation, the account keeps its types and never has less than nothing reserved:
\* every flush mixes columns of rows of which that holds.
THEOREM RowIsTyped == Spec => []TypeOK
<1>1. Init => Typed
  BY RestIsTyped, FundsAssumption DEF Init, Typed, TypeOK, Granted, Pcs, Opening
<1>2. Typed /\ [Next]_vars => Typed'
  <2> SUFFICES ASSUME Typed, [Next]_vars
               PROVE  Typed'
    OBVIOUS
  <2>1. CASE UNCHANGED vars
    BY <2>1 DEF vars, Typed, TypeOK, Granted
  <2> QED
    BY <2>1, MoveTyped DEF Next
<1>3. Typed => TypeOK
  BY DEF Typed
<1> QED
  BY <1>1, <1>2, <1>3, PTL DEF Spec

-----------------------------------------------------------------------------
(***************************************************************************)
(* While nothing overlaps.                                                 *)
(***************************************************************************)
LEMMA SerialInit == Init => Serial
BY RestIsTyped, FundsAssumption
DEF Init, Serial, TypeOK, NoLostUpdate, Held, ResetAlone, CopiesCurrent, Pcs, Opening

\* The parts of Serial that are about the one thread that moves.
Own(t) ==
  /\ pc[t] \in {"entered", "loaded"} => lock = t
  /\ pc[t] = "staged" => writer = t /\ lock = NoThread
  /\ pc[t] = "reset" => lock = NoThread /\ writer = NoThread
  /\ pc[t] = "entered" => my[t].call \in LockedCalls
  /\ pc[t] = "loaded" =>
       my[t].call \in LockedCalls /\ my[t].row = funds /\ Grants(my[t].call, funds)
  /\ pc[t] = "staged" =>
       /\ my[t].call \in StagedCalls
       /\ my[t].row = After(my[t].call, funds) /\ Grants(my[t].call, funds)
  /\ pc[t] = "reset" => my[t].row = funds \/ funds = Opening

LEMMA SerialByOwn ==
  Serial <=> /\ TypeOK /\ NoLostUpdate
             /\ writer # NoThread => lock = NoThread
             /\ \A t \in Threads : Own(t)
<1>1. ASSUME Serial
      PROVE  \A t \in Threads : Own(t)
  BY <1>1 DEF Serial, Held, ResetAlone, CopiesCurrent, Own
<1>2. ASSUME \A t \in Threads : Own(t), writer # NoThread => lock = NoThread
      PROVE  Held /\ ResetAlone /\ CopiesCurrent
  <2>1. Held
    BY <1>2 DEF Held, Own
  <2>2. ResetAlone
    BY <1>2 DEF ResetAlone, Own
  <2>3. CopiesCurrent
    BY <1>2 DEF CopiesCurrent, Own
  <2> QED
    BY <2>1, <2>2, <2>3
<1>3. Serial => (writer # NoThread => lock = NoThread)
  BY DEF Serial, Held
<1> QED
  BY <1>1, <1>2, <1>3 DEF Serial

-----------------------------------------------------------------------------
\* The parts together are the invariant, of the new state too.
LEMMA SerialParts ==
  ASSUME TypeOK', NoLostUpdate', writer' # NoThread => lock' = NoThread,
         \A t \in Threads : Own(t)'
  PROVE  Serial'
BY DEF Serial, Held, ResetAlone, CopiesCurrent, Own

\* A thread moves, and no other.
LEMMA Moves ==
  ASSUME TypeOK, NEW t \in Threads, NEW next \in Pcs, Goto(t, next),
         NEW mine, mine \in [call : Calls, row : Row], my' = [my EXCEPT ![t] = mine]
  PROVE  /\ pc' \in [Threads -> Pcs] /\ my' \in [Threads -> [call : Calls, row : Row]]
         /\ pc'[t] = next /\ my'[t] = mine
         /\ \A u \in Threads : u # t => pc'[u] = pc[u] /\ my'[u] = my[u]
BY DEF TypeOK, Goto

\* Entering the lock, without an overlap admitted.
LEMMA EnterSerial ==
  ASSUME Admitted = {}, Serial, NEW t \in Threads, NEW call \in LockedCalls, Enter(t, call)
  PROVE  Serial'
<1>0. TypeOK /\ NoLostUpdate /\ \A u \in Threads : Own(u)
  BY SerialByOwn
<1>1. [call |-> call, row |-> Opening] \in [call : Calls, row : Row] /\ "entered" \in Pcs
  BY RestIsTyped DEF Calls, Pcs
<1>2. /\ pc' \in [Threads -> Pcs] /\ my' \in [Threads -> [call : Calls, row : Row]]
      /\ pc'[t] = "entered" /\ my'[t] = [call |-> call, row |-> Opening]
      /\ \A u \in Threads : u # t => pc'[u] = pc[u] /\ my'[u] = my[u]
  BY <1>0, <1>1, Moves DEF Enter
<1>3. /\ lock = NoThread /\ writer = NoThread /\ \A u \in Threads : pc[u] # "reset"
      /\ lock' = t /\ funds' = funds /\ writer' = writer /\ book' = book
  BY DEF Enter
<1>4. TypeOK' /\ NoLostUpdate'
  BY <1>0, <1>2, <1>3 DEF TypeOK, NoLostUpdate
<1>5. Own(t)'
  BY <1>2, <1>3 DEF Own
<1>6. \A u \in Threads : u # t => Own(u)'
  BY <1>0, <1>2, <1>3, FundsAssumption DEF Own
<1> QED
  BY <1>3, <1>4, <1>5, <1>6, SerialParts

\* So does reading the row under the lock, and being refused.
LEMMA ReadSerial ==
  ASSUME Serial, NEW t \in Threads, ReadRow(t)
  PROVE  Serial'
<1>0. TypeOK /\ NoLostUpdate /\ \A u \in Threads : Own(u)
  BY SerialByOwn
<1>1. pc[t] = "entered" /\ lock = t /\ writer = NoThread /\ my[t].call \in LockedCalls
  BY <1>0, FundsAssumption DEF ReadRow, Own, Serial, Held
<1>2. funds' = funds /\ writer' = writer /\ book' = book
  BY DEF ReadRow
<1>3. \A u \in Threads : u # t => pc[u] = "idle"
  BY <1>0, <1>1, FundsAssumption DEF Own, TypeOK, Pcs
<1>4. PICK next \in {"loaded", "idle"}, mine \in [call : Calls, row : Row] :
        /\ Goto(t, next) /\ my' = [my EXCEPT ![t] = mine]
        /\ next = "loaded" =>
             mine = [call |-> my[t].call, row |-> funds] /\ Grants(my[t].call, funds) /\ lock' = lock
        /\ next = "idle" => lock' = NoThread
  <2>1. CASE Grants(my[t].call, funds)
    <3> DEFINE mine == [my[t] EXCEPT !.row = funds]
    <3>1. mine = [call |-> my[t].call, row |-> funds] /\ mine \in [call : Calls, row : Row]
      BY <1>0 DEF TypeOK
    <3>2. my' = [my EXCEPT ![t] = mine] /\ Goto(t, "loaded") /\ lock' = lock
      BY <1>0, <2>1 DEF ReadRow, TypeOK
    <3> QED
      BY <2>1, <3>1, <3>2
  <2>2. CASE ~Grants(my[t].call, funds)
    BY <2>2, RestIsTyped DEF ReadRow, Return
  <2> QED
    BY <2>1, <2>2
<1>5. /\ pc' \in [Threads -> Pcs] /\ my' \in [Threads -> [call : Calls, row : Row]]
      /\ pc'[t] = next /\ my'[t] = mine
      /\ \A u \in Threads : u # t => pc'[u] = pc[u] /\ my'[u] = my[u]
  BY <1>0, <1>4, Moves DEF Pcs
<1>6. TypeOK' /\ NoLostUpdate'
  BY <1>0, <1>1, <1>2, <1>4, <1>5 DEF TypeOK, NoLostUpdate
<1>7. Own(t)'
  BY <1>1, <1>2, <1>4, <1>5 DEF Own
<1>8. \A u \in Threads : u # t => Own(u)'
  BY <1>3, <1>5 DEF Own
<1> QED
  BY <1>1, <1>2, <1>6, <1>7, <1>8, SerialParts

\* A commit or a rollback ends the only operation under way.
LEMMA EndSerial ==
  ASSUME Serial, NEW t \in Threads, Return(t), pc[t] \in {"loaded", "staged"},
         lock' = NoThread, writer' = NoThread,
         funds' \in Row, funds'.used >= 0, book' = funds'
  PROVE  Serial'
<1>0. TypeOK /\ NoLostUpdate /\ \A u \in Threads : Own(u)
  BY SerialByOwn
<1>1. \A u \in Threads : u # t => pc[u] = "idle"
  BY <1>0, FundsAssumption DEF Own, TypeOK, Pcs
<1>2. /\ pc' \in [Threads -> Pcs] /\ my' \in [Threads -> [call : Calls, row : Row]]
      /\ pc'[t] = "idle"
      /\ \A u \in Threads : u # t => pc'[u] = pc[u]
  BY <1>0, Moves, RestIsTyped DEF Return, Pcs
<1>3. TypeOK' /\ NoLostUpdate'
  BY <1>2 DEF TypeOK, NoLostUpdate
<1>4. \A u \in Threads : Own(u)'
  BY <1>1, <1>2 DEF Own
<1> QED
  BY <1>3, <1>4, SerialParts

LEMMA WriteSerial ==
  ASSUME Serial, NEW t \in Threads, WriteRow(t)
  PROVE  /\ Serial'
         /\ my[t].call \in LockedCalls /\ Grants(my[t].call, book)
         /\ book' = After(my[t].call, book)
<1>0. TypeOK /\ NoLostUpdate /\ Own(t)
  BY SerialByOwn
<1>1. /\ my[t].call \in LockedCalls /\ my[t].call \in Calls
      /\ my[t].row = funds /\ Grants(my[t].call, funds) /\ book = funds
  BY <1>0 DEF WriteRow, Own, Calls, NoLostUpdate
<1>2. funds' = After(my[t].call, funds) /\ book' = After(my[t].call, funds)
  BY <1>0, <1>1, FlushOfCurrent DEF WriteRow, TypeOK
<1>3. funds' \in Row /\ funds'.used >= 0
  BY <1>0, <1>1, <1>2, AfterIsRow DEF TypeOK
<1> QED
  BY <1>1, <1>2, <1>3, EndSerial DEF WriteRow

LEMMA CommitSerial ==
  ASSUME Serial, NEW t \in Threads, CommitStage(t)
  PROVE  /\ Serial'
         /\ my[t].call \in StagedCalls /\ Grants(my[t].call, book)
         /\ book' = After(my[t].call, book)
<1>0. TypeOK /\ NoLostUpdate /\ Own(t)
  BY SerialByOwn
<1>1. /\ my[t].call \in StagedCalls /\ my[t].call \in Calls /\ lock = NoThread
      /\ my[t].row = After(my[t].call, funds) /\ Grants(my[t].call, funds) /\ book = funds
  BY <1>0 DEF CommitStage, Own, Calls, NoLostUpdate
<1>2. funds' = After(my[t].call, funds) /\ book' = After(my[t].call, funds)
  BY <1>1 DEF CommitStage
<1>3. funds' \in Row /\ funds'.used >= 0
  BY <1>0, <1>1, <1>2, AfterIsRow DEF TypeOK
<1> QED
  BY <1>1, <1>2, <1>3, EndSerial DEF CommitStage

LEMMA UndoSerial ==
  ASSUME Serial, NEW t \in Threads, WriteFails(t) \/ RollbackStage(t)
  PROVE  Serial'
<1>0. TypeOK /\ NoLostUpdate /\ Own(t) /\ (writer # NoThread => lock = NoThread)
  BY SerialByOwn
<1>1. lock' = NoThread /\ writer' = NoThread
  BY <1>0, FundsAssumption DEF WriteFails, RollbackStage, Own
<1> QED
  BY <1>0, <1>1, EndSerial DEF WriteFails, RollbackStage, TypeOK, NoLostUpdate

LEMMA StageSerial ==
  ASSUME Admitted = {}, Serial, NEW t \in Threads, NEW call \in StagedCalls, Stage(t, call)
  PROVE  Serial'
<1>0. TypeOK /\ NoLostUpdate /\ \A u \in Threads : Own(u)
  BY SerialByOwn
<1>1. /\ lock = NoThread /\ writer = NoThread /\ \A u \in Threads : pc[u] # "reset"
      /\ lock' = lock /\ writer' = t /\ funds' = funds /\ book' = book /\ Grants(call, funds)
  BY DEF Stage
<1> DEFINE mine == [call |-> call, row |-> After(call, funds)]
<1>2. mine \in [call : Calls, row : Row]
  BY <1>0, AfterIsRow DEF Calls, TypeOK
<1>3. Goto(t, "staged") /\ my' = [my EXCEPT ![t] = mine] /\ "staged" \in Pcs
  BY DEF Stage, Pcs
<1> HIDE DEF mine
<1>4. /\ pc' \in [Threads -> Pcs] /\ my' \in [Threads -> [call : Calls, row : Row]]
      /\ pc'[t] = "staged" /\ my'[t] = mine
      /\ \A u \in Threads : u # t => pc'[u] = pc[u] /\ my'[u] = my[u]
  BY <1>0, <1>2, <1>3, Moves
<1>5. TypeOK' /\ NoLostUpdate'
  BY <1>0, <1>1, <1>4 DEF TypeOK, NoLostUpdate
<1>6. Own(t)'
  BY <1>1, <1>4 DEF Own, mine
<1>7. \A u \in Threads : u # t => pc[u] = "idle"
  BY <1>0, <1>1, FundsAssumption DEF Own, TypeOK, Pcs
<1>8. \A u \in Threads : u # t => Own(u)'
  BY <1>4, <1>7 DEF Own
<1> QED
  BY <1>1, <1>5, <1>6, <1>8, SerialParts

LEMMA ResetReadSerial ==
  ASSUME Admitted = {}, Serial, NEW t \in Threads, ResetRead(t)
  PROVE  Serial'
<1>0. TypeOK /\ NoLostUpdate /\ \A u \in Threads : Own(u)
  BY SerialByOwn
<1> DEFINE mine == [call |-> ResetCall, row |-> funds]
<1>1. /\ lock = NoThread /\ writer = NoThread /\ UNCHANGED <<funds, lock, writer, book>>
      /\ Goto(t, "reset") /\ "reset" \in Pcs /\ my' = [my EXCEPT ![t] = mine]
  BY DEF ResetRead, Pcs
<1>2. mine \in [call : Calls, row : Row] /\ mine.row = funds
  BY <1>0, RestIsTyped DEF TypeOK
<1> HIDE DEF mine
<1>3. /\ pc' \in [Threads -> Pcs] /\ my' \in [Threads -> [call : Calls, row : Row]]
      /\ pc'[t] = "reset" /\ my'[t] = mine
      /\ \A u \in Threads : u # t => pc'[u] = pc[u] /\ my'[u] = my[u]
  BY <1>0, <1>1, <1>2, Moves
<1>4. TypeOK' /\ NoLostUpdate'
  BY <1>0, <1>1, <1>3 DEF TypeOK, NoLostUpdate
<1>5. \A u \in Threads : Own(u)'
  BY <1>0, <1>1, <1>2, <1>3 DEF Own
<1> QED
  BY <1>1, <1>4, <1>5, SerialParts

LEMMA ResetWriteSerial ==
  ASSUME Serial, NEW t \in Threads, ResetWrite(t)
  PROVE  Serial' /\ book' = Opening
<1>0. TypeOK /\ NoLostUpdate /\ \A u \in Threads : Own(u)
  BY SerialByOwn
<1>1. lock = NoThread /\ writer = NoThread /\ lock' = lock /\ writer' = writer /\ book' = Opening
  BY DEF ResetWrite
<1>2. funds' = Opening
  <2>1. CASE my[t].row = funds
    <3>1. Flushed(ResetCall, funds) = After(ResetCall, funds)
      BY <1>0, FlushOfCurrent, RestIsTyped DEF TypeOK
    <3> QED
      BY <2>1, <3>1 DEF ResetWrite, After, ResetCall, Call
  <2>2. CASE funds = Opening
    BY <2>2, ResetOfReset DEF ResetWrite
  <2> QED
    BY <1>0, <2>1, <2>2 DEF ResetWrite, Own
<1>3. /\ pc' \in [Threads -> Pcs] /\ my' \in [Threads -> [call : Calls, row : Row]]
      /\ pc'[t] = "idle"
      /\ \A u \in Threads : u # t => pc'[u] = pc[u] /\ my'[u] = my[u]
  BY <1>0, Moves, RestIsTyped DEF ResetWrite, Return, Pcs
<1>4. TypeOK' /\ NoLostUpdate'
  BY <1>0, <1>1, <1>2, <1>3, RestIsTyped DEF TypeOK, NoLostUpdate, Opening
<1>5. \A u \in Threads : u # t => pc[u] \in {"idle", "reset"}
  BY <1>0, <1>1, FundsAssumption DEF Own, TypeOK, Pcs
<1>6. \A u \in Threads : Own(u)'
  BY <1>1, <1>2, <1>3, <1>5 DEF Own
<1> QED
  BY <1>1, <1>4, <1>6, SerialParts

\* The invariant is kept by every step.
LEMMA StepSerial ==
  ASSUME Admitted = {}
  PROVE  Serial /\ [Next]_vars => Serial'
<1> SUFFICES ASSUME Serial, [Next]_vars
             PROVE  Serial'
  OBVIOUS
<1>1. CASE UNCHANGED vars
  BY <1>1 DEF vars, Serial, TypeOK, NoLostUpdate, Held, ResetAlone, CopiesCurrent
<1>2. CASE Next
  BY <1>2, EnterSerial, ReadSerial, WriteSerial, UndoSerial, StageSerial, CommitSerial,
     ResetReadSerial, ResetWriteSerial DEF Next, Move
<1> QED
  BY <1>1, <1>2

\* One operation at a time, each on the committed row.
THEOREM SerialHolds == Admitted = {} => (Spec => []Serial)
<1> SUFFICES ASSUME Admitted = {}
             PROVE  Spec => []Serial
  OBVIOUS
<1>1. Serial /\ [Next]_vars => Serial'
  BY StepSerial
<1> QED
  BY SerialInit, <1>1, PTL DEF Spec

\* No update is lost: the committed row is what the successful calls add up
\* to, whatever they are and however they interleave.
THEOREM RowIsLedger == Admitted = {} => (Spec => []NoLostUpdate)
<1> SUFFICES ASSUME Admitted = {}
             PROVE  Spec => []NoLostUpdate
  OBVIOUS
<1>1. Spec => []Serial
  BY SerialHolds
<1>2. Serial => NoLostUpdate
  BY DEF Serial
<1> QED
  BY <1>1, <1>2, PTL

-----------------------------------------------------------------------------
\* A granted operation is an entry of the ledger.
LEMMA EntryImplements ==
  ASSUME NEW call \in LockedCalls \cup StagedCalls, book \in Row, Grants(call, book),
         book' = After(call, book)
  PROVE  Ledger!Next
<1>1. /\ call.op \in {"block", "unblock", "transfer", "credit", "release", "mark"}
      /\ call.op \in {"block", "unblock", "transfer", "credit"} => call.amount \in Amounts
      /\ call.op = "release" => call.amount \in Amounts \cup {0} /\ call.pnl \in Profits
      /\ call.op = "mark" => call.pnl \in Marks
  BY FundsAssumption DEF LockedCalls, StagedCalls, Call
<1> DEFINE a == call.amount
           p == call.pnl
<1>a. /\ a \in Int /\ p \in Int /\ book.available \in Int /\ book.used \in Int
      /\ book.realized \in Int /\ book.unrealized \in Int /\ book.total \in Int
  BY CallKinds DEF Calls, Row
<1>b. /\ book' = [available |-> book.available + Cash(call), used |-> book.used + Reserve(call),
                 realized |-> Realized(call, book), unrealized |-> Unrealized(call, book),
                 total |-> IF call.op \in {"release", "mark"}
                           THEN Realized(call, book) + Unrealized(call, book) ELSE book.total]
  BY <1>1 DEF After
<1> HIDE DEF a, p
<1>2. CASE call.op = "block"
  <2>1. Cash(call) = -a /\ Reserve(call) = a
    BY <1>2 DEF Cash, Reserve, a, p
  <2>2. Realized(call, book) = book.realized /\ Unrealized(call, book) = book.unrealized
    BY <1>2, <1>a DEF Realized, Unrealized, a, p
  <2>3. a <= book.available
    BY <1>2, <1>a DEF Grants, a
  <2>4. Ledger!Block(a)
    BY <1>2, <1>a, <1>b, <2>1, <2>2, <2>3 DEF Ledger!Block, Ledger!Moved
  <2> QED
    BY <1>1, <1>2, <2>4 DEF Ledger!Next, a, p
<1>3. CASE call.op = "transfer"
  <2>1. Cash(call) = 0 /\ Reserve(call) = -a
    BY <1>3 DEF Cash, Reserve, a, p
  <2>2. Realized(call, book) = book.realized /\ Unrealized(call, book) = book.unrealized
    BY <1>3, <1>a DEF Realized, Unrealized, a, p
  <2>3. a <= book.used
    BY <1>3, <1>a DEF Grants, a
  <2>4. Ledger!Transfer(a)
    BY <1>3, <1>a, <1>b, <2>1, <2>2, <2>3 DEF Ledger!Transfer, Ledger!Moved
  <2> QED
    BY <1>1, <1>3, <2>4 DEF Ledger!Next, a, p
<1>4. CASE call.op = "credit"
  <2>1. Cash(call) = a /\ Reserve(call) = 0
    BY <1>4 DEF Cash, Reserve, a, p
  <2>2. Realized(call, book) = book.realized /\ Unrealized(call, book) = book.unrealized
    BY <1>4, <1>a DEF Realized, Unrealized, a, p
  <2>4. Ledger!Credit(a)
    BY <1>4, <1>a, <1>b, <2>1, <2>2 DEF Ledger!Credit, Ledger!Moved
  <2> QED
    BY <1>1, <1>4, <2>4 DEF Ledger!Next, a, p
<1>5. CASE call.op = "release"
  <2>1. Cash(call) = a + p /\ Reserve(call) = -a
    BY <1>5 DEF Cash, Reserve, a, p
  <2>2. Realized(call, book) = book.realized + p /\ Unrealized(call, book) = book.unrealized
    BY <1>5, <1>a DEF Realized, Unrealized, a, p
  <2>3. a <= book.used
    BY <1>5, <1>a DEF Grants, a
  <2>4. Ledger!Release(a, p)
    BY <1>5, <1>a, <1>b, <2>1, <2>2, <2>3 DEF Ledger!Release
  <2> QED
    BY <1>1, <1>5, <2>4 DEF Ledger!Next, a, p
<1>6. CASE call.op = "mark"
  <2>1. Cash(call) = 0 /\ Reserve(call) = 0
    BY <1>6 DEF Cash, Reserve, a, p
  <2>2. Realized(call, book) = book.realized /\ Unrealized(call, book) = p
    BY <1>6, <1>a DEF Realized, Unrealized, a, p
  <2>4. Ledger!Mark(p)
    BY <1>6, <1>a, <1>b, <2>1, <2>2 DEF Ledger!Mark
  <2> QED
    BY <1>1, <1>6, <2>4 DEF Ledger!Next, a, p
<1>7. CASE call.op = "unblock"
  <2>1. Cash(call) = a /\ Reserve(call) = -a
    BY <1>7 DEF Cash, Reserve, a, p
  <2>2. Realized(call, book) = book.realized /\ Unrealized(call, book) = book.unrealized
    BY <1>7, <1>a DEF Realized, Unrealized, a, p
  <2>3. a <= book.used
    BY <1>7, <1>a DEF Grants, a
  <2>4. Ledger!Unblock(a)
    BY <1>7, <1>a, <1>b, <2>1, <2>2, <2>3 DEF Ledger!Unblock, Ledger!Moved
  <2> QED
    BY <1>1, <1>7, <2>4 DEF Ledger!Next, a, p
<1> QED
  BY <1>1, <1>2, <1>3, <1>4, <1>5, <1>6, <1>7

\* A step is an entry, or leaves the ledger alone.
LEMMA StepImplements ==
  ASSUME Serial, [Next]_vars
  PROVE  [Ledger!Next]_book
<1>1. CASE UNCHANGED vars
  BY <1>1 DEF vars
<1>2. ASSUME NEW t \in Threads, Move(t)
      PROVE  [Ledger!Next]_book
  <2>1. CASE WriteRow(t) \/ CommitStage(t)
    BY <2>1, WriteSerial, CommitSerial, EntryImplements DEF Serial, TypeOK
  <2>2. CASE ResetWrite(t)
    BY <2>2, ResetWriteSerial DEF Ledger!Next, Ledger!Reset, Ledger!Opening, Opening
  <2>3. CASE ~(WriteRow(t) \/ CommitStage(t) \/ ResetWrite(t))
    BY <1>2, <2>3 DEF Move, Enter, ReadRow, WriteFails, Stage, RollbackStage, ResetRead
  <2> QED
    BY <2>1, <2>2, <2>3
<1> QED
  BY <1>1, <1>2 DEF Next

\* Every call that reports success is one entry of the ledger, its check made
\* on the balance it changes.
THEOREM LedgerImplemented == Admitted = {} => (Spec => KeepsLedger)
<1> SUFFICES ASSUME Admitted = {}
             PROVE  Spec => KeepsLedger
  OBVIOUS
<1>1. Spec => []Serial
  BY SerialHolds
<1>2. Init => Ledger!Init
  BY DEF Init, Opening, Ledger!Init, Ledger!Opening
<1>3. Serial /\ [Next]_vars => [Ledger!Next]_book
  BY StepImplements
<1> QED
  BY <1>1, <1>2, <1>3, PTL DEF Spec, KeepsLedger, Ledger!Spec
=============================================================================
