-------------------------- MODULE StopMonitorProofs --------------------------
(***************************************************************************)
(* The risk monitor of the scalping terminal, for any legs and levels: the *)
(* copy it watches is what is saved, and an exit gives its stop up only    *)
(* when an order closes the position.                                      *)
(*                                                                         *)
(* The first holds because every write either leaves a sync due, or waits  *)
(* for the copy to be assigned, or changes row and copy alike; and because *)
(* the copy that an exit drops is of the mode in which it deleted the row. *)
(***************************************************************************)
EXTENDS StopMonitor, TLAPS

Stop == {NoStop} \cup [mode : TradingModes, level : Levels]

Sync == [due : BOOLEAN, worker : {"none", "running", "begun", "loaded"},
         loaded : [Legs -> Stop]]

Exit == {NoExit} \cup [at : {"dispatched", "checked", "confirmed", "deleted"}, mode : TradingModes]
                 \cup [at : {"exiting"}, mode : TradingModes, lots : Int]

Lots == [Legs -> [TradingModes -> Int]]

StopTypeOK ==
  /\ mode \in TradingModes
  /\ table \in [Legs -> [TradingModes -> Levels \cup {0}]]
  /\ watched \in [Legs -> Stop]
  /\ sync \in Sync
  /\ exits \in [Legs -> Exit]
  /\ net \in Lots /\ sent \in Lots /\ asked \in Lots

\* A copy says of a leg what its row in mode m says, or a trail beyond it.
Agrees(l, copy, m) ==
  /\ copy[l] = NoStop <=> table[l][m] = 0
  /\ copy[l] # NoStop => copy[l].mode = m /\ copy[l].level >= table[l][m]

\* An exit is under way that will act in the mode of the moment.
Underway == \E l \in Legs : exits[l].at # "none" /\ exits[l].mode = mode

\* The copy is current unless a sync is due or has begun; while an exit is under
\* way, it is so in the exit's mode.
CopyCurrent ==
  /\ sync.worker = "none" => ~sync.due
  /\ sync.worker \in {"none", "running"} /\ ~sync.due =>
       \E m \in TradingModes :
         /\ Underway => m = mode
         /\ \A l \in Legs : ~Clearing(l) => Agrees(l, watched, m)
  /\ Loading /\ ~sync.due => \A l \in Legs : Agrees(l, sync.loaded, mode)

\* An exit that has looked is in the mode of the moment.
ExitInMode(l) == exits[l].at \notin {"none", "dispatched"} => exits[l].mode = mode

\* The row of a copy that is about to be dropped is gone.
RowCleared(l) == Clearing(l) => table[l][exits[l].mode] = 0

Current == StopTypeOK /\ CopyCurrent /\ \A l \in Legs : ExitInMode(l) /\ RowCleared(l)

\* The assumptions of this module's theorems.
Apart == {"overlaps", "modeFlips"} \cap StopAdmitted = {}
Reliable == {"readFails", "modeFlips", "movesInExit", "partlyTaken"} \cap StopAdmitted = {}

\* Until an exit's order is out, the leg has none in the exit's mode, and what the
\* exit will ask for is the position.
AsksForAll(l) ==
  /\ exits[l].at \in {"dispatched", "checked", "exiting"} => sent[l][exits[l].mode] = 0
  /\ exits[l].at = "exiting" => exits[l].lots = net[l][exits[l].mode]

Deliberate == StopTypeOK /\ \A l \in Legs : ExitInMode(l) /\ AsksForAll(l)

-----------------------------------------------------------------------------
(***************************************************************************)
(* Types.                                                                  *)
(***************************************************************************)

\* What is known of an exit by where it is.
LEMMA ExitParts ==
  ASSUME NEW x \in Exit
  PROVE  /\ x.at \in {"none", "dispatched", "checked", "exiting", "confirmed", "deleted"}
         /\ x.at = "none" <=> x = NoExit
         /\ x.at # "none" => x.mode \in TradingModes
         /\ x.at = "exiting" => x.lots \in Int
  BY DEF Exit, NoExit

LEMMA LevelIsNat ==
  ASSUME NEW x \in Levels \cup {0}
  PROVE  x \in Nat
  BY StopAssumption

\* A stop is not the absence of one.
LEMMA StopParts ==
  ASSUME NEW s \in Stop
  PROVE  /\ s.level \in Nat
         /\ s # NoStop => s.mode \in TradingModes /\ s.level \in Levels
<1>1. CASE s = NoStop
  BY <1>1 DEF NoStop
<1>2. CASE s \in [mode : TradingModes, level : Levels]
  <2>1. s.mode \in TradingModes /\ s.level \in Levels
    BY <1>2
  <2> QED
    BY <2>1, StopAssumption
<1> QED
  BY <1>1, <1>2 DEF Stop

LEMMA SomeStop ==
  ASSUME NEW m \in TradingModes, NEW level \in Levels
  PROVE  /\ [mode |-> m, level |-> level] \in Stop
         /\ [mode |-> m, level |-> level] # NoStop
  BY DEF Stop, NoStop, TradingModes

\* One exit goes on, the others stay.
LEMMA ExitGoesOn ==
  ASSUME StopTypeOK, NEW l \in Legs, NEW x \in Exit, Continue(l, x)
  PROVE  /\ exits' \in [Legs -> Exit]
         /\ exits'[l] = x
         /\ \A k \in Legs \ {l} : exits'[k] = exits[k]
  BY DEF StopTypeOK, Continue

\* One count changes, the others stay.
LEMMA LotsChange ==
  ASSUME NEW f \in Lots, NEW l \in Legs, NEW m \in TradingModes, NEW n \in Int, NEW g,
         g = [f EXCEPT ![l][m] = n]
  PROVE  /\ g \in Lots /\ g[l][m] = n
         /\ \A k \in Legs, q \in TradingModes : k # l \/ q # m => g[k][q] = f[k][q]
  BY DEF Lots

\* A row changes, the others stay.
LEMMA RowChanges ==
  ASSUME StopTypeOK, NEW l \in Legs, NEW m \in TradingModes, NEW level \in Levels \cup {0},
         table' = [table EXCEPT ![l][m] = level]
  PROVE  /\ table' \in [Legs -> [TradingModes -> Levels \cup {0}]]
         /\ table'[l][m] = level
         /\ \A k \in Legs, q \in TradingModes : k # l \/ q # m => table'[k][q] = table[k][q]
  BY DEF StopTypeOK

\* After a request, a sync is due and the worker is not at rest.
LEMMA SyncIsDue ==
  ASSUME NEW s \in Sync
  PROVE  /\ SyncRequested(s) \in Sync
         /\ SyncRequested(s).due = TRUE
         /\ SyncRequested(s).worker # "none"
         /\ s.worker # "none" => SyncRequested(s).worker = s.worker
         /\ s.worker = "none" => SyncRequested(s).worker = "running"
         /\ SyncRequested(s).loaded = s.loaded
  BY DEF Sync, SyncRequested

\* Every exit's answer leaves the counts whole numbers.
LEMMA OrderedIsInt ==
  ASSUME StopTypeOK, NEW l \in Legs, exits[l].at = "exiting", NEW lots \in Ordered(l)
  PROVE  lots \in Int
<1>1. exits[l].lots \in Int
  BY ExitParts DEF StopTypeOK
<1> QED
  BY <1>1 DEF Ordered

\* An exit's next step is typed.
LEMMA ExitTyped ==
  ASSUME StopTypeOK, NEW l \in Legs, NEW at \in {"checked", "confirmed", "deleted"},
         NEW m \in TradingModes
  PROVE  [at |-> at, mode |-> m] \in Exit /\ NoExit \in Exit
  BY DEF Exit

\* Every step of an exit leaves the types as they were.
LEMMA ExitStepTyped ==
  ASSUME StopTypeOK, NEW l \in Legs, ExitSteps(l)
  PROVE  StopTypeOK'
<1> DEFINE x == exits[l]
<1>1. x \in Exit /\ mode \in TradingModes /\ sent \in Lots /\ asked \in Lots /\ net \in Lots
  BY DEF StopTypeOK
<1>2. NoExit \in Exit
  BY DEF Exit
<1>3. ASSUME NotNow(l) \/ ExitRefused(l)
      PROVE  StopTypeOK'
  BY <1>2, <1>3, ExitGoesOn DEF NotNow, ExitRefused, Abandons, StopTypeOK
<1>4. CASE PassesCheck(l)
  <2>1. [at |-> "checked", mode |-> mode] \in Exit
    BY <1>1, ExitTyped
  <2>2. exits' \in [Legs -> Exit]
    BY <1>4, <2>1, ExitGoesOn DEF PassesCheck
  <2> QED
    BY <1>4, <2>2 DEF PassesCheck, StopTypeOK
<1>5. CASE Reads(l)
  <2>1. x.mode \in TradingModes
    BY <1>1, <1>5, ExitParts DEF Reads
  <2>2. net[l][mode] \in Int
    BY <1>1 DEF Lots
  <2>3. PICK lots \in {net[l][mode]} \cup (IF "readFails" \in StopAdmitted THEN {0} ELSE {}) :
          Continue(l, IF lots = 0 THEN [at |-> "confirmed", mode |-> x.mode]
                      ELSE [at |-> "exiting", mode |-> x.mode, lots |-> lots])
    BY <1>5 DEF Reads
  <2>4. lots \in Int
    BY <2>2, <2>3
  <2> DEFINE next == IF lots = 0 THEN [at |-> "confirmed", mode |-> x.mode]
                     ELSE [at |-> "exiting", mode |-> x.mode, lots |-> lots]
  <2>5. next \in Exit
    BY <2>1, <2>4 DEF Exit
  <2>6. Continue(l, next)
    BY <2>3
  <2> HIDE DEF next
  <2>7. exits' \in [Legs -> Exit]
    BY <2>5, <2>6, ExitGoesOn
  <2> QED
    BY <1>5, <2>7 DEF Reads, StopTypeOK
<1>6. ASSUME ExitTaken(l) \/ ExitQueued(l)
      PROVE  StopTypeOK'
  <2>1. x.at = "exiting" /\ x.mode \in TradingModes /\ x.lots \in Int
    BY <1>1, <1>6, ExitParts DEF ExitTaken, ExitQueued
  <2>2. [at |-> "confirmed", mode |-> x.mode] \in Exit
    BY <2>1, ExitTyped
  <2>3. exits' \in [Legs -> Exit]
    BY <1>6, <2>2, ExitGoesOn DEF ExitTaken, ExitQueued
  <2>4. sent[l][mode] \in Int /\ asked[l][mode] \in Int
    BY <1>1 DEF Lots
  <2>5. CASE ExitTaken(l)
    <3>1. PICK lots \in Ordered(l) : sent' = [sent EXCEPT ![l][mode] = @ - lots]
      BY <2>5 DEF ExitTaken
    <3>2. sent[l][mode] - lots \in Int
      BY <2>1, <2>4, OrderedIsInt
    <3>3. sent' = [sent EXCEPT ![l][mode] = sent[l][mode] - lots]
      BY <3>1
    <3>4. sent' \in Lots
      BY <1>1, <3>2, <3>3, LotsChange
    <3> QED
      BY <2>3, <2>5, <3>4 DEF ExitTaken, StopTypeOK
  <2>6. CASE ExitQueued(l)
    <3>1. asked' = [asked EXCEPT ![l][mode] = asked[l][mode] - x.lots]
      BY <2>6 DEF ExitQueued
    <3>2. asked[l][mode] - x.lots \in Int
      BY <2>1, <2>4
    <3>3. asked' \in Lots
      BY <1>1, <3>1, <3>2, LotsChange
    <3> QED
      BY <2>3, <2>6, <3>3 DEF ExitQueued, StopTypeOK
  <2> QED
    BY <1>6, <2>5, <2>6
<1>7. CASE DeletesRow(l)
  <2>1. x.mode \in TradingModes
    BY <1>1, <1>7, ExitParts DEF DeletesRow
  <2>2. table' \in [Legs -> [TradingModes -> Levels \cup {0}]]
    BY <1>7, <2>1, RowChanges DEF DeletesRow
  <2>3. exits' \in [Legs -> Exit]
    BY <1>7, <2>1, ExitTyped, ExitGoesOn DEF DeletesRow
  <2> QED
    BY <1>7, <2>2, <2>3 DEF DeletesRow, StopTypeOK
<1>8. CASE DropsCopy(l)
  <2>1. exits' \in [Legs -> Exit]
    BY <1>2, <1>8, ExitGoesOn DEF DropsCopy, Abandons
  <2>2. watched' \in [Legs -> Stop]
    BY <1>8 DEF DropsCopy, StopTypeOK, Stop
  <2> QED
    BY <1>8, <2>1, <2>2 DEF DropsCopy, StopTypeOK
<1> QED
  BY <1>3, <1>4, <1>5, <1>6, <1>7, <1>8 DEF ExitSteps

\* So does every step of the worker.
LEMMA WorkerTyped ==
  ASSUME StopTypeOK, WorkerSteps
  PROVE  StopTypeOK'
<1>1. sync \in Sync /\ mode \in TradingModes
  BY DEF StopTypeOK
<1>2. CASE WorkerBegins \/ WorkerEnds
  <2>1. sync' \in Sync
    BY <1>1, <1>2 DEF WorkerBegins, WorkerEnds, Sync
  <2> QED
    BY <1>2, <2>1 DEF WorkerBegins, WorkerEnds, StopTypeOK
<1>3. CASE Loads
  <2> DEFINE copy == [l \in Legs |-> IF table[l][mode] = 0 THEN NoStop
                                     ELSE [mode |-> mode, level |-> table[l][mode]]]
  <2>1. \A l \in Legs : table[l][mode] \in Levels \cup {0}
    BY <1>1 DEF StopTypeOK
  <2>2. copy \in [Legs -> Stop]
    BY <1>1, <2>1, SomeStop DEF Stop
  <2>3. sync' = [sync EXCEPT !.worker = "loaded", !.loaded = copy]
    BY <1>3 DEF Loads
  <2> HIDE DEF copy
  <2>4. sync' \in Sync
    BY <1>1, <2>2, <2>3 DEF Sync
  <2> QED
    BY <1>3, <2>4 DEF Loads, StopTypeOK
<1>4. CASE Assigns
  <2>1. sync' \in Sync /\ watched' \in [Legs -> Stop]
    BY <1>1, <1>4 DEF Assigns, Sync, Stop
  <2> QED
    BY <1>4, <2>1 DEF Assigns, StopTypeOK
<1> QED
  BY <1>2, <1>3, <1>4 DEF WorkerSteps

\* A lot is bought or sold.
LEMMA SignIsInt ==
  ASSUME NEW n \in Int
  PROVE  Sign(n) \in Int
  BY DEF Sign

\* Every step leaves the types as they were.
LEMMA StopStepTyped ==
  ASSUME StopTypeOK, [StopNext]_stopVars
  PROVE  StopTypeOK'
<1>1. /\ sync \in Sync /\ mode \in TradingModes /\ exits \in [Legs -> Exit]
      /\ net \in Lots /\ sent \in Lots
  BY DEF StopTypeOK
<1>2. CASE Toggles
  BY <1>2 DEF Toggles, StopTypeOK
<1>3. CASE StopRestart
  BY <1>3 DEF StopRestart, StopTypeOK, Sync, Stop, Exit
<1>4. ASSUME NEW l \in Legs, NEW level \in Levels \cup {0}, Saves(l, level)
      PROVE  StopTypeOK'
  <2>1. table' \in [Legs -> [TradingModes -> Levels \cup {0}]]
    BY <1>1, <1>4, RowChanges DEF Saves
  <2>2. sync' \in Sync
    BY <1>1, <1>4, SyncIsDue DEF Saves
  <2> QED
    BY <1>4, <2>1, <2>2 DEF Saves, StopTypeOK
<1>5. ASSUME NEW l \in Legs, NEW lots \in 0..MaxNet, Trades(l, lots)
      PROVE  StopTypeOK'
  <2>1. lots \in Int /\ net' = [net EXCEPT ![l][mode] = lots]
    BY <1>5 DEF Trades
  <2>2. net' \in Lots
    BY <1>1, <2>1, LotsChange
  <2> QED
    BY <1>5, <2>2 DEF Trades, StopTypeOK
<1>6. ASSUME NEW l \in Legs, NEW level \in Levels, NEW persisted \in BOOLEAN,
             Trails(l, level, persisted)
      PROVE  StopTypeOK'
  <2>1. watched[l] \in Stop /\ watched[l] # NoStop
    BY <1>6 DEF Trails, Watches, StopTypeOK
  <2>2. [watched[l] EXCEPT !.level = level] \in Stop
    BY <2>1 DEF Stop
  <2>3. watched' = [watched EXCEPT ![l] = [watched[l] EXCEPT !.level = level]]
    BY <1>6 DEF Trails
  <2>4. watched' \in [Legs -> Stop]
    BY <2>2, <2>3 DEF StopTypeOK
  <2>5. table' \in [Legs -> [TradingModes -> Levels \cup {0}]]
    BY <1>1, <1>6, RowChanges DEF Trails, StopTypeOK
  <2> QED
    BY <1>6, <2>4, <2>5 DEF Trails, StopTypeOK
<1>7. ASSUME NEW l \in Legs, Breaches(l)
      PROVE  StopTypeOK'
  <2>1. [at |-> "dispatched", mode |-> mode] \in Exit
    BY <1>1 DEF Exit
  <2>2. exits' \in [Legs -> Exit]
    BY <1>1, <1>7, <2>1 DEF Breaches
  <2> QED
    BY <1>7, <2>2 DEF Breaches, StopTypeOK
<1>8. ASSUME NEW l \in Legs, NEW m \in TradingModes, Fills(l, m) \/ Rejects(l, m)
      PROVE  StopTypeOK'
  <2>1. net[l][m] \in Int /\ sent[l][m] \in Int /\ Sign(sent[l][m]) \in Int
    BY <1>1, SignIsInt DEF Lots
  <2>2. CASE Fills(l, m)
    <3>1. /\ net' = [net EXCEPT ![l][m] = net[l][m] + Sign(sent[l][m])]
          /\ sent' = [sent EXCEPT ![l][m] = sent[l][m] - Sign(sent[l][m])]
      BY <2>2 DEF Fills
    <3>2. net[l][m] + Sign(sent[l][m]) \in Int /\ sent[l][m] - Sign(sent[l][m]) \in Int
      BY <2>1
    <3>3. net' \in Lots /\ sent' \in Lots
      BY <1>1, <3>1, <3>2, LotsChange
    <3> QED
      BY <2>2, <3>3 DEF Fills, StopTypeOK
  <2>3. CASE Rejects(l, m)
    <3>1. sent' = [sent EXCEPT ![l][m] = 0] /\ 0 \in Int
      BY <2>3 DEF Rejects
    <3>2. sent' \in Lots
      BY <1>1, <3>1, LotsChange
    <3> QED
      BY <2>3, <3>2 DEF Rejects, StopTypeOK
  <2> QED
    BY <1>8, <2>2, <2>3
<1>9. CASE UNCHANGED stopVars
  BY <1>9 DEF stopVars, StopTypeOK
<1> QED
  BY <1>2, <1>3, <1>4, <1>5, <1>6, <1>7, <1>8, <1>9, ExitStepTyped, WorkerTyped DEF StopNext

LEMMA StopInitTyped == StopInit => StopTypeOK
  BY DEF StopInit, StopTypeOK, TradingModes, Sync, Stop, Exit, Lots

-----------------------------------------------------------------------------
(***************************************************************************)
(* What is watched is what is saved.                                       *)
(***************************************************************************)

\* After a save or a deletion a sync is due, so nothing is claimed of the copy.
LEMMA SavesCurrent ==
  ASSUME Apart, Current, NEW l \in Legs, NEW level \in Levels \cup {0}, Saves(l, level)
  PROVE  CopyCurrent' /\ \A k \in Legs : ExitInMode(k)' /\ RowCleared(k)'
<1>1. sync'.due = TRUE /\ sync'.worker # "none"
  BY SyncIsDue DEF Saves, Current, StopTypeOK
<1>2. CopyCurrent'
  BY <1>1 DEF CopyCurrent
<1>3. ~Clearing(l) /\ UNCHANGED <<mode, exits>>
  BY DEF Saves, Apart, Overlapping
<1>4. \A k \in Legs \ {l} : table'[k] = table[k]
  BY DEF Saves, Current, StopTypeOK
<1>5. \A k \in Legs : RowCleared(k)'
  BY <1>3, <1>4 DEF RowCleared, Clearing, Current
<1>6. \A k \in Legs : ExitInMode(k)'
  BY <1>3 DEF ExitInMode, Current
<1> QED
  BY <1>2, <1>5, <1>6

\* The mode changes only where no exit and no copy depends on it.
LEMMA TogglesCurrent ==
  ASSUME Apart, Current, Toggles
  PROVE  CopyCurrent' /\ \A k \in Legs : ExitInMode(k)' /\ RowCleared(k)'
<1>1. /\ ~Loading /\ mode' # mode /\ UNCHANGED <<table, watched, sync, exits>>
      /\ \A l \in Legs : exits[l].at # "none" => exits[l].at = "dispatched" /\ exits[l].mode = mode
  BY DEF Toggles, Steady, Apart
<1>2. ~Underway'
  BY <1>1 DEF Underway
<1>3. CopyCurrent'
  BY <1>1, <1>2 DEF Current, CopyCurrent, Agrees, Clearing, Loading
<1>4. \A k \in Legs : ExitInMode(k)' /\ RowCleared(k)'
  BY <1>1 DEF ExitInMode, RowCleared, Clearing
<1> QED
  BY <1>3, <1>4

\* A sync that begins, loads, assigns and ends.
LEMMA WorkerCurrent ==
  ASSUME Current, WorkerSteps
  PROVE  CopyCurrent' /\ \A k \in Legs : ExitInMode(k)' /\ RowCleared(k)'
<1>1. UNCHANGED <<mode, table, exits>>
  BY DEF WorkerSteps, WorkerBegins, Loads, Assigns, WorkerEnds
<1>2. \A k \in Legs : ExitInMode(k)' /\ RowCleared(k)'
  BY <1>1 DEF ExitInMode, RowCleared, Clearing, Current
<1>3. sync \in Sync /\ mode \in TradingModes
  BY DEF Current, StopTypeOK
<1>4. CASE WorkerBegins
  <2>1. sync'.worker = "begun"
    BY <1>3, <1>4 DEF WorkerBegins, Sync
  <2> QED
    BY <1>2, <2>1 DEF CopyCurrent, Loading
<1>5. CASE Loads
  <2> DEFINE copy == [l \in Legs |-> IF table[l][mode] = 0 THEN NoStop
                                     ELSE [mode |-> mode, level |-> table[l][mode]]]
  <2>1. sync' = [sync EXCEPT !.worker = "loaded", !.loaded = copy]
    BY <1>5 DEF Loads
  <2>2. \A l \in Legs : Agrees(l, copy, mode)
    <3> SUFFICES ASSUME NEW l \in Legs
                 PROVE  Agrees(l, copy, mode)
      OBVIOUS
    <3>1. CASE table[l][mode] = 0
      BY <3>1 DEF Agrees
    <3>2. CASE table[l][mode] # 0
      <4>1. table[l][mode] \in Levels
        BY <1>3, <3>2 DEF Current, StopTypeOK
      <4>2. copy[l] = [mode |-> mode, level |-> table[l][mode]] /\ copy[l] # NoStop
        BY <1>3, <3>2, <4>1, SomeStop
      <4>3. table[l][mode] \in Nat
        BY <4>1, StopAssumption
      <4>4. copy[l].mode = mode /\ copy[l].level >= table[l][mode]
        BY <4>2, <4>3
      <4> QED
        BY <3>2, <4>2, <4>4 DEF Agrees
    <3> QED
      BY <3>1, <3>2
  <2> HIDE DEF copy
  <2>3. sync'.worker = "loaded" /\ sync'.loaded = copy
    BY <1>3, <2>1 DEF Sync
  <2>4. \A l \in Legs : Agrees(l, sync.loaded, mode)'
    BY <1>1, <2>2, <2>3 DEF Agrees
  <2> QED
    BY <1>2, <2>3, <2>4 DEF CopyCurrent, Loading
<1>6. CASE Assigns
  <2>1. /\ sync'.worker = "running" /\ sync'.due = sync.due /\ Loading
        /\ watched' = sync.loaded
    BY <1>3, <1>6 DEF Assigns, Sync
  <2>2. ~sync.due => \A l \in Legs : Agrees(l, sync.loaded, mode)
    BY <2>1 DEF Current, CopyCurrent
  <2>3. ~sync'.due => \A l \in Legs : Agrees(l, watched', mode)
    BY <2>1, <2>2
  <2>4. ~sync'.due => \A l \in Legs : Agrees(l, watched, mode)'
    BY <1>1, <2>3 DEF Agrees
  <2> QED
    BY <1>1, <1>2, <1>3, <2>1, <2>4 DEF CopyCurrent, Loading
<1>7. CASE WorkerEnds
  <2>1. /\ sync.worker = "running" /\ ~sync.due /\ sync'.worker = "none" /\ ~sync'.due
        /\ watched' = watched
    BY <1>3, <1>7 DEF WorkerEnds, Sync
  <2> QED
    BY <1>1, <1>2, <2>1 DEF Current, CopyCurrent, Agrees, Loading, Clearing, Underway
<1> QED
  BY <1>4, <1>5, <1>6, <1>7 DEF WorkerSteps

\* A stop that trails changes its copy, and its row with it or not at all.
LEMMA TrailsCurrent ==
  ASSUME Apart, Current, NEW l \in Legs, NEW level \in Levels, NEW persisted \in BOOLEAN,
         Trails(l, level, persisted)
  PROVE  CopyCurrent' /\ \A k \in Legs : ExitInMode(k)' /\ RowCleared(k)'
<1>1. /\ UNCHANGED <<mode, sync, exits>>
      /\ watched[l] # NoStop /\ watched[l].mode = mode /\ level > watched[l].level
      /\ persisted => ~Loading /\ ~Clearing(l)
  BY DEF Trails, Watches, Apart, Overlapping
<1>2. watched[l] \in Stop /\ mode \in TradingModes
  BY DEF Current, StopTypeOK
<1>3. level \in Nat /\ level # 0 /\ watched[l].level \in Nat
  BY <1>2, StopParts, StopAssumption
<1>4. /\ watched'[l].level = level /\ watched'[l].mode = mode /\ watched'[l] # NoStop
      /\ \A k \in Legs \ {l} : watched'[k] = watched[k]
  <2>1. watched[l] \in [mode : TradingModes, level : Levels]
    BY <1>1, <1>2 DEF Stop
  <2>2. /\ watched'[l] = [watched[l] EXCEPT !.level = level]
        /\ \A k \in Legs \ {l} : watched'[k] = watched[k]
    BY DEF Trails, Current, StopTypeOK
  <2>3. watched'[l] = [mode |-> mode, level |-> level]
    BY <1>1, <2>1, <2>2
  <2> QED
    BY <1>2, <2>2, <2>3, SomeStop
<1>5. /\ \A k \in Legs \ {l} : table'[k] = table[k]
      /\ persisted => table'[l][mode] = level
      /\ ~persisted => table' = table
  BY <1>2 DEF Trails, Current, StopTypeOK
<1>6. \A k \in Legs : ExitInMode(k)' /\ RowCleared(k)'
  <2>1. \A k \in Legs : RowCleared(k)'
    BY <1>1, <1>5 DEF RowCleared, Clearing, Current
  <2> QED
    BY <1>1, <2>1 DEF ExitInMode, Current
<1>7. ASSUME NEW m \in TradingModes, \A k \in Legs : ~Clearing(k) => Agrees(k, watched, m)
      PROVE  \A k \in Legs : ~Clearing(k)' => Agrees(k, watched, m)'
  <2> SUFFICES ASSUME NEW k \in Legs, ~Clearing(k)'
               PROVE  Agrees(k, watched, m)'
    OBVIOUS
  <2>1. Agrees(k, watched, m)
    BY <1>1, <1>7 DEF Clearing
  <2>2. CASE k # l
    BY <1>4, <1>5, <2>1, <2>2 DEF Agrees
  <2>3. CASE k = l
    <3>1. m = mode /\ table[l][m] # 0 /\ watched[l].level >= table[l][m]
      BY <1>1, <2>1, <2>3 DEF Agrees
    <3>2. table[l][m] \in Nat
      <4>1. table[l][m] \in Levels \cup {0}
        BY DEF Current, StopTypeOK
      <4> QED
        BY <4>1, LevelIsNat
    <3>3. CASE persisted
      BY <1>3, <1>4, <1>5, <2>3, <3>1, <3>3 DEF Agrees
    <3>4. CASE ~persisted
      <4>1. table'[l][m] = table[l][m] /\ level >= table[l][m]
        BY <1>1, <1>3, <1>5, <3>1, <3>2, <3>4
      <4> QED
        BY <1>4, <2>3, <3>1, <4>1 DEF Agrees
    <3> QED
      BY <3>3, <3>4
  <2> QED
    BY <2>2, <2>3
<1>8. Loading /\ ~sync.due => \A k \in Legs : Agrees(k, sync.loaded, mode)'
  <2> SUFFICES ASSUME Loading, ~sync.due
               PROVE  \A k \in Legs : Agrees(k, sync.loaded, mode)'
    OBVIOUS
  <2>1. table' = table
    BY <1>1, <1>5
  <2> QED
    BY <1>1, <2>1 DEF Current, CopyCurrent, Agrees
<1>9. CopyCurrent'
  <2>1. ASSUME sync.worker \in {"none", "running"}, ~sync.due
        PROVE  \E m \in TradingModes :
                 /\ Underway' => m = mode
                 /\ \A k \in Legs : ~Clearing(k)' => Agrees(k, watched, m)'
    <3>1. PICK m \in TradingModes :
            /\ Underway => m = mode
            /\ \A k \in Legs : ~Clearing(k) => Agrees(k, watched, m)
      BY <2>1 DEF Current, CopyCurrent
    <3>2. Underway' <=> Underway
      BY <1>1 DEF Underway
    <3> QED
      BY <1>7, <3>1, <3>2
  <2> QED
    BY <1>1, <1>8, <2>1 DEF Current, CopyCurrent, Loading
<1> QED
  BY <1>6, <1>9

\* A breach finds the copy in the mode of the moment: so the whole copy is.
LEMMA BreachesCurrent ==
  ASSUME Current, NEW l \in Legs, Breaches(l)
  PROVE  CopyCurrent' /\ \A k \in Legs : ExitInMode(k)' /\ RowCleared(k)'
<1>1. /\ UNCHANGED <<mode, sync, table, watched>>
      /\ watched[l] # NoStop /\ watched[l].mode = mode /\ exits[l] = NoExit
  BY DEF Breaches, Watches
<1>2. /\ exits'[l].at = "dispatched"
      /\ \A k \in Legs \ {l} : exits'[k] = exits[k]
  BY DEF Breaches, Current, StopTypeOK
<1>3. ~Clearing(l) /\ \A k \in Legs : Clearing(k)' <=> Clearing(k)
  BY <1>1, <1>2 DEF Clearing, NoExit
<1>4. \A k \in Legs : ExitInMode(k)' /\ RowCleared(k)'
  BY <1>1, <1>2 DEF ExitInMode, RowCleared, Clearing, Current
<1>5. ASSUME sync.worker \in {"none", "running"}, ~sync.due
      PROVE  \A k \in Legs : ~Clearing(k)' => Agrees(k, watched, mode)'
  <2>1. PICK m \in TradingModes : \A k \in Legs : ~Clearing(k) => Agrees(k, watched, m)
    BY <1>5 DEF Current, CopyCurrent
  <2>2. m = mode
    BY <1>1, <1>3, <2>1 DEF Agrees
  <2> QED
    BY <1>1, <1>3, <2>1, <2>2 DEF Agrees
<1>6. Loading /\ ~sync.due => \A k \in Legs : Agrees(k, sync.loaded, mode)'
  BY <1>1 DEF Current, CopyCurrent, Agrees
<1>7. mode \in TradingModes
  BY DEF Current, StopTypeOK
<1>8. CopyCurrent'
  BY <1>1, <1>5, <1>6, <1>7 DEF Current, CopyCurrent, Loading
<1> QED
  BY <1>4, <1>8

\* An exit that goes on before it deletes the row, or gives up.
LEMMA ExitMovesCurrent ==
  ASSUME Current, NEW l \in Legs, UNCHANGED <<mode, table, watched, sync>>,
         exits[l].at # "none", ~Clearing(l), ~Clearing(l)',
         \A k \in Legs \ {l} : exits'[k] = exits[k],
         exits'[l].at = "none" \/ (exits'[l].mode = exits[l].mode /\ exits[l].mode = mode)
  PROVE  CopyCurrent' /\ \A k \in Legs : ExitInMode(k)' /\ RowCleared(k)'
<1>1. \A k \in Legs : Clearing(k)' <=> Clearing(k)
  BY DEF Clearing
<1>2. Underway' => Underway
  BY DEF Underway
<1>3. CopyCurrent'
  BY <1>1, <1>2 DEF Current, CopyCurrent, Agrees, Loading
<1>4. \A k \in Legs : ExitInMode(k)' /\ RowCleared(k)'
  BY <1>1 DEF ExitInMode, RowCleared, Current, Clearing
<1> QED
  BY <1>3, <1>4

\* The row goes first: the leg is out of the comparison until its copy goes too.
LEMMA DeletesRowCurrent ==
  ASSUME Apart, Current, NEW l \in Legs, DeletesRow(l)
  PROVE  CopyCurrent' /\ \A k \in Legs : ExitInMode(k)' /\ RowCleared(k)'
<1>1. /\ exits[l].at = "confirmed" /\ ~Loading /\ UNCHANGED <<mode, watched, sync>>
  BY DEF DeletesRow, Apart, Overlapping
<1>2. exits[l].mode = mode /\ mode \in TradingModes
  BY <1>1 DEF Current, ExitInMode, StopTypeOK
<1>3. /\ exits'[l].at = "deleted" /\ exits'[l].mode = mode
      /\ \A k \in Legs \ {l} : exits'[k] = exits[k]
  BY <1>2 DEF DeletesRow, Continue, Current, StopTypeOK
<1>4. table'[l][mode] = 0 /\ \A k \in Legs \ {l} : table'[k] = table[k]
  BY <1>2 DEF DeletesRow, Current, StopTypeOK
<1>5. \A k \in Legs : ExitInMode(k)' /\ RowCleared(k)'
  BY <1>1, <1>3, <1>4 DEF ExitInMode, RowCleared, Clearing, Current
<1>6. Underway
  BY <1>1, <1>2 DEF Underway
<1>7. ASSUME sync.worker \in {"none", "running"}, ~sync.due
      PROVE  \A k \in Legs : ~Clearing(k)' => Agrees(k, watched, mode)'
  <2>1. \A k \in Legs : ~Clearing(k) => Agrees(k, watched, mode)
    BY <1>6, <1>7 DEF Current, CopyCurrent
  <2>2. Clearing(l)' /\ \A k \in Legs \ {l} : Clearing(k)' <=> Clearing(k)
    BY <1>3 DEF Clearing
  <2> QED
    BY <1>1, <1>4, <2>1, <2>2 DEF Agrees
<1>8. CopyCurrent'
  BY <1>1, <1>2, <1>7 DEF Current, CopyCurrent, Loading
<1> QED
  BY <1>5, <1>8

\* The copy that goes is of the mode whose row is gone.
LEMMA DropsCopyCurrent ==
  ASSUME Current, NEW l \in Legs, DropsCopy(l)
  PROVE  CopyCurrent' /\ \A k \in Legs : ExitInMode(k)' /\ RowCleared(k)'
<1>1. Clearing(l) /\ UNCHANGED <<mode, table, sync>>
  BY DEF DropsCopy
<1>2. /\ exits[l].mode = mode /\ mode \in TradingModes /\ table[l][mode] = 0
      /\ exits[l].at # "none"
  BY <1>1 DEF Current, ExitInMode, RowCleared, Clearing, StopTypeOK
<1>3. /\ exits'[l].at = "none" /\ \A k \in Legs \ {l} : exits'[k] = exits[k]
      /\ watched'[l] = NoStop /\ \A k \in Legs \ {l} : watched'[k] = watched[k]
  BY DEF DropsCopy, Abandons, Continue, Current, StopTypeOK, NoExit
<1>4. \A k \in Legs : ExitInMode(k)' /\ RowCleared(k)'
  BY <1>1, <1>3 DEF ExitInMode, RowCleared, Clearing, Current
<1>5. Underway
  BY <1>2 DEF Underway
<1>6. ASSUME sync.worker \in {"none", "running"}, ~sync.due
      PROVE  \A k \in Legs : ~Clearing(k)' => Agrees(k, watched, mode)'
  <2>1. \A k \in Legs : ~Clearing(k) => Agrees(k, watched, mode)
    BY <1>5, <1>6 DEF Current, CopyCurrent
  <2>2. \A k \in Legs \ {l} : Clearing(k)' <=> Clearing(k)
    BY <1>3 DEF Clearing
  <2>3. Agrees(l, watched, mode)'
    BY <1>1, <1>2, <1>3 DEF Agrees
  <2> QED
    BY <1>1, <1>3, <2>1, <2>2, <2>3 DEF Agrees
<1>7. Loading /\ ~sync.due => \A k \in Legs : Agrees(k, sync.loaded, mode)'
  BY <1>1 DEF Current, CopyCurrent, Agrees
<1>8. CopyCurrent'
  BY <1>1, <1>2, <1>6, <1>7 DEF Current, CopyCurrent, Loading
<1> QED
  BY <1>4, <1>8

\* Every step of an exit.
LEMMA ExitStepCurrent ==
  ASSUME Apart, Current, NEW l \in Legs, ExitSteps(l)
  PROVE  CopyCurrent' /\ \A k \in Legs : ExitInMode(k)' /\ RowCleared(k)'
<1>1. exits[l] \in Exit /\ exits \in [Legs -> Exit]
  BY DEF Current, StopTypeOK
<1>2. ASSUME NotNow(l) \/ ExitRefused(l)
      PROVE  CopyCurrent' /\ \A k \in Legs : ExitInMode(k)' /\ RowCleared(k)'
  <2>1. /\ UNCHANGED <<mode, table, watched, sync>>
        /\ exits[l].at \in {"dispatched", "exiting"}
        /\ exits' = [exits EXCEPT ![l] = NoExit]
    BY <1>2 DEF NotNow, ExitRefused, Abandons, Continue
  <2>2. exits'[l].at = "none" /\ \A k \in Legs \ {l} : exits'[k] = exits[k]
    BY <1>1, <2>1 DEF NoExit
  <2> QED
    BY <2>1, <2>2, ExitMovesCurrent DEF Clearing
<1>3. CASE PassesCheck(l)
  <2>1. /\ UNCHANGED <<mode, table, watched, sync>>
        /\ exits[l].at = "dispatched" /\ exits[l].mode = mode
        /\ exits' = [exits EXCEPT ![l] = [at |-> "checked", mode |-> mode]]
    BY <1>3 DEF PassesCheck, Continue
  <2>2. /\ exits'[l].at = "checked" /\ exits'[l].mode = mode
        /\ \A k \in Legs \ {l} : exits'[k] = exits[k]
    BY <1>1, <2>1
  <2> QED
    BY <2>1, <2>2, ExitMovesCurrent DEF Clearing
<1>4. ASSUME Reads(l) \/ ExitTaken(l) \/ ExitQueued(l)
      PROVE  CopyCurrent' /\ \A k \in Legs : ExitInMode(k)' /\ RowCleared(k)'
  <2>1. /\ UNCHANGED <<mode, table, watched, sync>>
        /\ exits[l].at \in {"checked", "exiting"}
    BY <1>4 DEF Reads, ExitTaken, ExitQueued
  <2>2. exits[l].mode = mode
    BY <2>1 DEF Current, ExitInMode
  <2>3. /\ exits'[l].at \in {"confirmed", "exiting"} /\ exits'[l].mode = exits[l].mode
        /\ \A k \in Legs \ {l} : exits'[k] = exits[k]
    BY <1>1, <1>4 DEF Reads, ExitTaken, ExitQueued, Continue
  <2> QED
    BY <2>1, <2>2, <2>3, ExitMovesCurrent DEF Clearing
<1> QED
  BY <1>2, <1>3, <1>4, DeletesRowCurrent, DropsCopyCurrent DEF ExitSteps

\* The invariant is inductive.
LEMMA CurrentStep ==
  ASSUME Apart, Current, [StopNext]_stopVars
  PROVE  Current'
<1>1. StopTypeOK'
  BY StopStepTyped DEF Current
<1>2. CASE StopRestart
  <2>1. sync'.due = TRUE /\ sync'.worker = "running" /\ \A l \in Legs : exits'[l].at = "none"
    BY <1>2 DEF StopRestart, NoExit
  <2> QED
    BY <1>1, <2>1 DEF Current, CopyCurrent, ExitInMode, RowCleared, Clearing
<1>3. ASSUME UNCHANGED <<mode, table, watched, sync, exits>>
      PROVE  Current'
  BY <1>1, <1>3 DEF Current, CopyCurrent, ExitInMode, RowCleared, Clearing, Agrees,
                    Underway, Loading
<1>4. ASSUME NEW l \in Legs,
             \/ \E lots \in 0..MaxNet : Trades(l, lots)
             \/ \E m \in TradingModes : Fills(l, m) \/ Rejects(l, m)
      PROVE  UNCHANGED <<mode, table, watched, sync, exits>>
  BY <1>4 DEF Trades, Fills, Rejects
<1>5. UNCHANGED stopVars => UNCHANGED <<mode, table, watched, sync, exits>>
  BY DEF stopVars
<1> QED
  BY <1>1, <1>2, <1>3, <1>4, <1>5, SavesCurrent, TogglesCurrent, WorkerCurrent, TrailsCurrent,
     BreachesCurrent, ExitStepCurrent
  DEF StopNext, Current

\* While no two-step write has another in it, and the mode keeps while an exit or a
\* sync depends on it: whenever the worker is at rest, what the monitor watches is
\* what is saved in one of the modes, for any legs and levels.  Request_sync's
\* "flag that another is needed" overlooks no save, and no sync takes back a trail.
THEOREM WatchedIsSaved ==
  ASSUME Apart
  PROVE  StopSpec => []WatchesWhatIsSaved
<1>1. StopInit => Current
  <2> SUFFICES ASSUME StopInit
               PROVE  Current
    OBVIOUS
  <2>1. /\ sync.due = FALSE /\ sync.worker = "none"
        /\ \A l \in Legs : /\ exits[l].at = "none" /\ watched[l] = NoStop
                          /\ \A m \in TradingModes : table[l][m] = 0
    BY DEF StopInit, NoExit
  <2>2. ~Underway /\ \E m \in TradingModes : TRUE
    BY <2>1 DEF Underway, TradingModes
  <2> QED
    BY <2>1, <2>2, StopInitTyped
    DEF Current, CopyCurrent, ExitInMode, RowCleared, Clearing, Agrees, Loading
<1>2. Current /\ [StopNext]_stopVars => Current'
  BY CurrentStep
<1>3. Current => WatchesWhatIsSaved
  BY DEF Current, CopyCurrent, WatchesWhatIsSaved, Agrees
<1> QED
  BY <1>1, <1>2, <1>3, PTL DEF StopSpec

-----------------------------------------------------------------------------
(***************************************************************************)
(* A stop is given up only when an order closes the position.              *)
(***************************************************************************)

\* What one step of one exit leaves of the others.
LEMMA OthersDeliberate ==
  ASSUME Reliable, Deliberate, NEW l \in Legs, UNCHANGED <<mode, net>>,
         \A k \in Legs \ {l} : exits'[k] = exits[k] /\ sent'[k] = sent[k],
         ExitInMode(l)', AsksForAll(l)'
  PROVE  \A k \in Legs : ExitInMode(k)' /\ AsksForAll(k)'
<1>1. \A k \in Legs \ {l} : ExitInMode(k)' /\ AsksForAll(k)'
  BY DEF Deliberate, ExitInMode, AsksForAll
<1> QED
  BY <1>1

\* An order for all of a position closes it, where nothing else is on its way.
LEMMA AllCloses ==
  ASSUME NEW n \in Int
  PROVE  Closes(0 - n, n)
  BY DEF Closes

\* What is confirmed by the step of an exit.
Answered(l) ==
  exits'[l].at = "confirmed" /\ exits[l].at # "confirmed" =>
    LET m == exits[l].mode
    IN  Closes(sent'[l][m], net'[l][m]) \/ Closes(asked'[l][m], net'[l][m])

LEMMA ExitStepDeliberate ==
  ASSUME Reliable, Deliberate, NEW l \in Legs, ExitSteps(l)
  PROVE  /\ \A k \in Legs : ExitInMode(k)' /\ AsksForAll(k)'
         /\ \A k \in Legs : Answered(k)
<1>1. /\ exits[l] \in Exit /\ exits \in [Legs -> Exit] /\ mode \in TradingModes
      /\ net \in Lots /\ sent \in Lots /\ asked \in Lots
  BY DEF Deliberate, StopTypeOK
<1>2. ExitInMode(l) /\ AsksForAll(l)
  BY DEF Deliberate
<1>3. ASSUME UNCHANGED <<mode, net>>, \A k \in Legs \ {l} : exits'[k] = exits[k] /\ sent'[k] = sent[k],
             ExitInMode(l)', AsksForAll(l)', Answered(l)
      PROVE  /\ \A k \in Legs : ExitInMode(k)' /\ AsksForAll(k)'
             /\ \A k \in Legs : Answered(k)
  <2>1. \A k \in Legs \ {l} : Answered(k)
    BY <1>3 DEF Answered
  <2> QED
    BY <1>3, <2>1, OthersDeliberate
<1>4. ASSUME NotNow(l) \/ ExitRefused(l) \/ DropsCopy(l)
      PROVE  /\ \A k \in Legs : ExitInMode(k)' /\ AsksForAll(k)'
             /\ \A k \in Legs : Answered(k)
  <2>1. /\ UNCHANGED <<mode, net, sent>> /\ exits' = [exits EXCEPT ![l] = NoExit]
    BY <1>4 DEF NotNow, ExitRefused, DropsCopy, Abandons, Continue
  <2>2. exits'[l].at = "none" /\ \A k \in Legs \ {l} : exits'[k] = exits[k]
    BY <1>1, <2>1 DEF NoExit
  <2> QED
    BY <1>3, <2>1, <2>2 DEF ExitInMode, AsksForAll, Answered
<1>5. CASE PassesCheck(l)
  <2>1. /\ UNCHANGED <<mode, net, sent>> /\ exits[l].at = "dispatched" /\ exits[l].mode = mode
        /\ exits' = [exits EXCEPT ![l] = [at |-> "checked", mode |-> mode]]
    BY <1>5 DEF PassesCheck, Continue
  <2>2. /\ exits'[l].at = "checked" /\ exits'[l].mode = mode
        /\ \A k \in Legs \ {l} : exits'[k] = exits[k]
    BY <1>1, <2>1
  <2> QED
    BY <1>2, <1>3, <2>1, <2>2 DEF ExitInMode, AsksForAll, Answered
<1>6. CASE Reads(l)
  <2>1. exits[l].at = "checked" /\ UNCHANGED <<mode, net, sent, asked>>
    BY <1>6 DEF Reads
  <2>2. exits[l].mode = mode /\ sent[l][mode] = 0
    BY <1>2, <2>1 DEF ExitInMode, AsksForAll
  <2>3. Continue(l, IF net[l][mode] = 0 THEN [at |-> "confirmed", mode |-> mode]
                    ELSE [at |-> "exiting", mode |-> mode, lots |-> net[l][mode]])
    BY <1>6, <2>2 DEF Reads, Reliable
  <2>4. \A k \in Legs \ {l} : exits'[k] = exits[k]
    BY <1>1, <2>3 DEF Continue
  <2>5. CASE net[l][mode] = 0
    <3>1. exits'[l].at = "confirmed" /\ exits'[l].mode = mode
      BY <1>1, <2>3, <2>5 DEF Continue
    <3>2. Closes(sent'[l][mode], net'[l][mode])
      BY <2>1, <2>5 DEF Closes
    <3> QED
      BY <1>3, <2>1, <2>2, <2>4, <3>1, <3>2 DEF ExitInMode, AsksForAll, Answered
  <2>6. CASE net[l][mode] # 0
    <3>1. exits'[l].at = "exiting" /\ exits'[l].mode = mode /\ exits'[l].lots = net[l][mode]
      BY <1>1, <2>3, <2>6 DEF Continue
    <3> QED
      BY <1>3, <2>1, <2>2, <2>4, <3>1 DEF ExitInMode, AsksForAll, Answered
  <2> QED
    BY <2>5, <2>6
<1>7. ASSUME ExitTaken(l) \/ ExitQueued(l)
      PROVE  /\ \A k \in Legs : ExitInMode(k)' /\ AsksForAll(k)'
             /\ \A k \in Legs : Answered(k)
  <2>1. exits[l].at = "exiting" /\ UNCHANGED <<mode, net>>
    BY <1>7 DEF ExitTaken, ExitQueued
  <2>2. exits[l].mode = mode /\ sent[l][mode] = 0 /\ exits[l].lots = net[l][mode]
    BY <1>2, <2>1 DEF ExitInMode, AsksForAll
  <2>3. /\ exits'[l].at = "confirmed" /\ exits'[l].mode = mode
        /\ \A k \in Legs \ {l} : exits'[k] = exits[k]
    BY <1>1, <1>7, <2>2 DEF ExitTaken, ExitQueued, Continue
  <2>4. net[l][mode] \in Int /\ net'[l][mode] = net[l][mode]
    BY <1>1, <2>1 DEF Lots
  <2>5. CASE ExitTaken(l)
    <3>1. sent' = [sent EXCEPT ![l][mode] = 0 - net[l][mode]]
      BY <2>2, <2>5 DEF ExitTaken, Ordered, Reliable
    <3>2. sent'[l][mode] = 0 - net[l][mode] /\ \A k \in Legs \ {l} : sent'[k] = sent[k]
      BY <1>1, <3>1 DEF Lots
    <3>3. Closes(sent'[l][mode], net'[l][mode])
      BY <2>4, <3>2, AllCloses
    <3> QED
      BY <1>3, <2>1, <2>2, <2>3, <3>2, <3>3 DEF ExitInMode, AsksForAll, Answered
  <2>6. CASE ExitQueued(l)
    <3>1. sent' = sent /\ asked[l][mode] = 0
          /\ asked' = [asked EXCEPT ![l][mode] = 0 - net[l][mode]]
      BY <2>2, <2>6 DEF ExitQueued
    <3>2. asked'[l][mode] = 0 - net[l][mode]
      BY <1>1, <3>1 DEF Lots
    <3>3. Closes(asked'[l][mode], net'[l][mode])
      BY <2>4, <3>2, AllCloses
    <3> QED
      BY <1>3, <2>1, <2>2, <2>3, <3>1, <3>3 DEF ExitInMode, AsksForAll, Answered
  <2> QED
    BY <1>7, <2>5, <2>6
<1>8. CASE DeletesRow(l)
  <2>1. exits[l].at = "confirmed" /\ UNCHANGED <<mode, net, sent>>
    BY <1>8 DEF DeletesRow
  <2>2. exits[l].mode = mode
    BY <1>2, <2>1 DEF ExitInMode
  <2>3. /\ exits'[l].at = "deleted" /\ exits'[l].mode = mode
        /\ \A k \in Legs \ {l} : exits'[k] = exits[k]
    BY <1>1, <1>8, <2>2 DEF DeletesRow, Continue
  <2> QED
    BY <1>3, <2>1, <2>3 DEF ExitInMode, AsksForAll, Answered
<1> QED
  BY <1>4, <1>5, <1>6, <1>7, <1>8 DEF ExitSteps

\* No other step confirms anything.
LEMMA DeliberateStep ==
  ASSUME Reliable, Deliberate, [StopNext]_stopVars
  PROVE  Deliberate' /\ \A l \in Legs : Answered(l)
<1>1. StopTypeOK'
  BY StopStepTyped DEF Deliberate
<1>2. /\ exits \in [Legs -> Exit] /\ mode \in TradingModes /\ net \in Lots /\ sent \in Lots
  BY DEF Deliberate, StopTypeOK
<1>3. ASSUME UNCHANGED <<exits, mode, net, sent>>
      PROVE  Deliberate' /\ \A l \in Legs : Answered(l)
  BY <1>1, <1>3 DEF Deliberate, ExitInMode, AsksForAll, Answered
<1>4. CASE Toggles
  <2>1. /\ UNCHANGED <<exits, net, sent>>
        /\ \A l \in Legs : exits[l].at \in {"none", "dispatched"}
    BY <1>4 DEF Toggles, Steady, Reliable
  <2> QED
    BY <1>1, <2>1 DEF Deliberate, ExitInMode, AsksForAll, Answered
<1>5. CASE StopRestart
  <2>1. \A l \in Legs : exits'[l].at = "none"
    BY <1>5 DEF StopRestart, NoExit
  <2> QED
    BY <1>1, <2>1 DEF Deliberate, ExitInMode, AsksForAll, Answered
<1>6. ASSUME NEW l \in Legs, NEW lots \in 0..MaxNet, Trades(l, lots)
      PROVE  Deliberate' /\ \A k \in Legs : Answered(k)
  <2>1. exits[l].at # "exiting" /\ UNCHANGED <<exits, mode, sent>>
    BY <1>6 DEF Trades, Unmoved, Reliable
  <2>2. \A k \in Legs \ {l} : net'[k] = net[k]
    BY <1>2, <1>6 DEF Trades, Lots
  <2> QED
    BY <1>1, <2>1, <2>2 DEF Deliberate, ExitInMode, AsksForAll, Answered
<1>7. ASSUME NEW l \in Legs, Breaches(l)
      PROVE  Deliberate' /\ \A k \in Legs : Answered(k)
  <2>1. sent[l][mode] = 0 /\ UNCHANGED <<mode, net, sent>>
    BY <1>7 DEF Breaches
  <2>2. /\ exits'[l].at = "dispatched" /\ exits'[l].mode = mode
        /\ \A k \in Legs \ {l} : exits'[k] = exits[k]
    BY <1>2, <1>7 DEF Breaches
  <2> QED
    BY <1>1, <2>1, <2>2 DEF Deliberate, ExitInMode, AsksForAll, Answered
<1>8. ASSUME NEW l \in Legs, NEW m \in TradingModes, Fills(l, m) \/ Rejects(l, m)
      PROVE  Deliberate' /\ \A k \in Legs : Answered(k)
  <2>1. sent[l][m] # 0 /\ UNCHANGED <<exits, mode>>
    BY <1>8 DEF Fills, Rejects
  <2>2. \A k \in Legs, q \in TradingModes : k # l \/ q # m =>
          sent'[k][q] = sent[k][q] /\ net'[k][q] = net[k][q]
    BY <1>2, <1>8 DEF Fills, Rejects, Lots
  <2>3. ASSUME NEW k \in Legs
        PROVE  ExitInMode(k)' /\ AsksForAll(k)' /\ Answered(k)
    <3>1. ExitInMode(k) /\ AsksForAll(k) /\ exits[k] \in Exit
      BY <1>2 DEF Deliberate
    <3>2. exits[k].at \in {"dispatched", "checked", "exiting"} =>
            exits[k].mode \in TradingModes /\ (k # l \/ exits[k].mode # m)
      BY <2>1, <3>1, ExitParts DEF AsksForAll
    <3> QED
      BY <2>1, <2>2, <3>1, <3>2 DEF ExitInMode, AsksForAll, Answered
  <2> QED
    BY <1>1, <2>3 DEF Deliberate
<1>9. ASSUME NEW l \in Legs,
             \/ \E level \in Levels \cup {0} : Saves(l, level)
             \/ \E level \in Levels, persisted \in BOOLEAN : Trails(l, level, persisted)
      PROVE  UNCHANGED <<exits, mode, net, sent>>
  BY <1>9 DEF Saves, Trails
<1>10. WorkerSteps \/ UNCHANGED stopVars => UNCHANGED <<exits, mode, net, sent>>
  BY DEF WorkerSteps, WorkerBegins, Loads, Assigns, WorkerEnds, stopVars
<1>11. ASSUME NEW l \in Legs, ExitSteps(l)
       PROVE  Deliberate' /\ \A k \in Legs : Answered(k)
  BY <1>1, <1>11, ExitStepDeliberate DEF Deliberate
<1> QED
  BY <1>3, <1>4, <1>5, <1>6, <1>7, <1>8, <1>9, <1>10, <1>11 DEF StopNext

\* While the position book answers, orders are taken whole, the mode keeps and the
\* user leaves a leg to its exit: _exit_worker takes a stop for done only when the
\* position is flat, or an order for all of it is at the broker or waits for an
\* approval.  Overlaps of the monitor's own writes do not matter to this.
THEOREM StopsClose ==
  ASSUME Reliable
  PROVE  StopSpec => GivenUpWhenClosing
<1>1. StopInit => Deliberate
  BY StopInitTyped DEF StopInit, Deliberate, ExitInMode, AsksForAll, NoExit
<1>2. Deliberate /\ [StopNext]_stopVars => Deliberate' /\ \A l \in Legs : Answered(l)
  BY DeliberateStep
<1>3. Deliberate /\ [StopNext]_stopVars =>
        [\A l \in Legs :
           exits'[l].at = "confirmed" /\ exits[l].at # "confirmed" =>
             LET m == exits[l].mode
             IN  Closes(sent'[l][m], net'[l][m]) \/ Closes(asked'[l][m], net'[l][m])]_stopVars
  BY <1>2 DEF Answered
<1> QED
  BY <1>1, <1>2, <1>3, PTL DEF StopSpec, GivenUpWhenClosing
=============================================================================
