------------------------- MODULE BudgetLedger_proofs -------------------------
(***************************************************************************)
(* Theorems about BudgetLedger, for any keys, hashes, budgets and bounds.  *)
(***************************************************************************)
EXTENDS BudgetLedger, TLAPS

USE BudgetLedgerAssumption

-----------------------------------------------------------------------------
(***************************************************************************)
(* Type correctness.                                                       *)
(***************************************************************************)

\* A verdict is a Boolean; the proofs that do not compare numbers need no more.
LEMMA ExceedsType ==
    \A used, budget \in Nat :
        /\ Exceeds(used, budget) \in BOOLEAN
        /\ Exceeds(used, budget) <=> used >= budget
  BY DEF Exceeds

\* The operators that make rows and entries make rows and entries.
LEMMA RowTypes ==
    ASSUME TypeOK, NEW k \in Keys
    PROVE  /\ row[k] \in Row
           /\ EntryOf(k) \in Entry
           /\ \A b \in Nat, m \in Months : NewRow(b, m) \in Row
           /\ \A b \in Nat : Reconciled(k, b) \in Row
           /\ [row[k] EXCEPT !.del = TRUE] \in Row
           /\ Counted(k) \in Row
           /\ Moved(k) \in Row
           /\ \A answer \in Reading : Rebased(k, answer) \in Row
  <1>1. row[k] \in Row
    BY DEF TypeOK
  <1>2. 0 \in 0..LastMonth /\ Months \subseteq 0..LastMonth
    BY DEF Months
  <1>3. clock \in Months
    BY DEF TypeOK
  <1>4. EntryOf(k) \in Entry
    BY <1>1 DEF Row, Entry, EntryOf
  <1>5. \A b \in Nat, m \in Months : NewRow(b, m) \in Row
    BY <1>2 DEF Row, NewRow
  <1>6. \A b \in Nat : Reconciled(k, b) \in Row
    BY <1>1, ExceedsType DEF Row, Reconciled
  <1>7. [row[k] EXCEPT !.del = TRUE] \in Row
    BY <1>1 DEF Row
  <1>8. Counted(k) \in Row
    <2>1. row[k].used \in Nat /\ row[k].budget \in Nat
      BY <1>1 DEF Row
    <2>2. row[k].used + 1 \in Nat
      BY <2>1
    <2>3. Exceeds(row[k].used + 1, row[k].budget) \in BOOLEAN
      BY <2>1, <2>2, ExceedsType
    <2>. QED
      BY <1>1, <2>2, <2>3 DEF Row, Counted
  <1>9. Moved(k) \in Row
    BY <1>1, <1>3 DEF Row, Moved
  <1>10. \A answer \in Reading : Rebased(k, answer) \in Row
    BY <1>1, <1>2, ExceedsType DEF Row, Reading, Rebased
  <1>. QED
    BY <1>1, <1>4, <1>5, <1>6, <1>7, <1>8, <1>9, <1>10

\* What a step does to the snapshot of flushOne, if it does not start one.
LEMMA TouchTypes ==
    ASSUME TypeOK, NEW K, Touch(K)
    PROVE  flight' \in Flight
  BY DEF TypeOK, Touch, Flight

LEMMA CurrentMonthType ==
    ASSUME TypeOK
    PROVE  CurrentMonth \in Months
  BY DEF TypeOK, CurrentMonth, Months

LEMMA LiveInTracked == Live \subseteq tracked /\ Missing \subseteq Live
  BY DEF Live, Missing

LEMMA TypeInit == Init => TypeOK
  <1>. SUFFICES ASSUME Init PROVE TypeOK
    OBVIOUS
  <1>1. Blank \in Row
    BY DEF Blank, NewRow, Row, Months
  <1>2. NoFlight \in Flight
    BY DEF NoFlight, Flight
  <1>3. stored \in [Keys -> [Months -> Nat]]
    BY DEF Init
  <1>4. todo \in [Fetchers -> SUBSET Keys]
    BY DEF Init
  <1>5. reading \in [Fetchers \X Keys -> Reading \cup {NoReading}]
    BY DEF Init
  <1>6. clock \in Months /\ month \in 0..LastMonth
    BY DEF Init, Months
  <1>. QED
    BY <1>1, <1>2, <1>3, <1>4, <1>5, <1>6 DEF Init, TypeOK

LEMMA BudgetIsNat == \A b \in Budgets \cup {0} : b \in Nat
  BY BudgetLedgerAssumption

LEMMA TypeStep == TypeOK /\ [Next]_vars => TypeOK'
  <1>. SUFFICES ASSUME TypeOK, [Next]_vars PROVE TypeOK'
    OBVIOUS
  <1>. USE DEF envVars, kvVars, rowVars, runVars, fetchVars
  <1>1. CASE Tick
    BY <1>1 DEF TypeOK, Tick, Months
  <1>2. CASE BucketLost
    BY <1>2 DEF TypeOK, BucketLost
  <1>3. CASE Restart
    <2>1. Blank \in Row
      BY DEF Blank, NewRow, Row, Months
    <2>2. NoFlight \in Flight
      BY DEF NoFlight, Flight
    <2>3. kv' \in [Keys -> Entry \cup {NoEntry}]
      BY <1>3 DEF TypeOK, Restart, Stored, Flight
    <2>4. todo' \in [Fetchers -> SUBSET Keys]
      BY <1>3 DEF Restart
    <2>5. reading' \in [Fetchers \X Keys -> Reading \cup {NoReading}]
      BY <1>3 DEF Restart
    <2>6. row' \in [Keys -> Row] /\ month' \in 0..LastMonth
      BY <1>3, <2>1 DEF Restart
    <2>7. /\ unreported' \in [Keys -> Nat]
          /\ applied' \in [Keys -> Budgets \cup {0}]
          /\ restarts' \in Nat
      BY <1>3 DEF TypeOK, Restart
    <2>8. /\ clock' = clock
          /\ stored' = stored
          /\ inserts' = inserts
          /\ keys' = keys
          /\ edits' = edits
          /\ bucket' = TRUE
          /\ flight' = NoFlight
          /\ tracked' = {} /\ dirty' = {} /\ ids' = {} /\ pending' = {}
          /\ runpc' = "idle"
          /\ force' = FALSE
      BY <1>3 DEF Restart
    <2>. QED
      BY <2>2, <2>3, <2>4, <2>5, <2>6, <2>7, <2>8 DEF TypeOK
  <1>4. CASE Reconcile
    <2>1. PICK fold \in [Keys -> Budgets \cup {0}] : Reconcile!(fold)
      BY <1>4 DEF Reconcile
    <2>. DEFINE gone    == {k \in Live : fold[k] = 0}
                kept    == {k \in tracked : fold[k] > 0}
                changed == {k \in kept :
                              row[k].del \/ row[k].budget # fold[k]}
                fresh   == {k \in Keys \ tracked : fold[k] > 0}
    <2>2. /\ month' = IF fresh = {} THEN month ELSE CurrentMonth
          /\ tracked' = tracked \cup fresh
          /\ row' = [k \in Keys |->
                       CASE k \in gone    -> [row[k] EXCEPT !.del = TRUE]
                         [] k \in changed -> Reconciled(k, fold[k])
                         [] k \in fresh   -> NewRow(fold[k], CurrentMonth)
                         [] OTHER         -> row[k]]
          /\ dirty' = dirty \cup gone \cup changed
          /\ Touch(gone \cup changed)
          /\ applied' = fold
          /\ UNCHANGED <<envVars, kvVars, runVars, fetchVars>>
      BY <2>1
    <2>3. /\ fresh \subseteq Keys /\ gone \subseteq Keys
          /\ changed \subseteq Keys
      BY LiveInTracked DEF TypeOK
    <2>. HIDE DEF gone, kept, changed, fresh
    <2>4. row' \in [Keys -> Row]
      <3>1. ASSUME NEW k \in Keys PROVE row'[k] \in Row
        <4>1. \/ row'[k] = [row[k] EXCEPT !.del = TRUE]
              \/ row'[k] = Reconciled(k, fold[k])
              \/ row'[k] = NewRow(fold[k], CurrentMonth)
              \/ row'[k] = row[k]
          BY <2>2
        <4>2. fold[k] \in Nat
          <5>1. fold[k] \in Budgets \cup {0}
            BY <2>1
          <5>. QED
            BY <5>1, BudgetIsNat
        <4>. QED
          BY <4>1, <4>2, RowTypes, CurrentMonthType
      <3>. QED
        BY <2>2, <3>1
    <2>5. flight' \in Flight
      BY <2>2, TouchTypes
    <2>6. month' \in 0..LastMonth
      BY <2>2, CurrentMonthType DEF TypeOK, Months
    <2>7. tracked' \in SUBSET Keys /\ dirty' \in SUBSET Keys
      BY <2>2, <2>3 DEF TypeOK
    <2>. QED
      BY <2>2, <2>4, <2>5, <2>6, <2>7 DEF TypeOK
  <1>5. CASE CheckMonthRollover
    <2>1. row' \in [Keys -> Row]
      BY <1>5, RowTypes DEF CheckMonthRollover
    <2>2. flight' \in Flight
      BY <1>5, TouchTypes DEF CheckMonthRollover
    <2>3. todo' \in [Fetchers -> SUBSET Keys]
      BY <1>5, LiveInTracked DEF CheckMonthRollover, TypeOK
    <2>. QED
      BY <1>5, <2>1, <2>2, <2>3 DEF TypeOK, CheckMonthRollover, Months
  <1>6. CASE FlushTick
    BY <1>6, LiveInTracked DEF TypeOK, FlushTick
  <1>7. ASSUME NEW k \in Keys, FlushSkips(k) PROVE TypeOK'
    BY <1>7 DEF TypeOK, FlushSkips
  <1>8. ASSUME NEW k \in Keys, FlushStart(k) PROVE TypeOK'
    <2>1. row[k] \in Row /\ EntryOf(k) \in Entry
      BY RowTypes
    <2>2. flight' \in Flight
      BY <1>8, <2>1 DEF FlushStart, Flight, Row
    <2>. QED
      BY <1>8, <2>2 DEF TypeOK, FlushStart
  <1>9. CASE FlushFinish
    <2>1. Blank \in Row
      BY DEF Blank, NewRow, Row, Months
    <2>2. NoFlight \in Flight
      BY DEF NoFlight, Flight
    <2>. QED
      BY <1>9, <2>1, <2>2 DEF TypeOK, FlushFinish
  <1>10. CASE FlushDone
    BY <1>10 DEF TypeOK, FlushDone
  <1>11. CASE LoadDone
    BY <1>11 DEF TypeOK, LoadDone
  <1>12. CASE Write
    <2>1. NoFlight \in Flight
      BY DEF NoFlight, Flight
    <2>2. [flight EXCEPT !.phase = "finish"] \in Flight
      BY DEF TypeOK, Flight
    <2>3. flight' \in Flight /\ kv' \in [Keys -> Entry \cup {NoEntry}]
      BY <1>12, <2>1, <2>2 DEF TypeOK, Write, WriteOk, WriteFails,
         WriteNoBucket, Stored, Flight
    <2>. QED
      BY <1>12, <2>3 DEF TypeOK, Write, WriteOk, WriteFails, WriteNoBucket
  <1>13. CASE RebaselineAll
    BY <1>13, LiveInTracked DEF TypeOK, RebaselineAll
  <1>14. ASSUME NEW h \in Hashes, NEW b \in Budgets \cup {0}, EditKeys(h, b)
         PROVE  TypeOK'
    BY <1>14 DEF TypeOK, EditKeys
  <1>15. ASSUME NEW k \in Keys, NEW m \in Months, Insert(k, m) PROVE TypeOK'
    BY <1>15 DEF TypeOK, Insert
  <1>16. ASSUME NEW k \in Keys, AddUsage(k) PROVE TypeOK'
    <2>1. row' \in [Keys -> Row]
      <3>1. Counted(k) \in Row
        BY RowTypes
      <3>. QED
        BY <1>16, <3>1 DEF AddUsage, TypeOK
    <2>2. flight' \in Flight
      BY <1>16, TouchTypes DEF AddUsage, TypeOK
    <2>3. unreported' \in [Keys -> Nat]
      <3>1. unreported[k] \in Nat /\ unreported[k] > 0
        BY <1>16 DEF AddUsage, TypeOK
      <3>2. unreported[k] - 1 \in Nat
        BY <3>1
      <3>. QED
        BY <1>16, <3>2 DEF AddUsage, TypeOK
    <2>4. dirty' \in SUBSET Keys
      BY <1>16 DEF AddUsage, TypeOK
    <2>. QED
      BY <1>16, <2>1, <2>2, <2>3, <2>4 DEF TypeOK, AddUsage
  <1>17. ASSUME NEW g \in Fetchers, NEW k \in Keys, Baseline(g, k)
         PROVE  TypeOK'
    <2>1. CASE BaselineRead(g, k)
      <3>1. row[k] \in Row
        BY RowTypes
      <3>2. [month |-> row[k].month, used |-> stored[k][row[k].month]]
              \in Reading
        BY <3>1 DEF TypeOK, Reading, Row
      <3>. QED
        BY <2>1, <3>2 DEF TypeOK, BaselineRead, Fetched
    <2>2. CASE BaselineSkipped(g, k) \/ BaselineFails(g, k)
      <3>1. todo' \in [Fetchers -> SUBSET Keys]
        BY <2>2 DEF TypeOK, BaselineSkipped, BaselineFails, Fetched
      <3>2. UNCHANGED <<envVars, kvVars, rowVars, runVars, flight, reading>>
        BY <2>2 DEF BaselineSkipped, BaselineFails
      <3>. QED
        BY <3>1, <3>2
        DEF TypeOK, envVars, kvVars, rowVars, runVars, Months
    <2>. QED
      BY <1>17, <2>1, <2>2 DEF Baseline
  <1>18. ASSUME NEW g \in Fetchers, NEW k \in Keys, BaselineStore(g, k)
         PROVE  TypeOK'
    <2>1. reading[<<g, k>>] \in Reading
      BY <1>18 DEF BaselineStore, TypeOK
    <2>2. row' \in [Keys -> Row]
      <3>1. Rebased(k, reading[<<g, k>>]) \in Row
        BY <2>1, RowTypes
      <3>. QED
        BY <1>18, <3>1 DEF BaselineStore, TypeOK
    <2>3. flight' \in Flight
      BY <1>18, TouchTypes DEF BaselineStore, TypeOK
    <2>. QED
      BY <1>18, <2>2, <2>3 DEF TypeOK, BaselineStore
  <1>19. CASE UNCHANGED vars
    BY <1>19 DEF TypeOK, vars
  <1>. QED
    BY <1>1, <1>2, <1>3, <1>4, <1>5, <1>6, <1>7, <1>8, <1>9, <1>10, <1>11,
       <1>12, <1>13, <1>14, <1>15, <1>16, <1>17, <1>18, <1>19
       DEF Next, RunStep, Flush

\* Every variable keeps its type.
THEOREM LedgerTypeCorrect == Spec => []TypeOK
  BY TypeInit, TypeStep, PTL DEF Spec
-----------------------------------------------------------------------------
(***************************************************************************)
(* The inductive invariant: the safety properties, what the rows satisfy,  *)
(* and what flushOne may rely on between its two critical sections.        *)
(***************************************************************************)

RowInv ==
    \A k \in tracked :
        /\ row[k].exceeded <=> row[k].used >= row[k].budget
        /\ row[k].loaded => row[k].base = row[k].month

Sound(e) == e.month = e.base /\ (e.exceeded <=> e.used >= e.budget)

RunInv ==
    /\ ids \subseteq dirty
    /\ flight = NoFlight \/ (runpc = "flush" /\ flight.phase # "idle")
    /\ runpc # "flush" => ids = {}

\* A snapshot whose row was not touched is what the row still says; once the
\* write has succeeded BUDGETS holds it, and the key is dirty until the end.
FlightInv ==
    flight.phase # "idle" =>
        /\ flight.key \in (tracked \cap dirty) \ ids
        /\ flight.del => flight.entry = NoEntry
        /\ ~flight.del => flight.entry \in Entry /\ Sound(flight.entry)
        /\ ~flight.touched =>
              /\ row[flight.key].del = flight.del
              /\ ~flight.del => /\ row[flight.key].loaded
                                /\ flight.entry = EntryOf(flight.key)
        /\ flight.phase = "finish" =>
              /\ flight.del => kv[flight.key] = NoEntry
              /\ "bucket" \notin Faults => kv[flight.key] = flight.entry

KvInv ==
    /\ \A k \in Keys : kv[k] # NoEntry => kv[k] \in Entry /\ Sound(kv[k])
    /\ ~bucket => \A k \in Keys : kv[k] = NoEntry
    /\ "bucket" \notin Faults => bucket

Published == "bucket" \notin Faults => CleanIsPublished

IInv ==
    /\ RowInv
    /\ TrackedAsApplied
    /\ RunInv
    /\ FlightInv
    /\ KvInv
    /\ EntriesAreTracked
    /\ Published

LEMMA InvInit == Init => IInv
  <1>. SUFFICES ASSUME Init PROVE IInv
    OBVIOUS
  <1>1. RowInv /\ TrackedAsApplied /\ EntriesAreTracked
    BY DEF Init, RowInv, TrackedAsApplied, EntriesAreTracked, Live
  <1>2. RunInv /\ FlightInv
    BY DEF Init, RunInv, FlightInv, NoFlight
  <1>3. KvInv /\ Published
    BY DEF Init, KvInv, Published, CleanIsPublished, Live
  <1>. QED
    BY <1>1, <1>2, <1>3 DEF IInv

\* A step that leaves the rows, BUDGETS and the snapshot alone.
LEMMA QuietStep ==
    ASSUME IInv, RunInv', ids' \subseteq ids \/ flight = NoFlight,
           UNCHANGED <<restarts, kv, bucket, applied, tracked, row, dirty,
                       flight>>
    PROVE  IInv'
  <1>1. RowInv' /\ TrackedAsApplied' /\ EntriesAreTracked'
    BY DEF IInv, RowInv, TrackedAsApplied, EntriesAreTracked, Live
  <1>2. FlightInv'
    BY DEF IInv, FlightInv, EntryOf, NoFlight
  <1>3. KvInv' /\ Published'
    BY DEF IInv, KvInv, Published, CleanIsPublished, Live, Missing, EntryOf
  <1>. QED
    BY <1>1, <1>2, <1>3 DEF IInv

\* A critical section that changes the rows K and bumps their versions: what
\* was published or is being written is not affected.
LEMMA RowStep ==
    ASSUME TypeOK, IInv, NEW K \in SUBSET Keys, Touch(K),
           UNCHANGED <<restarts, kv, bucket, ids, runpc>>,
           tracked \subseteq tracked', dirty \subseteq dirty',
           \A k \in tracked \ K : row'[k] = row[k],
           \A k \in K : k \in dirty' \/ ~row'[k].loaded,
           \A k \in tracked' \ tracked : ~row'[k].loaded
    PROVE  /\ RunInv'
           /\ FlightInv'
           /\ KvInv'
           /\ EntriesAreTracked'
           /\ Published'
  <1>1. RunInv'
    <2>1. CASE flight = NoFlight
      <3>1. flight' = NoFlight
        BY <2>1 DEF Touch, NoFlight
      <3>. QED
        BY <3>1 DEF IInv, RunInv
    <2>2. CASE flight # NoFlight
      <3>1. flight'.phase = flight.phase
        BY DEF TypeOK, Flight, Touch
      <3>. QED
        BY <2>2, <3>1 DEF IInv, RunInv
    <2>. QED
      BY <2>1, <2>2
  <1>2. FlightInv'
    <2>. SUFFICES ASSUME flight'.phase # "idle" PROVE FlightInv'
      BY DEF FlightInv
    <2>1. /\ flight'.phase = flight.phase
          /\ flight'.key = flight.key
          /\ flight'.del = flight.del
          /\ flight'.entry = flight.entry
          /\ ~flight'.touched => ~flight.touched /\ flight.key \notin K
      BY DEF TypeOK, Flight, Touch
    <2>2. flight.key \in (tracked' \cap dirty') \ ids'
      BY <2>1 DEF IInv, FlightInv
    <2>3. ~flight'.touched =>
              row'[flight.key] = row[flight.key]
      BY <2>1 DEF IInv, FlightInv
    <2>. QED
      BY <2>1, <2>2, <2>3 DEF IInv, FlightInv, EntryOf
  <1>3. KvInv' /\ EntriesAreTracked'
    BY DEF IInv, KvInv, EntriesAreTracked
  <1>4. Published'
    <2>. SUFFICES ASSUME "bucket" \notin Faults, CleanIsPublished,
                         NEW k \in (Live \ (Missing \cup dirty))'
                  PROVE  kv'[k] = EntryOf(k)'
      BY DEF IInv, Published, CleanIsPublished
    <2>1. k \in tracked' /\ k \notin dirty' /\ row'[k].loaded /\ ~row'[k].del
      BY DEF Live, Missing
    <2>2. k \in tracked \ K /\ k \notin dirty /\ row'[k] = row[k]
      BY <2>1
    <2>3. k \in Live \ (Missing \cup dirty)
      BY <2>1, <2>2 DEF Live, Missing
    <2>. QED
      BY <2>2, <2>3 DEF CleanIsPublished, EntryOf
  <1>. QED
    BY <1>1, <1>2, <1>3, <1>4

LEMMA NoKeyInFlight ==
    ASSUME TypeOK, IInv, flight.phase # "idle"
    PROVE  flight.key \in Keys
  BY DEF TypeOK, IInv, FlightInv

LEMMA InvStep == TypeOK /\ IInv /\ [Next]_vars => IInv'
  <1>. SUFFICES ASSUME TypeOK, IInv, [Next]_vars PROVE IInv'
    OBVIOUS
  <1>. USE DEF envVars, kvVars, rowVars, runVars, fetchVars
  <1>1. CASE Tick \/ FlushDone \/ RebaselineAll \/ LoadDone \/ UNCHANGED vars
    <2>1. RunInv'
      BY <1>1 DEF IInv, RunInv, Tick, FlushDone, RebaselineAll, LoadDone, vars
    <2>. QED
      BY <1>1, <2>1, QuietStep
         DEF Tick, FlushDone, RebaselineAll, LoadDone, vars
  <1>2. CASE FlushTick
    <2>1. RunInv' /\ flight = NoFlight
      BY <1>2 DEF IInv, RunInv, FlushTick
    <2>. QED
      BY <1>2, <2>1, QuietStep DEF FlushTick
  <1>3. ASSUME NEW h \in Hashes, NEW b \in Budgets \cup {0}, EditKeys(h, b)
        PROVE  IInv'
    <2>1. RunInv'
      BY <1>3 DEF IInv, RunInv, EditKeys
    <2>. QED
      BY <1>3, <2>1, QuietStep DEF EditKeys
  <1>4. ASSUME NEW k \in Keys, NEW m \in Months, Insert(k, m) PROVE IInv'
    <2>1. RunInv'
      BY <1>4 DEF IInv, RunInv, Insert
    <2>. QED
      BY <1>4, <2>1, QuietStep DEF Insert
  <1>5. ASSUME NEW g \in Fetchers, NEW k \in Keys, Baseline(g, k) PROVE IInv'
    <2>1. UNCHANGED <<envVars, kvVars, rowVars, runVars, flight>>
      BY <1>5 DEF Baseline, BaselineSkipped, BaselineRead, BaselineFails
    <2>2. RunInv'
      BY <2>1 DEF IInv, RunInv
    <2>. QED
      BY <2>1, <2>2, QuietStep
  <1>6. CASE BucketLost
    <2>1. RowInv' /\ TrackedAsApplied' /\ RunInv'
      BY <1>6 DEF IInv, RowInv, TrackedAsApplied, RunInv, Live, BucketLost
    <2>2. FlightInv'
      BY <1>6 DEF IInv, FlightInv, TypeOK, EntryOf, BucketLost
    <2>3. KvInv' /\ EntriesAreTracked' /\ Published'
      BY <1>6 DEF KvInv, EntriesAreTracked, Published, BucketLost
    <2>. QED
      BY <2>1, <2>2, <2>3 DEF IInv
  <1>7. CASE Restart
    <2>1. RowInv' /\ TrackedAsApplied'
      BY <1>7 DEF RowInv, TrackedAsApplied, Live, Restart
    <2>2. RunInv' /\ FlightInv'
      BY <1>7 DEF RunInv, FlightInv, NoFlight, Restart
    <2>3. KvInv'
      <3>1. CASE UNCHANGED kv
        BY <1>7, <3>1 DEF IInv, KvInv, Restart
      <3>2. CASE flight.phase = "write" /\ bucket /\ Stored
        BY <1>7, <3>2 DEF IInv, TypeOK, FlightInv, KvInv, Stored, Restart
      <3>. QED
        BY <1>7, <3>1, <3>2 DEF Restart
    <2>4. EntriesAreTracked' /\ Published'
      BY <1>7 DEF TypeOK, EntriesAreTracked, Published, CleanIsPublished,
         Live, Restart
    <2>. QED
      BY <2>1, <2>2, <2>3, <2>4 DEF IInv
  <1>8. CASE Write
    <2>1. flight.phase = "write" /\ flight.key \in Keys
      BY <1>8, NoKeyInFlight DEF Write, WriteOk, WriteFails, WriteNoBucket
    <2>2. /\ UNCHANGED <<envVars, rowVars, runVars>>
          /\ \/ UNCHANGED kv
             \/ bucket /\ Stored
          /\ bucket => bucket'
          /\ \/ flight' = NoFlight
             \/ /\ flight' = [flight EXCEPT !.phase = "finish"]
                /\ (bucket /\ Stored) \/ (UNCHANGED kv /\ ~bucket /\ flight.del)
      BY <1>8 DEF Write, WriteOk, WriteFails, WriteNoBucket
    <2>3. RowInv' /\ TrackedAsApplied'
      BY <2>2 DEF IInv, RowInv, TrackedAsApplied, Live
    <2>4. RunInv'
      <3>1. runpc = "flush" /\ ids \subseteq dirty
        BY <2>1 DEF IInv, RunInv, NoFlight
      <3>2. flight' = NoFlight \/ flight'.phase = "finish"
        BY <2>2 DEF TypeOK, Flight
      <3>. QED
        BY <2>2, <3>1, <3>2 DEF RunInv
    <2>5. KvInv'
      BY <2>1, <2>2 DEF IInv, TypeOK, FlightInv, KvInv, Stored
    <2>6. EntriesAreTracked'
      BY <2>1, <2>2 DEF IInv, TypeOK, FlightInv, EntriesAreTracked, Stored
    <2>7. Published'
      BY <2>1, <2>2 DEF IInv, TypeOK, FlightInv, Published, CleanIsPublished,
         Live, Missing, EntryOf, Stored
    <2>8. FlightInv'
      <3>1. CASE flight' = NoFlight
        BY <3>1 DEF FlightInv, NoFlight
      <3>2. CASE flight' # NoFlight
        <4>1. /\ flight'.key = flight.key
              /\ flight'.del = flight.del
              /\ flight'.entry = flight.entry
              /\ flight'.touched = flight.touched
          BY <2>2, <3>2 DEF TypeOK, Flight
        <4>2. flight.del => flight.entry = NoEntry
          BY <2>1 DEF IInv, FlightInv
        <4>3. /\ flight.del => kv'[flight.key] = NoEntry
              /\ bucket => kv'[flight.key] = flight.entry
          BY <2>1, <2>2, <3>2, <4>2 DEF IInv, KvInv, TypeOK, Stored
        <4>4. "bucket" \notin Faults => bucket
          BY DEF IInv, KvInv
        <4>5. /\ flight.key \in (tracked' \cap dirty') \ ids'
              /\ row' = row
          BY <2>1, <2>2 DEF IInv, FlightInv
        <4>. QED
          BY <2>1, <4>1, <4>2, <4>3, <4>4, <4>5 DEF IInv, FlightInv, EntryOf
      <3>. QED
        BY <3>1, <3>2
    <2>. QED
      BY <2>3, <2>4, <2>5, <2>6, <2>7, <2>8 DEF IInv
  <1>9. ASSUME NEW k \in Keys, FlushSkips(k) PROVE IInv'
    <2>1. flight = NoFlight /\ flight' = NoFlight
      BY <1>9 DEF FlushSkips, Flushable
    <2>2. RowInv' /\ TrackedAsApplied'
      BY <1>9 DEF IInv, RowInv, TrackedAsApplied, Live, FlushSkips
    <2>3. RunInv'
      BY <1>9 DEF IInv, RunInv, FlushSkips, Flushable
    <2>4. FlightInv'
      BY <2>1 DEF FlightInv, NoFlight
    <2>5. KvInv' /\ EntriesAreTracked' /\ Published'
      BY <1>9 DEF IInv, KvInv, EntriesAreTracked, Published, CleanIsPublished,
         Live, Missing, EntryOf, FlushSkips
    <2>. QED
      BY <2>2, <2>3, <2>4, <2>5 DEF IInv
  <1>10. ASSUME NEW k \in Keys, FlushStart(k) PROVE IInv'
    <2>1. RowInv' /\ TrackedAsApplied'
      BY <1>10 DEF IInv, RowInv, TrackedAsApplied, Live, FlushStart
    <2>2. RunInv'
      BY <1>10 DEF IInv, RunInv, FlushStart, Flushable
    <2>3. FlightInv'
      <3>1. row[k].del \/ Sound(EntryOf(k))
        BY <1>10 DEF IInv, RowInv, Sound, EntryOf, FlushStart, Ready
      <3>2. EntryOf(k) \in Entry
        BY RowTypes
      <3>3. k \in (tracked' \cap dirty') \ ids'
        BY <1>10 DEF IInv, RunInv, FlushStart, Flushable
      <3>. QED
        BY <1>10, <3>1, <3>2, <3>3 DEF FlightInv, EntryOf, FlushStart, Ready
    <2>4. KvInv' /\ EntriesAreTracked' /\ Published'
      BY <1>10 DEF IInv, KvInv, EntriesAreTracked, Published,
         CleanIsPublished, Live, Missing, EntryOf, FlushStart
    <2>. QED
      BY <2>1, <2>2, <2>3, <2>4 DEF IInv
  <1>11. CASE FlushFinish
    <2>1. flight.phase = "finish" /\ flight' = NoFlight
      BY <1>11 DEF FlushFinish
    <2>2. UNCHANGED <<kv, bucket, applied, restarts, ids, runpc>>
      BY <1>11 DEF FlushFinish
    <2>3. flight.key \in (tracked \cap dirty) \ ids
      BY <2>1 DEF IInv, FlightInv
    <2>4. /\ tracked' \subseteq tracked
          /\ \A k \in tracked' : row'[k] = row[k]
          /\ tracked \ tracked' \subseteq {flight.key}
          /\ dirty \ dirty' \subseteq {flight.key}
          /\ dirty' \subseteq dirty
      BY <1>11, <2>3 DEF TypeOK, FlushFinish
    <2>5. flight.key \in tracked \ tracked' => ~flight.touched /\ flight.del
      BY <1>11 DEF FlushFinish, Untouched
    <2>6. flight.key \in (dirty \ dirty') \cap tracked'
             => ~flight.touched /\ ~flight.del
      BY <1>11 DEF FlushFinish, Untouched
    <2>7. RowInv'
      BY <2>4 DEF IInv, RowInv
    <2>8. TrackedAsApplied'
      <3>1. flight.key \in tracked \ tracked' => row[flight.key].del
        BY <2>1, <2>5 DEF IInv, FlightInv
      <3>2. flight.key \in tracked' \ dirty' => ~row[flight.key].del
        BY <2>1, <2>3, <2>6 DEF IInv, FlightInv
      <3>. QED
        BY <2>2, <2>4, <3>1, <3>2 DEF IInv, TrackedAsApplied, Live
    <2>9. RunInv' /\ FlightInv'
      BY <2>1, <2>2, <2>3, <2>4 DEF IInv, RunInv, FlightInv, NoFlight
    <2>10. KvInv'
      BY <2>2 DEF IInv, KvInv
    <2>11. EntriesAreTracked'
      <3>1. flight.key \in tracked \ tracked' => kv[flight.key] = NoEntry
        BY <2>1, <2>5 DEF IInv, FlightInv
      <3>. QED
        BY <2>2, <2>4, <3>1 DEF IInv, EntriesAreTracked
    <2>12. Published'
      <3>. SUFFICES ASSUME "bucket" \notin Faults, CleanIsPublished,
                           NEW k \in (Live \ (Missing \cup dirty))'
                    PROVE  kv'[k] = EntryOf(k)'
        BY DEF IInv, Published, CleanIsPublished
      <3>1. k \in tracked' /\ k \notin dirty' /\ row'[k] = row[k]
        BY <2>4 DEF Live
      <3>2. CASE k \in dirty
        <4>1. k = flight.key /\ ~flight.touched /\ ~flight.del
          BY <2>4, <2>6, <3>1, <3>2
        <4>2. kv[k] = EntryOf(k)
          BY <2>1, <4>1 DEF IInv, FlightInv
        <4>. QED
          BY <2>2, <3>1, <4>2 DEF EntryOf
      <3>3. CASE k \notin dirty
        <4>1. k \in Live \ (Missing \cup dirty)
          BY <2>4, <3>1, <3>3 DEF Live, Missing
        <4>. QED
          BY <2>2, <3>1, <4>1 DEF CleanIsPublished, EntryOf
      <3>. QED
        BY <3>2, <3>3
    <2>. QED
      BY <2>7, <2>8, <2>9, <2>10, <2>11, <2>12 DEF IInv
  <1>12. ASSUME NEW k \in Keys, AddUsage(k) PROVE IInv'
    <2>1. CASE k \notin Live
      <3>1. RunInv'
        BY <1>12, <2>1 DEF IInv, RunInv, AddUsage
      <3>. QED
        BY <1>12, <2>1, <3>1, QuietStep DEF AddUsage
    <2>2. CASE k \in Live
      <3>1. /\ row' = [row EXCEPT ![k] = Counted(k)]
            /\ dirty' = dirty \cup {k}
            /\ Touch({k})
            /\ UNCHANGED <<restarts, kv, bucket, ids, runpc, tracked, applied>>
        BY <1>12, <2>2 DEF AddUsage
      <3>2. \A j \in Keys \ {k} : row'[j] = row[j]
        BY <3>1 DEF TypeOK
      <3>3. RunInv' /\ FlightInv' /\ KvInv' /\ EntriesAreTracked' /\ Published'
        <4>1. \A j \in tracked \ {k} : row'[j] = row[j]
          BY <3>2 DEF TypeOK
        <4>. QED
          BY <3>1, <4>1, RowStep
      <3>4. /\ row'[k].used = row[k].used + 1
            /\ row'[k].exceeded = Exceeds(row[k].used + 1, row[k].budget)
            /\ row'[k].budget = row[k].budget
            /\ row'[k].loaded = row[k].loaded
            /\ row'[k].month = row[k].month
            /\ row'[k].base = row[k].base
            /\ row'[k].del = row[k].del
        BY <3>1 DEF TypeOK, Row, Counted
      <3>5. row[k].used + 1 \in Nat /\ row[k].budget \in Nat
        BY DEF TypeOK, Row
      <3>6. RowInv'
        BY <3>1, <3>2, <3>4, <3>5, ExceedsType DEF IInv, RowInv, TypeOK
      <3>7. TrackedAsApplied'
        BY <3>1, <3>2, <3>4 DEF IInv, TrackedAsApplied, Live
      <3>. QED
        BY <3>3, <3>6, <3>7 DEF IInv
    <2>. QED
      BY <2>1, <2>2
  <1>13. CASE CheckMonthRollover
    <2>. DEFINE K == IF month = 0 THEN {} ELSE Live
    <2>1. /\ row' = [k \in Keys |-> IF k \in K THEN Moved(k) ELSE row[k]]
          /\ Touch(K)
          /\ UNCHANGED <<restarts, kv, bucket, ids, runpc, tracked, applied,
                         dirty>>
      BY <1>13 DEF CheckMonthRollover
    <2>2. K \in SUBSET Keys
      BY DEF Live, TypeOK
    <2>3. \A k \in K : /\ row'[k].used = row[k].used
                       /\ row'[k].exceeded = row[k].exceeded
                       /\ row'[k].budget = row[k].budget
                       /\ row'[k].del = row[k].del
                       /\ row'[k].loaded = FALSE
      <3>. TAKE k \in K
      <3>1. k \in Keys /\ row[k] \in Row
        BY <2>2, RowTypes
      <3>2. row'[k] = Moved(k)
        BY <2>1, <3>1
      <3>. QED
        BY <3>1, <3>2 DEF Row, Moved
    <2>4. \A k \in Keys \ K : row'[k] = row[k]
      BY <2>1
    <2>. HIDE DEF K
    <2>5. RunInv' /\ FlightInv' /\ KvInv' /\ EntriesAreTracked' /\ Published'
      <3>1. \A k \in tracked \ K : row'[k] = row[k]
        BY <2>4 DEF TypeOK
      <3>. QED
        BY <2>1, <2>2, <2>3, <3>1, RowStep
    <2>6. RowInv'
      BY <2>1, <2>3, <2>4 DEF IInv, RowInv, TypeOK
    <2>7. TrackedAsApplied'
      BY <2>1, <2>3, <2>4 DEF IInv, TrackedAsApplied, Live
    <2>. QED
      BY <2>5, <2>6, <2>7 DEF IInv
  <1>14. CASE Reconcile
    <2>1. PICK fold \in [Keys -> Budgets \cup {0}] : Reconcile!(fold)
      BY <1>14 DEF Reconcile
    <2>. DEFINE gone    == {k \in Live : fold[k] = 0}
                kept    == {k \in tracked : fold[k] > 0}
                changed == {k \in kept : row[k].del \/ row[k].budget # fold[k]}
                fresh   == {k \in Keys \ tracked : fold[k] > 0}
    <2>2. /\ tracked' = tracked \cup fresh
          /\ dirty' = dirty \cup gone \cup changed
          /\ Touch(gone \cup changed)
          /\ applied' = fold
          /\ UNCHANGED <<restarts, kv, bucket, ids, runpc>>
      BY <2>1
    <2>3. /\ \A k \in gone : row'[k] = [row[k] EXCEPT !.del = TRUE]
          /\ \A k \in changed : row'[k] = Reconciled(k, fold[k])
          /\ \A k \in fresh : row'[k] = NewRow(fold[k], CurrentMonth)
          /\ \A k \in tracked \ (gone \cup changed) : row'[k] = row[k]
      <3>1. /\ gone \subseteq tracked /\ changed \subseteq tracked
            /\ tracked \subseteq Keys /\ fresh \subseteq Keys \ tracked
        BY DEF TypeOK, Live
      <3>2. \A k \in gone : k \notin changed
        BY <2>1
      <3>3. \A k \in Keys :
              row'[k] = CASE k \in gone    -> [row[k] EXCEPT !.del = TRUE]
                          [] k \in changed -> Reconciled(k, fold[k])
                          [] k \in fresh   -> NewRow(fold[k], CurrentMonth)
                          [] OTHER         -> row[k]
        BY <2>1
      <3>. HIDE DEF gone, kept, changed, fresh
      <3>4. \A k \in gone : row'[k] = [row[k] EXCEPT !.del = TRUE]
        BY <3>1, <3>2, <3>3
      <3>5. \A k \in changed : row'[k] = Reconciled(k, fold[k])
        BY <3>1, <3>2, <3>3
      <3>6. \A k \in fresh : row'[k] = NewRow(fold[k], CurrentMonth)
        BY <3>1, <3>3
      <3>7. \A k \in tracked \ (gone \cup changed) : row'[k] = row[k]
        BY <3>1, <3>3
      <3>. QED
        BY <3>4, <3>5, <3>6, <3>7
    <2>4. gone \cup changed \in SUBSET Keys
      BY DEF Live, TypeOK
    <2>5. /\ \A k \in gone : k \in Live /\ fold[k] = 0
          /\ \A k \in Live \ gone : fold[k] > 0
          /\ \A k \in changed : k \in tracked /\ fold[k] > 0
          /\ \A k \in tracked \ changed :
                fold[k] > 0 => ~row[k].del /\ row[k].budget = fold[k]
          /\ \A k \in fresh : k \in Keys \ tracked /\ fold[k] > 0
          /\ \A k \in Keys \ tracked : k \notin fresh => fold[k] = 0
      <3>1. \A k \in Keys : fold[k] \in Nat
        BY <2>1
      <3>. QED
        BY <3>1 DEF Live, TypeOK
    <2>. HIDE DEF gone, kept, changed, fresh
    <2>6. \A k \in gone \cup changed : row[k] \in Row
      BY <2>4, RowTypes
    <2>7. \A k \in gone : /\ row'[k].used = row[k].used
                          /\ row'[k].exceeded = row[k].exceeded
                          /\ row'[k].budget = row[k].budget
                          /\ row'[k].month = row[k].month
                          /\ row'[k].base = row[k].base
                          /\ row'[k].loaded = row[k].loaded
                          /\ row'[k].del = TRUE
      <3>. TAKE k \in gone
      <3>1. row'[k] = [row[k] EXCEPT !.del = TRUE] /\ row[k] \in Row
        BY <2>3, <2>6
      <3>. QED
        BY <3>1 DEF Row
    <2>8. \A k \in changed :
            /\ row'[k].used = row[k].used
            /\ row'[k].exceeded = IF row[k].budget = fold[k]
                                  THEN row[k].exceeded
                                  ELSE Exceeds(row[k].used, fold[k])
            /\ row'[k].budget = fold[k]
            /\ row'[k].month = row[k].month
            /\ row'[k].base = row[k].base
            /\ row'[k].loaded = row[k].loaded
            /\ row'[k].del = FALSE
      <3>. TAKE k \in changed
      <3>1. row'[k] = Reconciled(k, fold[k]) /\ row[k] \in Row
        BY <2>3, <2>6
      <3>. QED
        BY <3>1 DEF Row, Reconciled
    <2>9. \A k \in fresh : /\ row'[k].used = 0
                           /\ row'[k].exceeded = FALSE
                           /\ row'[k].budget = fold[k]
                           /\ row'[k].loaded = FALSE
                           /\ row'[k].del = FALSE
      <3>. TAKE k \in fresh
      <3>1. row'[k] = NewRow(fold[k], CurrentMonth)
        BY <2>3
      <3>. QED
        BY <3>1 DEF NewRow
    <2>10. RunInv' /\ FlightInv' /\ KvInv' /\ EntriesAreTracked' /\ Published'
      <3>. DEFINE K == gone \cup changed
      <3>1. /\ \A k \in tracked \ K : row'[k] = row[k]
            /\ \A k \in K : k \in dirty'
            /\ \A k \in tracked' \ tracked : ~row'[k].loaded
            /\ K \in SUBSET Keys
            /\ Touch(K)
            /\ tracked \subseteq tracked' /\ dirty \subseteq dirty'
        BY <2>2, <2>3, <2>4, <2>9
      <3>. HIDE DEF K
      <3>. QED
        BY <2>2, <3>1, RowStep
    <2>11. RowInv'
      <3>. SUFFICES
             ASSUME NEW k \in tracked'
             PROVE  /\ row'[k].exceeded <=> row'[k].used >= row'[k].budget
                    /\ row'[k].loaded => row'[k].base = row'[k].month
        BY DEF RowInv
      <3>1. CASE k \in gone
        BY <2>7, <2>5, <3>1 DEF IInv, RowInv, Live
      <3>2. CASE k \in changed
        <4>1. row[k].used \in Nat /\ fold[k] \in Nat
          BY <2>1, <2>4, <3>2 DEF TypeOK, Row
        <4>2. Exceeds(row[k].used, fold[k]) <=> row[k].used >= fold[k]
          BY <4>1, ExceedsType
        <4>. QED
          BY <2>8, <2>5, <3>2, <4>2 DEF IInv, RowInv
      <3>3. CASE k \in fresh
        <4>1. fold[k] \in Nat /\ fold[k] > 0
          BY <2>1, <2>5, <3>3
        <4>2. ~(0 >= fold[k])
          BY <4>1
        <4>. QED
          BY <2>9, <3>3, <4>2
      <3>4. CASE k \in tracked \ (gone \cup changed)
        BY <2>3, <3>4 DEF IInv, RowInv
      <3>. QED
        BY <2>2, <3>1, <3>2, <3>3, <3>4
    <2>12. TrackedAsApplied'
      <3>. SUFFICES ASSUME NEW k \in Keys
                    PROVE  /\ k \in Live' <=> fold[k] > 0
                           /\ k \in Live' => row'[k].budget = fold[k]
                           /\ k \in tracked' \ Live' => k \in dirty'
        BY <2>2 DEF TrackedAsApplied
      <3>0. k \in Live' <=> k \in tracked' /\ ~row'[k].del
        BY DEF Live
      <3>1. CASE k \in gone
        BY <2>2, <2>7, <2>5, <3>0, <3>1
      <3>2. CASE k \in changed
        BY <2>2, <2>8, <2>5, <3>0, <3>2
      <3>3. CASE k \in fresh
        BY <2>2, <2>9, <2>5, <3>0, <3>3
      <3>4. CASE k \in tracked \ (gone \cup changed)
        BY <2>2, <2>3, <2>5, <3>0, <3>4 DEF IInv, TrackedAsApplied, Live
      <3>5. CASE k \notin tracked \cup fresh
        BY <2>2, <2>5, <3>0, <3>5
      <3>. QED
        BY <3>1, <3>2, <3>3, <3>4, <3>5
    <2>. QED
      BY <2>10, <2>11, <2>12 DEF IInv
  <1>15. ASSUME NEW g \in Fetchers, NEW k \in Keys, BaselineStore(g, k)
         PROVE  IInv'
    <2>. DEFINE answer == reading[<<g, k>>]
    <2>1. answer \in Reading
      BY <1>15 DEF BaselineStore, TypeOK
    <2>2. UNCHANGED <<restarts, kv, bucket, ids, runpc, tracked, applied>>
      BY <1>15 DEF BaselineStore
    <2>3. CASE ~Accepts(k, answer)
      <3>1. UNCHANGED <<row, dirty, flight>>
        BY <1>15, <2>3 DEF BaselineStore
      <3>2. RunInv'
        BY <2>2, <3>1 DEF IInv, RunInv
      <3>. QED
        BY <2>2, <3>1, <3>2, QuietStep
    <2>4. CASE Accepts(k, answer)
      <3>. DEFINE K == IF Changed(k, answer) THEN {k} ELSE {}
      <3>1. /\ row' = [row EXCEPT ![k] = Rebased(k, answer)]
            /\ Changed(k, answer) => k \in dirty'
            /\ dirty \subseteq dirty'
            /\ Touch(K)
        BY <1>15, <2>4 DEF BaselineStore
      <3>2. k \in tracked /\ ~row[k].del /\ row[k].month = answer.month
        BY <2>4 DEF Accepts, Live
      <3>3. \A j \in Keys \ {k} : row'[j] = row[j]
        BY <3>1 DEF TypeOK
      <3>4. /\ row'[k].used = answer.used
            /\ row'[k].base = answer.month
            /\ row'[k].exceeded = Exceeds(answer.used, row[k].budget)
            /\ row'[k].loaded = TRUE
            /\ row'[k].budget = row[k].budget
            /\ row'[k].month = row[k].month
            /\ row'[k].del = row[k].del
            /\ row'[k] \in Row
        <4>1. row[k] \in Row /\ Rebased(k, answer) \in Row
          BY <2>1, RowTypes DEF TypeOK
        <4>2. row'[k] = Rebased(k, answer)
          BY <3>1 DEF TypeOK
        <4>3. PICK x \in Row : x = row[k]
          BY <4>1
        <4>. HIDE DEF answer
        <4>. QED
          BY <4>1, <4>2, <4>3 DEF Rebased, Row
      <3>5. answer.used \in Nat /\ row[k].budget \in Nat
        BY <2>1 DEF TypeOK, Row, Reading
      <3>6. row'[k].exceeded <=> row'[k].used >= row'[k].budget
        BY <3>4, <3>5, ExceedsType
      <3>. HIDE DEF answer
      <3>7. ~Changed(k, answer) => row'[k] = row[k]
        <4>. SUFFICES ASSUME ~Changed(k, answer) PROVE row'[k] = row[k]
          OBVIOUS
        <4>1. row[k].used = answer.used /\ row[k].loaded
          BY DEF Changed
        <4>2. row[k].base = row[k].month
          BY <3>2, <4>1 DEF IInv, RowInv
        <4>3. row'[k].exceeded = row[k].exceeded
          BY <3>2, <3>4, <3>6, <4>1 DEF IInv, RowInv, TypeOK, Row
        <4>4. row[k] \in Row
          BY <3>2, RowTypes DEF TypeOK
        <4>5. row'[k].loaded = row[k].loaded
          BY <3>4, <4>1, <4>4 DEF Row
        <4>6. /\ row'[k].used = row[k].used
              /\ row'[k].base = row[k].base
          BY <3>2, <3>4, <4>1, <4>2
        <4>. QED
          BY <3>4, <4>3, <4>4, <4>5, <4>6 DEF Row
      <3>8. RunInv' /\ FlightInv' /\ KvInv' /\ EntriesAreTracked' /\ Published'
        <4>1. /\ \A j \in tracked \ K : row'[j] = row[j]
              /\ \A j \in K : j \in dirty'
              /\ K \in SUBSET Keys
          BY <3>1, <3>3, <3>7 DEF TypeOK
        <4>. HIDE DEF K
        <4>. QED
          BY <2>2, <3>1, <4>1, RowStep
      <3>9. RowInv'
        <4>1. RowInv /\ tracked' = tracked /\ tracked \subseteq Keys
          BY <2>2 DEF IInv, TypeOK
        <4>2. row'[k].loaded => row'[k].base = row'[k].month
          BY <3>2, <3>4
        <4>. QED
          BY <3>3, <3>6, <4>1, <4>2 DEF RowInv
      <3>10. TrackedAsApplied'
        BY <2>2, <3>1, <3>3, <3>4 DEF IInv, TrackedAsApplied, Live
      <3>. QED
        BY <3>8, <3>9, <3>10 DEF IInv
    <2>. QED
      BY <2>3, <2>4
  <1>. QED
    BY <1>1, <1>2, <1>3, <1>4, <1>5, <1>6, <1>7, <1>8, <1>9, <1>10, <1>11,
       <1>12, <1>13, <1>14, <1>15
       DEF Next, RunStep, Flush

-----------------------------------------------------------------------------
(***************************************************************************)
(* The safety properties.                                                  *)
(***************************************************************************)

LEMMA Invariance == Spec => [](TypeOK /\ IInv)
  <1>1. Init => TypeOK /\ IInv
    BY TypeInit, InvInit
  <1>2. TypeOK /\ IInv /\ [Next]_vars => (TypeOK /\ IInv)'
    BY TypeStep, InvStep
  <1>. QED
    BY <1>1, <1>2, PTL DEF Spec

\* While the BUDGETS bucket is not destroyed, no change of a row is forgotten:
\* flushOne clears the dirty mark only of what BUDGETS holds.
THEOREM NothingForgotten ==
    ASSUME "bucket" \notin Faults
    PROVE  Spec => []CleanIsPublished
  <1>1. IInv => CleanIsPublished
    BY DEF IInv, Published
  <1>. QED
    BY <1>1, Invariance, PTL

\* The rows are the keys budgeted when KEYS was last looked at, and those still
\* to be deleted, whatever flushOne deletes meanwhile.
THEOREM RowsFollowKeys == Spec => []TrackedAsApplied
  <1>1. IInv => TrackedAsApplied
    BY DEF IInv
  <1>. QED
    BY <1>1, Invariance, PTL

\* Whatever races the month rollover, BUDGETS never shows a total that was
\* counted up from the baseline of another month than its label's, and every
\* verdict is the one of the numbers it is published with.
THEOREM PublishedEntries == Spec => []EntriesAreSound
  <1>1. IInv => EntriesAreSound
    BY DEF IInv, KvInv, Sound, EntriesAreSound
  <1>. QED
    BY <1>1, Invariance, PTL

\* Until the process is restarted every entry of BUDGETS has a row, so that it
\* can still be deleted.
THEOREM NoOrphans == Spec => []EntriesAreTracked
  <1>1. IInv => EntriesAreTracked
    BY DEF IInv
  <1>. QED
    BY <1>1, Invariance, PTL

=============================================================================
