----------------------------- MODULE BudgetLedger -----------------------------
(***************************************************************************)
(* The budget ledger of the harvester (internal/harvester/budget.go): the  *)
(* rows it keeps for the budgeted keys, and the goroutines that work on    *)
(* them: the KEYS watcher, the harvester's flush goroutine (AddUsage), the *)
(* month rollover ticker and Run's own loop, which alone writes BUDGETS.   *)
(*                                                                         *)
(* Every usage row counts one token.  Months are numbers; 0 stands for the *)
(* empty month string the ledger starts with.                              *)
(***************************************************************************)
EXTENDS Naturals, FiniteSets

CONSTANTS
    Keys,        \* the API key ids
    Hashes,      \* the keys of the KEYS bucket
    IdOf,        \* the id a hash's entry carries; a rotated key has two hashes
    Budgets,     \* the budgets an entry may carry
    NoKey,       \* no key
    NoEntry,     \* an absent entry of BUDGETS
    NoReading,   \* no answer of the sink waits to be stored
    LastMonth,   \* bound: months that pass
    MaxUsage,    \* bound: usage rows that are inserted
    MaxEdits,    \* bound: changes of KEYS
    MaxRestarts, \* bound: restarts of the process
    Faults       \* what the environment of this instance may do

ASSUME BudgetLedgerAssumption ==
    /\ IdOf \in [Hashes -> Keys]
    /\ Budgets \subseteq Nat \ {0}
    /\ NoKey \notin Keys
    /\ LastMonth \in Nat \ {0}
    /\ MaxUsage \in Nat
    /\ MaxEdits \in Nat
    /\ MaxRestarts \in Nat
    /\ Faults \subseteq {"kv",      \* a call to BUDGETS fails or times out
                         "sink",    \* a call to the sink fails or times out
                         "bucket"}  \* the BUDGETS bucket is destroyed

VARIABLES
    clock,       \* the current month
    stored,      \* usage rows in the sink, per key and month
    unreported,  \* rows inserted for which AddUsage has not been called yet
    inserts,     \* bound: rows inserted so far
    keys,        \* KEYS: the budget of a hash, 0 without entry or budget
    edits,       \* bound: changes made so far
    restarts,    \* bound: restarts so far
    kv,          \* BUDGETS: the entry of a key
    bucket,      \* whether the BUDGETS bucket exists
    applied,     \* the fold of KEYS that reconcileKeys saw last
    month,       \* l.month
    tracked,     \* the keys of l.entries
    row,         \* the rows of l.entries
    dirty,       \* l.dirty
    runpc,       \* where Run's goroutine is
    ids,         \* flushTick's dirtyIDs not flushed yet
    pending,     \* flushTick's pending
    flight,      \* what flushOne has snapshotted and is writing
    force,       \* the forceDirty of Run's baseline pass
    todo,        \* baselines still to fetch, per goroutine that fetches
    reading      \* month-to-date answers not stored yet

envVars   == <<clock, stored, unreported, inserts, keys, edits, restarts>>
kvVars    == <<kv, bucket>>
rowVars   == <<applied, month, tracked, row, dirty>>
runVars   == <<runpc, ids, pending, force>>
fetchVars == <<todo, reading>>
vars == <<envVars, kvVars, rowVars, runVars, flight, fetchVars>>

Months   == 1..LastMonth
Fetchers == {"run", "rollover"}

\* cpkv.BudgetEntry.  base is a ghost: the month whose baseline used rests on.
Entry == [used : Nat, budget : Nat, exceeded : BOOLEAN, month : Months,
          base : 0..LastMonth]

\* ledgerRow, its version counter left out: only flushOne reads it, to learn
\* whether the row has changed since its snapshot (flight.touched).
Row == [used : Nat, budget : Nat, exceeded : BOOLEAN, month : Months,
        base : 0..LastMonth, loaded : BOOLEAN, del : BOOLEAN]

\* What exceeded is recomputed to, wherever used or budget changes.
Exceeds(used, budget) == used >= budget

NewRow(b, m) == [used |-> 0, budget |-> b, exceeded |-> FALSE, month |-> m,
                 base |-> 0, loaded |-> FALSE, del |-> FALSE]
Blank == NewRow(0, 1)

EntryOf(k) == [used |-> row[k].used, budget |-> row[k].budget,
               exceeded |-> row[k].exceeded, month |-> row[k].month,
               base |-> row[k].base]

Reading == [month : Months, used : Nat]

Flight == [phase : {"idle", "write", "finish"}, key : Keys \cup {NoKey},
           del : BOOLEAN, entry : Entry \cup {NoEntry}, touched : BOOLEAN]

NoFlight == [phase |-> "idle", key |-> NoKey, del |-> FALSE,
             entry |-> NoEntry, touched |-> FALSE]

TypeOK ==
    /\ clock \in Months
    /\ stored \in [Keys -> [Months -> Nat]]
    /\ unreported \in [Keys -> Nat]
    /\ inserts \in Nat
    /\ keys \in [Hashes -> Budgets \cup {0}]
    /\ edits \in Nat
    /\ restarts \in Nat
    /\ kv \in [Keys -> Entry \cup {NoEntry}]
    /\ bucket \in BOOLEAN
    /\ applied \in [Keys -> Budgets \cup {0}]
    /\ month \in 0..LastMonth
    /\ tracked \in SUBSET Keys
    /\ row \in [Keys -> Row]
    /\ dirty \in SUBSET Keys
    /\ runpc \in {"idle", "flush", "load"}
    /\ ids \in SUBSET Keys
    /\ pending \in SUBSET Keys
    /\ flight \in Flight
    /\ force \in BOOLEAN
    /\ todo \in [Fetchers -> SUBSET Keys]
    /\ reading \in [Fetchers \X Keys -> Reading \cup {NoReading}]

Init ==
    /\ clock = 1
    /\ stored = [k \in Keys |-> [m \in Months |-> 0]]
    /\ inserts = 0
    /\ keys \in [Hashes -> Budgets \cup {0}]
    /\ edits = 0
    /\ restarts = 0
    /\ kv = [k \in Keys |-> NoEntry]
    /\ bucket = TRUE
    /\ unreported = [k \in Keys |-> 0]
    /\ applied = [k \in Keys |-> 0]
    /\ month = 0
    /\ tracked = {}
    /\ row = [k \in Keys |-> Blank]
    /\ dirty = {}
    /\ runpc = "idle"
    /\ ids = {}
    /\ pending = {}
    /\ flight = NoFlight
    /\ force = FALSE
    /\ todo = [g \in Fetchers |-> {}]
    /\ reading = [f \in Fetchers \X Keys |-> NoReading]

-----------------------------------------------------------------------------
(***************************************************************************)
(* The environment: time, the harvester's inserts, the control plane's     *)
(* changes of KEYS, operators.                                             *)
(***************************************************************************)

Tick ==
    /\ clock < LastMonth
    /\ clock' = clock + 1
    /\ UNCHANGED <<stored, unreported, inserts, keys, edits, restarts, kvVars,
                   rowVars, runVars, flight, fetchVars>>

\* doFlush inserts a row, perhaps of an earlier month, and will report it; an
\* insert that times out may have landed all the same and is not reported.
Insert(k, m) ==
    /\ inserts < MaxUsage
    /\ m <= clock
    /\ stored' = [stored EXCEPT ![k][m] = @ + 1]
    /\ \/ unreported' = [unreported EXCEPT ![k] = @ + 1]
       \/ "sink" \in Faults /\ UNCHANGED unreported
    /\ inserts' = inserts + 1
    /\ UNCHANGED <<clock, keys, edits, restarts, kvVars, rowVars, runVars,
                   flight, fetchVars>>

\* The control plane puts or deletes an entry of KEYS.
EditKeys(h, b) ==
    /\ edits < MaxEdits
    /\ keys[h] # b
    /\ keys' = [keys EXCEPT ![h] = b]
    /\ edits' = edits + 1
    /\ UNCHANGED <<clock, stored, unreported, inserts, restarts, kvVars,
                   rowVars, runVars, flight, fetchVars>>

BucketLost ==
    /\ "bucket" \in Faults
    /\ bucket
    /\ bucket' = FALSE
    /\ kv' = [k \in Keys |-> NoEntry]
    /\ UNCHANGED <<envVars, rowVars, runVars, flight, fetchVars>>

Stored == kv' = [kv EXCEPT ![flight.key] = flight.entry]

\* The next process ensures the bucket and starts from an empty ledger.  The
\* last write of the old one may still land.
Restart ==
    /\ restarts < MaxRestarts
    /\ restarts' = restarts + 1
    /\ bucket' = TRUE
    /\ UNCHANGED kv \/ (flight.phase = "write" /\ bucket /\ Stored)
    /\ UNCHANGED <<clock, stored, inserts, keys, edits>>
    /\ unreported' = [k \in Keys |-> 0]
    /\ applied' = [k \in Keys |-> 0]
    /\ month' = 0
    /\ tracked' = {}
    /\ row' = [k \in Keys |-> Blank]
    /\ dirty' = {}
    /\ runpc' = "idle"
    /\ ids' = {}
    /\ pending' = {}
    /\ flight' = NoFlight
    /\ force' = FALSE
    /\ todo' = [g \in Fetchers |-> {}]
    /\ reading' = [f \in Fetchers \X Keys |-> NoReading]

-----------------------------------------------------------------------------
(***************************************************************************)
(* Mutations of the rows, each one critical section of l.mu.               *)
(***************************************************************************)

\* The version of the rows in K is bumped.
Touch(K) ==
    flight' = IF flight.key \in K THEN [flight EXCEPT !.touched = TRUE]
              ELSE flight

Live    == {k \in tracked : ~row[k].del}
Missing == {k \in Live : ~row[k].loaded}

\* Mutant: the budget of any one of the hashes is taken.
IsFoldAny(k, b) ==
    IF \E h \in Hashes : IdOf[h] = k
    THEN \E h \in Hashes : IdOf[h] = k /\ keys[h] = b ELSE b = 0

\* b is the budget of key k in a snapshot of KEYS: the largest of its hashes'.
IsFold(k, b) ==
    /\ b = 0 \/ \E h \in Hashes : IdOf[h] = k /\ keys[h] = b
    /\ \A h \in Hashes : IdOf[h] = k => keys[h] <= b

\* Mutant: the month is only set by the ticker.
CurrentMonthUnset == month

CurrentMonth == IF month = 0 THEN clock ELSE month

\* Mutant: a budget change keeps the old verdict.
ReconciledKeepsVerdict(k, b) ==
    [row[k] EXCEPT !.del = FALSE, !.budget = b]

Reconciled(k, b) ==
    [row[k] EXCEPT !.del = FALSE, !.budget = b,
                   !.exceeded = IF row[k].budget = b THEN @
                                ELSE Exceeds(row[k].used, b)]

\* applyKeysSnapshot and reconcileKeys, run by the KEYS watcher.
Reconcile ==
    \E fold \in [Keys -> Budgets \cup {0}] :
        /\ \A k \in Keys : IsFold(k, fold[k])
        /\ fold # applied
        /\ LET gone    == {k \in Live : fold[k] = 0}
               kept    == {k \in tracked : fold[k] > 0}
               changed == {k \in kept : row[k].del \/ row[k].budget # fold[k]}
               fresh   == {k \in Keys \ tracked : fold[k] > 0}
           IN  /\ month' = IF fresh = {} THEN month ELSE CurrentMonth
               /\ tracked' = tracked \cup fresh
               /\ row' = [k \in Keys |->
                            CASE k \in gone    -> [row[k] EXCEPT !.del = TRUE]
                              [] k \in changed -> Reconciled(k, fold[k])
                              [] k \in fresh   -> NewRow(fold[k], CurrentMonth)
                              [] OTHER         -> row[k]]
               /\ dirty' = dirty \cup gone \cup changed
               /\ Touch(gone \cup changed)
        /\ applied' = fold
        /\ UNCHANGED <<envVars, kvVars, runVars, fetchVars>>

Counted(k) ==
    [row[k] EXCEPT !.used = @ + 1,
                   !.exceeded = Exceeds(row[k].used + 1, row[k].budget)]

\* AddUsage, on the harvester's flush goroutine: it never looks at the month
\* of the usage row.
AddUsage(k) ==
    /\ unreported[k] > 0
    /\ unreported' = [unreported EXCEPT ![k] = @ - 1]
    /\ IF k \in Live
       THEN /\ row' = [row EXCEPT ![k] = Counted(k)]
            /\ dirty' = dirty \cup {k}
            /\ Touch({k})
       ELSE UNCHANGED <<row, dirty, flight>>
    /\ UNCHANGED <<clock, stored, inserts, keys, edits, restarts, kvVars,
                   applied, month, tracked, runVars, fetchVars>>

\* No baseline pass of goroutine g is under way.
Idle(g) == todo[g] = {} /\ \A k \in Keys : reading[<<g, k>>] = NoReading

\* Mutant: the row is moved to the new month as if its usage belonged there.
MovedWithUsage(k) == [row[k] EXCEPT !.month = clock]

Moved(k) == [row[k] EXCEPT !.month = clock, !.loaded = FALSE]

\* checkMonthRollover, on its own ticker.
CheckMonthRollover ==
    /\ Idle("rollover")
    /\ month # clock
    /\ month' = clock
    /\ LET moved == IF month = 0 THEN {} ELSE Live
       IN  /\ row' = [k \in Keys |->
                        IF k \in moved THEN Moved(k) ELSE row[k]]
           /\ Touch(moved)
           /\ todo' = [todo EXCEPT !["rollover"] = moved]
    /\ UNCHANGED <<envVars, kvVars, applied, tracked, dirty, runVars, reading>>

-----------------------------------------------------------------------------
(***************************************************************************)
(* Baselines: loadBaselines and loadBaseline.  The month of the row and    *)
(* the sink's answer are read in one step: a row that moves to another     *)
(* month in between has its answer discarded anyway.                       *)
(***************************************************************************)

Fetched(g, k) == todo' = [todo EXCEPT ![g] = @ \ {k}]

BaselineSkipped(g, k) ==
    /\ k \in todo[g] \ Live
    /\ Fetched(g, k)
    /\ UNCHANGED <<envVars, kvVars, rowVars, runVars, flight, reading>>

BaselineRead(g, k) ==
    /\ k \in todo[g] \cap Live
    /\ Fetched(g, k)
    /\ reading' = [reading EXCEPT ![<<g, k>>] =
                     [month |-> row[k].month,
                      used  |-> stored[k][row[k].month]]]
    /\ UNCHANGED <<envVars, kvVars, rowVars, runVars, flight>>

BaselineFails(g, k) ==
    /\ "sink" \in Faults
    /\ k \in todo[g] \cap Live
    /\ Fetched(g, k)
    /\ UNCHANGED <<envVars, kvVars, rowVars, runVars, flight, reading>>

\* Mutant: the answer is stored whatever month the row has moved to.
AcceptsAnyMonth(k, answer) == k \in Live

Accepts(k, answer) == k \in Live /\ row[k].month = answer.month

Rebased(k, answer) ==
    [row[k] EXCEPT !.used = answer.used, !.base = answer.month,
                   !.exceeded = Exceeds(answer.used, row[k].budget),
                   !.loaded = TRUE]

\* Mutant: a re-baseline that corrects the total does not count as a change.
ChangedFirst(k, answer) == ~row[k].loaded

Changed(k, answer) == row[k].used # answer.used \/ ~row[k].loaded

\* The second critical section of loadBaseline.
BaselineStore(g, k) ==
    /\ reading[<<g, k>>] # NoReading
    /\ reading' = [reading EXCEPT ![<<g, k>>] = NoReading]
    /\ LET answer  == reading[<<g, k>>]
           changed == Changed(k, answer)
           forced  == g = "rollover" \/ force
       IN  IF Accepts(k, answer)
           THEN /\ row' = [row EXCEPT ![k] = Rebased(k, answer)]
                /\ dirty' = IF changed \/ forced THEN dirty \cup {k} ELSE dirty
                /\ Touch(IF changed THEN {k} ELSE {})
           ELSE UNCHANGED <<row, dirty, flight>>
    /\ UNCHANGED <<envVars, kvVars, applied, month, tracked, runVars, todo>>

-----------------------------------------------------------------------------
(***************************************************************************)
(* Run's goroutine: flushTick with flushOne, and rebaselineAll.            *)
(***************************************************************************)

FlushTick ==
    /\ runpc = "idle"
    /\ dirty \cup Missing # {}
    /\ runpc' = "flush"
    /\ ids' = dirty
    /\ pending' = Missing
    /\ UNCHANGED <<envVars, kvVars, rowVars, force, flight, fetchVars>>

Flushable(k) == runpc = "flush" /\ flight = NoFlight /\ k \in ids

\* Mutant: a row is published before its baseline has landed.
ReadyAlways(k) == TRUE

\* flushOne has something to write: a row to delete, or a complete one.
Ready(k) == row[k].del \/ row[k].loaded

\* A row that must wait for its baseline stays dirty; an id without a row
\* would be forgotten.
FlushSkips(k) ==
    /\ Flushable(k)
    /\ k \in tracked => ~Ready(k)
    /\ ids' = ids \ {k}
    /\ dirty' = IF k \in tracked THEN dirty ELSE dirty \ {k}
    /\ UNCHANGED <<envVars, kvVars, applied, month, tracked, row, runpc,
                   pending, force, flight, fetchVars>>

\* The first critical section of flushOne.
FlushStart(k) ==
    /\ Flushable(k)
    /\ k \in tracked
    /\ Ready(k)
    /\ ids' = ids \ {k}
    /\ flight' = [phase |-> "write", key |-> k, del |-> row[k].del,
                  entry |-> IF row[k].del THEN NoEntry ELSE EntryOf(k),
                  touched |-> FALSE]
    /\ UNCHANGED <<envVars, kvVars, rowVars, runpc, pending, force, fetchVars>>

\* The Put or Delete succeeds.
WriteOk ==
    /\ flight.phase = "write"
    /\ bucket
    /\ Stored
    /\ flight' = [flight EXCEPT !.phase = "finish"]
    /\ UNCHANGED <<envVars, bucket, rowVars, runVars, fetchVars>>

\* Mutant: every failed deletion is taken for done.
WriteFailsForgets ==
    /\ flight.phase = "write"
    /\ "kv" \in Faults \/ ~bucket
    /\ UNCHANGED kv \/ (bucket /\ Stored)
    /\ flight' = IF flight.del THEN [flight EXCEPT !.phase = "finish"]
                 ELSE NoFlight
    /\ UNCHANGED <<envVars, bucket, rowVars, runVars, fetchVars>>

\* It fails, though it may have been stored; the key stays dirty.
WriteFails ==
    /\ flight.phase = "write"
    /\ "kv" \in Faults \/ ~bucket
    /\ UNCHANGED kv \/ (bucket /\ Stored)
    /\ flight' = NoFlight
    /\ UNCHANGED <<envVars, bucket, rowVars, runVars, fetchVars>>

\* It reports that there is no bucket: flushOne tries to create it again, and
\* takes a deletion for done.
WriteNoBucket ==
    /\ flight.phase = "write"
    /\ ~bucket
    /\ bucket' \in BOOLEAN
    /\ flight' = IF flight.del THEN [flight EXCEPT !.phase = "finish"]
                 ELSE NoFlight
    /\ UNCHANGED <<envVars, kv, rowVars, runVars, fetchVars>>

\* Mutant: flushOne does not compare versions.
UntouchedUnchecked == TRUE

Untouched == ~flight.touched

\* The last critical section of flushOne.
FlushFinish ==
    /\ flight.phase = "finish"
    /\ flight' = NoFlight
    /\ dirty' = IF Untouched THEN dirty \ {flight.key} ELSE dirty
    /\ LET untrack == Untouched /\ flight.del
       IN  /\ tracked' = IF untrack THEN tracked \ {flight.key} ELSE tracked
           /\ row' = IF untrack THEN [row EXCEPT ![flight.key] = Blank]
                     ELSE row
    /\ UNCHANGED <<envVars, kvVars, applied, month, runVars, fetchVars>>

\* flushTick goes on with the baselines that were missing when it started.
FlushDone ==
    /\ runpc = "flush"
    /\ ids = {}
    /\ flight = NoFlight
    /\ runpc' = "load"
    /\ force' = TRUE
    /\ todo' = [todo EXCEPT !["run"] = pending]
    /\ pending' = {}
    /\ UNCHANGED <<envVars, kvVars, rowVars, ids, flight, reading>>

RebaselineAll ==
    /\ runpc = "idle"
    /\ Live \ Missing # {}
    /\ runpc' = "load"
    /\ force' = FALSE
    /\ todo' = [todo EXCEPT !["run"] = Live \ Missing]
    /\ UNCHANGED <<envVars, kvVars, rowVars, ids, pending, flight, reading>>

LoadDone ==
    /\ runpc = "load"
    /\ Idle("run")
    /\ runpc' = "idle"
    /\ force' = FALSE
    /\ UNCHANGED <<envVars, kvVars, rowVars, ids, pending, flight, fetchVars>>

-----------------------------------------------------------------------------

Flush(k) == FlushSkips(k) \/ FlushStart(k)

RunStep ==
    \/ FlushTick \/ (\E k \in Keys : Flush(k)) \/ FlushFinish \/ FlushDone
    \/ LoadDone

Write == WriteOk \/ WriteFails \/ WriteNoBucket

Baseline(g, k) ==
    BaselineSkipped(g, k) \/ BaselineRead(g, k) \/ BaselineFails(g, k)

Next ==
    \/ Tick \/ BucketLost \/ Restart \/ Reconcile \/ CheckMonthRollover
    \/ RunStep \/ Write \/ RebaselineAll
    \/ \E h \in Hashes, b \in Budgets \cup {0} : EditKeys(h, b)
    \/ \E k \in Keys :
          \/ \E m \in Months : Insert(k, m)
          \/ AddUsage(k)
          \/ \E g \in Fetchers : Baseline(g, k) \/ BaselineStore(g, k)

Spec == Init /\ [][Next]_vars

(***************************************************************************)
(* Fairness: the ledger's goroutines run and their tickers tick (weak).    *)
(* Of the calls repeated for ever, some succeed (strong): a write to       *)
(* BUDGETS, a query of the sink; and Run's select takes each of its two    *)
(* tickers now and then although the other keeps firing.  The environment  *)
(* and crashes owe nothing.                                                *)
(***************************************************************************)
Fairness ==
    /\ WF_vars(Reconcile)
    /\ WF_vars(CheckMonthRollover)
    /\ WF_vars(RunStep)
    /\ WF_vars(Write)
    /\ SF_vars(FlushTick)
    /\ SF_vars(RebaselineAll)
    /\ \A k \in Keys :
          /\ WF_vars(AddUsage(k))
          /\ SF_vars(WriteOk /\ flight.key = k)
          /\ \A g \in Fetchers :
                /\ WF_vars(Baseline(g, k))
                /\ SF_vars(BaselineRead(g, k))
                /\ WF_vars(BaselineStore(g, k))

FairSpec == Spec /\ Fairness

-----------------------------------------------------------------------------
(***************************************************************************)
(* Safety.                                                                 *)
(***************************************************************************)

\* A complete row that is not marked dirty is what BUDGETS holds: whatever
\* raced the Put (AddUsage, KEYS, a rollover, a baseline), no change is ever
\* forgotten (flushOne's version check, I1).  Not if the bucket is destroyed.
CleanIsPublished ==
    \A k \in Live \ (Missing \cup dirty) : kv[k] = EntryOf(k)

\* The rows are the keys that carried a budget when KEYS was last looked at,
\* and those still to be deleted: a key that is resurrected while its entry is
\* being deleted stays tracked (C1).
TrackedAsApplied ==
    \A k \in Keys :
        /\ k \in Live <=> applied[k] > 0
        /\ k \in Live => row[k].budget = applied[k]
        /\ k \in tracked \ Live => k \in dirty

\* What BUDGETS shows fits together: a published total was counted up from a
\* baseline of the month it is labelled with, never from another month's, and
\* the verdict gateways act on is the one of the numbers next to it.  (What
\* AddUsage added since may be late usage of an earlier month: it does not look
\* at the row's time.)
EntriesAreSound ==
    \A k \in Keys : kv[k] # NoEntry =>
        /\ kv[k].month = kv[k].base
        /\ kv[k].exceeded <=> kv[k].used >= kv[k].budget

\* An entry of BUDGETS always has a row behind it, so it can still be deleted,
\* as long as the process is not restarted.
EntriesAreTracked ==
    \A k \in Keys : restarts = 0 /\ kv[k] # NoEntry => k \in tracked

(***************************************************************************)
(* Liveness, under FairSpec.                                               *)
(***************************************************************************)

\* A key keeps its budget as long as one of its hashes carries one, through
\* rotations and disagreeing entries (applyKeysSnapshot, binding ruling 1).
BudgetedStaysLive ==
    \A h \in Hashes : <>[](keys[h] > 0) => <>[](IdOf[h] \in Live)

\* What BUDGETS should say of key k.
Exact(k) ==
    \E b \in Budgets \cup {0} :
        /\ IsFold(k, b)
        /\ IF b = 0 THEN kv[k] = NoEntry
           ELSE kv[k] = [used |-> stored[k][clock], budget |-> b,
                         exceeded |-> stored[k][clock] >= b,
                         month |-> clock, base |-> clock]

\* What is known not to heal by itself: a row that was given its budget back
\* after a rollover, under the old month's label, and an entry whose budget
\* was removed while no ledger was running.
Stranded(k) ==
    \/ k \in Live /\ row[k].month # month
    \/ restarts > 0 /\ k \notin tracked

\* Once usage, KEYS and the month have come to rest, BUDGETS converges to the
\* sink's truth, whatever AddUsage counted twice or missed.
Converges == \A k \in Keys : <>[](Exact(k) \/ Stranded(k))

=============================================================================
