------------------------------- MODULE Harvester -------------------------------
(***************************************************************************)
(* The harvester's batcher (internal/harvester/harvester.go) between the   *)
(* METERING consumer and the usage tables of ClickHouse (chsink.go): which *)
(* messages it holds, the one flush in flight, the heartbeat that keeps    *)
(* them from being redelivered, and its shutdown.                          *)
(*                                                                         *)
(* A tick of the clock is ten seconds: the flush ticker (2 s) and the      *)
(* redelivery of a nak'd message (5 s) always come within one.             *)
(***************************************************************************)
EXTENDS Naturals, Sequences, FiniteSets, SequencesExt

CONSTANTS
    Msgs,           \* the messages of METERING
    NoReq,          \* the ReqID of an event that has none or cannot be decoded
    ReqOf,          \* the request an event is about
    TimeOf,         \* the timestamp it carries
    MaxAckPending,  \* messages a consumer may leave unanswered
    Faults,         \* what may go wrong in this instance
    MaxFaults       \* bound: how often

AckWait == 6        \* ticks in ackWait
Heartbeat == 2      \* ticks in heldInProgressInterval
InsertTimeout == 3  \* ticks in flushInsertTimeout
FinalTimeout == 1   \* ticks in finalFlushTimeout

ASSUME HarvesterAssumption ==
    /\ IsFiniteSet(Msgs)
    /\ MaxAckPending \in Nat \ {0}
    /\ MaxFaults \in Nat
    /\ Faults \subseteq {"insert",  \* InsertBatch fails, stored or not
                         "answer",  \* an Ack, Nak, Term or InProgress is lost
                         "crash",   \* the process ends
                         "stop"}    \* the process is asked to end

VARIABLES
    status,     \* the consumer's view of a message
    age,        \* ticks since a pending message was last in progress
    phase,      \* where Run is
    buffer,     \* what Consume was delivered and handleMsg has not seen yet
    held,       \* h.held
    inFlight,   \* h.inFlight
    flush,      \* what the flush goroutine, or finalFlush, does
    acks,       \* the items of inFlight it has answered
    beat,       \* ticks since the last heartbeat
    busy,       \* ticks since the insert began
    unanswered, \* taken by handleMsg, and not yet answered
    rows,       \* usage_events after merging: the set of distinct rows
    inserts,    \* usage_hourly: how often an event was inserted
    reports,    \* how often an event was passed to onRow
    left        \* bound: the faults that may still happen

server == <<status, age>>
tables == <<rows, inserts, reports>>
process == <<phase, buffer, held, inFlight, flush, acks, unanswered>>
clocks == <<beat, busy>>
vars == <<server, process, clocks, tables, left>>

\* A row's identity: the ORDER BY of usage_events, the rest being equal.
EventOf(m) == <<ReqOf[m], TimeOf[m]>>
Events == {EventOf(m) : m \in Msgs}
Good == {m \in Msgs : ReqOf[m] # NoReq}
Copies(e) == {m \in Msgs : EventOf(m) = e}

TypeOK ==
    /\ status \in [Msgs -> {"ready", "pending", "acked", "termed"}]
    /\ age \in [Msgs -> 0..AckWait]
    /\ phase \in {"running", "waiting", "final", "exited", "down"}
    /\ buffer \in Seq(Msgs) /\ held \in Seq(Msgs) /\ inFlight \in Seq(Msgs)
    /\ flush \in {"none", "inserting", "acking"}
    /\ acks \in 0..Len(inFlight)
    /\ beat \in 0..Heartbeat
    /\ busy \in 0..InsertTimeout
    /\ unanswered \subseteq Msgs
    /\ rows \subseteq Events
    /\ inserts \in [Events -> Nat]
    /\ reports \in [Events -> Nat]
    /\ left \in 0..MaxFaults

Init ==
    /\ status = [m \in Msgs |-> "ready"]
    /\ age = [m \in Msgs |-> 0]
    /\ phase = "running"
    /\ buffer = << >> /\ held = << >> /\ inFlight = << >>
    /\ flush = "none" /\ acks = 0
    /\ beat = 0 /\ busy = 0
    /\ unanswered = {}
    /\ rows = {}
    /\ inserts = [e \in Events |-> 0]
    /\ reports = [e \in Events |-> 0]
    /\ left = MaxFaults

Spend(kind) ==
    /\ kind \in Faults
    /\ left > 0
    /\ left' = left - 1

-----------------------------------------------------------------------------
(* Delivery and handleMsg.                                                 *)

Pending == {m \in Msgs : status[m] = "pending"}

\* The server counts a message as delivered when Consume has fetched it.
Deliver(m) ==
    /\ phase = "running"
    /\ status[m] = "ready"
    /\ Cardinality(Pending) < MaxAckPending
    /\ status' = [status EXCEPT ![m] = "pending"]
    /\ age' = [age EXCEPT ![m] = 0]
    /\ buffer' = Append(buffer, m)
    /\ UNCHANGED <<phase, held, inFlight, flush, acks, unanswered, clocks,
                   tables, left>>

\* handleMsg is called with the messages one by one, in their order.
Take(m) ==
    /\ phase = "running"
    /\ buffer # << >>
    /\ m = Head(buffer)
    /\ buffer' = Tail(buffer)

Handle(m) ==
    /\ Take(m)
    /\ m \in Good
    /\ held' = Append(held, m)
    /\ unanswered' = unanswered \union {m}
    /\ UNCHANGED <<server, phase, inFlight, flush, acks, clocks, tables, left>>

TermInvalid(m) ==
    /\ Take(m)
    /\ m \notin Good
    /\ \/ /\ status' = [status EXCEPT ![m] = "termed"]
          /\ UNCHANGED left
       \/ /\ Spend("answer")
          /\ UNCHANGED status
    /\ UNCHANGED <<age, phase, held, inFlight, flush, acks, unanswered, clocks,
                   tables>>

-----------------------------------------------------------------------------
(* Flushing.                                                               *)

BeginFlush ==
    /\ held # << >>
    /\ flush = "none"
    /\ flush' = "inserting"
    /\ inFlight' = held
    /\ held' = << >>
    /\ busy' = 0

\* By the flush ticker, or because the batch is full.
TriggerFlush ==
    /\ phase = "running"
    /\ BeginFlush
    /\ UNCHANGED <<server, phase, buffer, acks, beat, unanswered, tables, left>>

\* The first of a batch's messages about a request.
First(i) == \A j \in 1..i - 1 : ReqOf[inFlight[j]] # ReqOf[inFlight[i]]
Batch == {EventOf(inFlight[i]) : i \in {n \in DOMAIN inFlight : First(n)}}

Stored ==
    /\ rows' = rows \union Batch
    /\ inserts' = [e \in Events |-> IF e \in Batch THEN inserts[e] + 1
                                                   ELSE inserts[e]]
    /\ UNCHANGED reports

InsertOk ==
    /\ flush = "inserting"
    /\ Stored
    /\ flush' = "acking"
    /\ UNCHANGED <<server, phase, buffer, held, inFlight, acks, clocks,
                   unanswered, left>>

\* Mutant: the count of answered items is carried into the next batch.
EndFlushKeepsAcks ==
    flush' = "none" /\ inFlight' = << >> /\ busy' = 0 /\ UNCHANGED acks

EndFlush == flush' = "none" /\ inFlight' = << >> /\ acks' = 0 /\ busy' = 0

\* Mutant: a batch that could not be inserted is acked.
NakedAcks(ms) == [m \in Msgs |-> IF m \in ms THEN "acked" ELSE status[m]]

\* Mutant: it is terminated.
NakedTerms(ms) == [m \in Msgs |-> IF m \in ms THEN "termed" ELSE status[m]]

Naked(ms) == [m \in Msgs |-> IF m \in ms /\ status[m] = "pending"
                             THEN "ready" ELSE status[m]]

\* Every message is nak'd; one whose Nak is lost waits for its AckWait.  A
\* stop cancels the context of the insert under way, though not finalFlush's.
InsertFails ==
    /\ flush = "inserting"
    /\ IF phase = "waiting" THEN UNCHANGED left ELSE Spend("insert")
    /\ \/ Stored
       \/ UNCHANGED tables
    /\ \E lost \in SUBSET Range(inFlight) :
          /\ lost # {} => "answer" \in Faults
          /\ status' = Naked(Range(inFlight) \ lost)
    /\ unanswered' = unanswered \ Range(inFlight)
    /\ EndFlush
    /\ UNCHANGED <<age, phase, buffer, held, beat>>

Report(i) == reports' = IF First(i)
                        THEN [reports EXCEPT ![EventOf(inFlight[i])] = @ + 1]
                        ELSE reports

\* The next item is acked, and reported if its row was inserted.
AckNext ==
    /\ flush = "acking"
    /\ acks < Len(inFlight)
    /\ LET m == inFlight[acks + 1]
       IN  /\ \/ /\ status' = [status EXCEPT ![m] = "acked"]
                 /\ age' = [age EXCEPT ![m] = 0]
                 /\ UNCHANGED left
              \/ /\ Spend("answer")
                 /\ UNCHANGED server
           /\ Report(acks + 1)
           /\ unanswered' = unanswered \ {m}
    /\ acks' = acks + 1
    /\ UNCHANGED <<phase, buffer, held, inFlight, flush, clocks, rows, inserts>>

FlushDone ==
    /\ flush = "acking"
    /\ acks = Len(inFlight)
    /\ EndFlush
    /\ UNCHANGED <<server, phase, buffer, held, beat, unanswered, tables, left>>

\* Mutant: nothing is kept alive.
KeptNothing == {}

Kept == Range(held \o inFlight)

\* A message whose InProgress is lost keeps its age.
HeartbeatHeld ==
    /\ phase = "running"
    /\ beat = Heartbeat
    /\ beat' = 0
    /\ \E lost \in {{}} \union {{m} : m \in Kept} :
          /\ age' = [m \in Msgs |-> IF m \in Kept \ lost THEN 0 ELSE age[m]]
          /\ IF lost = {} THEN UNCHANGED left ELSE Spend("answer")
    /\ UNCHANGED <<status, process, busy, tables>>

-----------------------------------------------------------------------------
(* Shutdown, the end of the process and time.                              *)

\* The consumer is stopped and closed: what it has fetched and handleMsg has
\* not seen is dropped.
Stop ==
    /\ phase = "running"
    /\ Spend("stop")
    /\ phase' = "waiting"
    /\ buffer' = << >>
    /\ UNCHANGED <<server, held, inFlight, flush, acks, clocks, unanswered,
                   tables>>

\* Mutant: what was held behind the last flush is forgotten.
FinalFlushNothing ==
    /\ phase = "waiting"
    /\ flush = "none"
    /\ phase' = "final"
    /\ UNCHANGED <<server, buffer, held, inFlight, flush, acks, clocks,
                   unanswered, tables, left>>

\* flushWG.Wait has returned.
FinalFlush ==
    /\ phase = "waiting"
    /\ flush = "none"
    /\ phase' = "final"
    /\ IF held = << >>
       THEN UNCHANGED <<held, inFlight, flush, busy>>
       ELSE BeginFlush
    /\ UNCHANGED <<server, buffer, acks, beat, unanswered, tables, left>>

Exit ==
    /\ phase = "final"
    /\ flush = "none"
    /\ phase' = "exited"
    /\ UNCHANGED <<server, buffer, held, inFlight, flush, acks, clocks,
                   unanswered, tables, left>>

\* Also what an unexpected end of the consumer comes to: Run returns its
\* error and what is fetched, held or in flight is abandoned.
Crash ==
    /\ phase \in {"running", "waiting", "final"}
    /\ Spend("crash")
    /\ phase' = "down"
    /\ buffer' = << >> /\ held' = << >>
    /\ EndFlush
    /\ unanswered' = {}
    /\ \/ flush = "inserting" /\ Stored
       \/ UNCHANGED tables
    /\ UNCHANGED <<server, beat>>

Restart ==
    /\ phase \in {"exited", "down"}
    /\ phase' = "running"
    /\ beat' = 0
    /\ UNCHANGED <<server, buffer, held, inFlight, flush, acks, busy,
                   unanswered, tables, left>>

\* What is due is done before time passes: the call of handleMsg, a flush
\* that is triggered or ends, a heartbeat, an insert whose context expires.
Quiet ==
    /\ flush # "acking"
    /\ flush = "inserting" =>
          busy < IF phase = "final" THEN FinalTimeout ELSE InsertTimeout
    /\ phase = "running" => /\ buffer = << >>
                            /\ beat < Heartbeat
                            /\ flush = "none" => held = << >>
    /\ phase \in {"waiting", "final"} => flush # "none"

Tick ==
    /\ Quiet
    /\ \E m \in Msgs : status[m] = "pending" /\ age[m] < AckWait
    /\ age' = [m \in Msgs |-> IF status[m] = "pending" /\ age[m] < AckWait
                              THEN age[m] + 1 ELSE age[m]]
    /\ beat' = IF phase = "running" THEN beat + 1 ELSE beat
    /\ busy' = IF flush = "inserting" THEN busy + 1 ELSE busy
    /\ UNCHANGED <<status, process, tables, left>>

\* AckWait has passed.
Redeliver(m) ==
    /\ status[m] = "pending"
    /\ age[m] = AckWait
    /\ status' = [status EXCEPT ![m] = "ready"]
    /\ age' = [age EXCEPT ![m] = 0]
    /\ UNCHANGED <<process, clocks, tables, left>>

-----------------------------------------------------------------------------
Work ==
    \/ \E m \in Msgs : \/ Deliver(m) \/ Redeliver(m)
                       \/ Handle(m) \/ TermInvalid(m)
    \/ TriggerFlush \/ InsertOk \/ AckNext \/ FlushDone \/ HeartbeatHeld
    \/ FinalFlush \/ Exit \/ Restart \/ Tick

Next == Work \/ InsertFails \/ Stop \/ Crash

\* Messages are delivered and redelivered, goroutines run, an insert ends,
\* a process that ended is started again.
Fairness ==
    /\ \A m \in Msgs : WF_vars(Deliver(m)) /\ WF_vars(Redeliver(m))
    /\ WF_vars(\E m \in Msgs : Handle(m) \/ TermInvalid(m))
    /\ WF_vars(TriggerFlush)
    /\ WF_vars(InsertOk \/ AckNext \/ FlushDone)
    /\ WF_vars(HeartbeatHeld)
    /\ WF_vars(FinalFlush \/ Exit \/ Restart)
    /\ WF_vars(Tick)

Spec == Init /\ [][Next]_vars
FairSpec == Spec /\ Fairness

-----------------------------------------------------------------------------
(* Properties.                                                             *)

\* Insert first, then ack and report: a message that will not come again is
\* about a request that usage_events has a row of, its own or that of the
\* copy it was folded into; and the budget ledger hears of an event at most
\* once for every time its row was inserted, so it never counts usage that
\* ClickHouse does not have.
StoredBeforeSettled ==
    /\ \A m \in Msgs : status[m] = "acked" =>
          \E n \in Msgs : ReqOf[n] = ReqOf[m] /\ EventOf(n) \in rows
    /\ \A e \in Events : reports[e] <= inserts[e]

\* usage_hourly counts an event again only after a fault: slow inserts,
\* flushes that fill up meanwhile and redeliveries alone never do that.
InsertsBoundedByFaults ==
    \A e \in Events :
        inserts[e] <= Cardinality(Copies(e)) + (MaxFaults - left)

\* A Run that has returned after its context was cancelled has answered
\* every message handleMsg was called with: those of the flush in flight and
\* those held behind it.
ShutdownAnswersHandled ==
    phase = "exited" => unanswered = {} /\ held = << >> /\ inFlight = << >>

\* Every event with a request ends acked, and usage_events with a row of its
\* request, through failed inserts, lost answers, shutdowns and crashes.  The
\* row need not be its own: doFlush inserts one event of each request in a
\* batch and acks the others with it.
EveryRequestStored ==
    <>[](\A m \in Good :
            /\ status[m] = "acked"
            /\ \E n \in Msgs : ReqOf[n] = ReqOf[m] /\ EventOf(n) \in rows)

=============================================================================
