--------------------------- MODULE Harvester_proofs ---------------------------
(***************************************************************************)
(* That the harvester acks nothing it has not stored, answers all that     *)
(* handleMsg was called with when it is asked to end, and inserts an event *)
(* again only after a fault: for any messages, any number of faults of any *)
(* kind and any batches.                                                   *)
(***************************************************************************)
EXTENDS Harvester, TLAPS, SequenceTheorems, WellFoundedInduction,
        FiniteSetTheorems

\* The items of a batch that are still to be answered.
Rest == acks + 1..Len(inFlight)

\* Without a flush there is no batch, and nothing is answered before the
\* batch is inserted.
FlushInv ==
    /\ flush # "acking" => acks = 0
    /\ flush = "none" => inFlight = << >>

\* What finalFlush took over it has to end with.
PhaseInv ==
    /\ phase \in {"final", "exited", "down"} => held = << >>
    /\ phase \in {"exited", "down"} => flush = "none"

\* Only a running process is delivered messages, and handleMsg is called
\* with them before time passes.
BufferInv ==
    /\ phase # "running" => buffer = << >>
    /\ \A i \in 1..Len(buffer) : age[buffer[i]] = 0

\* A message without an answer is held, or in flight and not yet come to.
AnswerInv ==
    unanswered \subseteq Range(held) \union {inFlight[i] : i \in Rest}

\* What is being acked has been inserted.
InsertedInv == flush = "acking" => Batch \subseteq rows

SettledInv ==
    \A m \in Msgs : status[m] = "acked" =>
        \E n \in Msgs : ReqOf[n] = ReqOf[m] /\ EventOf(n) \in rows

\* Every row of the batch still to be reported was inserted once more than
\* it has been reported.
ReportInv ==
    /\ \A e \in Events : reports[e] <= inserts[e]
    /\ flush = "acking" =>
          \A i \in Rest : First(i) =>
              reports[EventOf(inFlight[i])] < inserts[EventOf(inFlight[i])]

IInv == /\ TypeOK /\ FlushInv /\ PhaseInv /\ BufferInv /\ AnswerInv
        /\ InsertedInv /\ SettledInv /\ ReportInv

USE HarvesterAssumption DEF AckWait, Heartbeat, InsertTimeout, FinalTimeout

-----------------------------------------------------------------------------
LEMMA EventsOfMessages == \A m \in Msgs : EventOf(m) \in Events
BY DEF Events

\* For each message of a batch one is inserted that is about its request.
LEMMA FirstExists ==
    ASSUME inFlight \in Seq(Msgs), NEW i \in 1..Len(inFlight)
    PROVE  \E j \in 1..Len(inFlight) :
              First(j) /\ ReqOf[inFlight[j]] = ReqOf[inFlight[i]]
<1> DEFINE T == {j \in 1..Len(inFlight) :
                    ReqOf[inFlight[j]] = ReqOf[inFlight[i]]}
<1>1. T \subseteq Nat /\ T # {}
  OBVIOUS
<1>2. PICK j \in T : \A k \in T : ~(<<k, j>> \in OpToRel(<, Nat))
  <2> HIDE DEF T
  <2> QED BY <1>1, NatLessThanWellFounded, WFMin
<1>3. \A k \in T : ~(k < j)
  BY <1>1, <1>2 DEF OpToRel
<1>4. First(j)
  BY <1>3 DEF First
<1> QED
  BY <1>4

\* So each of them is stored with its batch.
LEMMA BatchCovers ==
    ASSUME inFlight \in Seq(Msgs), Batch \subseteq rows,
           NEW i \in 1..Len(inFlight)
    PROVE  \E n \in Msgs : /\ ReqOf[n] = ReqOf[inFlight[i]]
                           /\ EventOf(n) \in rows
<1>1. PICK j \in 1..Len(inFlight) :
         First(j) /\ ReqOf[inFlight[j]] = ReqOf[inFlight[i]]
  BY FirstExists
<1>2. EventOf(inFlight[j]) \in Batch
  BY <1>1 DEF Batch
<1> QED
  BY <1>1, <1>2

LEMMA BatchOfEvents ==
    inFlight \in Seq(Msgs) => Batch \subseteq Events
BY DEF Batch, Events

-----------------------------------------------------------------------------
(* Type correctness.                                                       *)

LEMMA FaultsCount ==
    ASSUME left \in 0..MaxFaults, NEW kind, Spend(kind)
    PROVE  left' \in 0..MaxFaults
BY DEF Spend

LEMMA TypeInit == Init => TypeOK
BY DEF Init, TypeOK

\* handleMsg takes the first message of the buffer.
LEMMA BufferTail ==
    ASSUME buffer \in Seq(Msgs), NEW m, Take(m)
    PROVE  /\ buffer' \in Seq(Msgs) /\ Len(buffer) \in Nat
           /\ Len(buffer) # 0 /\ Len(buffer') = Len(buffer) - 1
           /\ buffer[1] = m
           /\ \A i \in 1..Len(buffer') : /\ i + 1 \in 1..Len(buffer)
                                         /\ buffer'[i] = buffer[i + 1]
<1>1. buffer # << >> /\ m = Head(buffer) /\ buffer' = Tail(buffer)
  BY DEF Take
<1>2. Len(buffer) \in Nat /\ Len(buffer) # 0
  BY <1>1, LenProperties, EmptySeq
<1> QED
  BY <1>1, <1>2, HeadTailProperties

LEMMA TypeStep == TypeOK /\ FlushInv /\ [Next]_vars => TypeOK'
<1> SUFFICES ASSUME TypeOK, FlushInv, [Next]_vars PROVE TypeOK'
  OBVIOUS
<1> USE DEF TypeOK, server, tables, process, clocks
<1>1. ASSUME NEW m \in Msgs, Handle(m) PROVE TypeOK'
  <2>1. held' \in Seq(Msgs)
    BY <1>1, AppendProperties DEF Handle
  <2>2. buffer' \in Seq(Msgs)
    BY <1>1, BufferTail DEF Handle
  <2> QED BY <1>1, <2>1, <2>2 DEF Handle
<1>2. ASSUME NEW m \in Msgs, TermInvalid(m) PROVE TypeOK'
  <2>1. left' \in 0..MaxFaults
    BY <1>2, FaultsCount DEF TermInvalid
  <2>2. buffer' \in Seq(Msgs)
    BY <1>2, BufferTail DEF TermInvalid
  <2> QED BY <1>2, <2>1, <2>2 DEF TermInvalid
<1>3. ASSUME NEW m \in Msgs, Deliver(m) \/ Redeliver(m) PROVE TypeOK'
  <2>1. CASE Deliver(m)
    <3>1. buffer' \in Seq(Msgs)
      BY <2>1, AppendProperties DEF Deliver
    <3> QED BY <2>1, <3>1 DEF Deliver
  <2>2. CASE Redeliver(m)
    BY <2>2 DEF Redeliver
  <2> QED BY <1>3, <2>1, <2>2
<1>4. ASSUME BeginFlush, UNCHANGED acks
      PROVE  /\ held' \in Seq(Msgs) /\ inFlight' \in Seq(Msgs)
             /\ flush' = "inserting" /\ busy' = 0
             /\ acks' \in 0..Len(inFlight')
  BY <1>4 DEF BeginFlush, FlushInv
<1>5. ASSUME Stored
      PROVE  rows' \subseteq Events /\ inserts' \in [Events -> Nat]
                /\ reports' \in [Events -> Nat]
  BY <1>5, BatchOfEvents DEF Stored
<1>6. CASE TriggerFlush
  BY <1>6, <1>4 DEF TriggerFlush
<1>7. CASE InsertOk
  BY <1>7, <1>5 DEF InsertOk
<1>8. CASE InsertFails
  <2>1. left' \in 0..MaxFaults
    BY <1>8, FaultsCount DEF InsertFails
  <2>2. status' \in [Msgs -> {"ready", "pending", "acked", "termed"}]
    BY <1>8 DEF InsertFails, Naked
  <2>3. rows' \subseteq Events /\ inserts' \in [Events -> Nat]
           /\ reports' \in [Events -> Nat]
    BY <1>8, <1>5 DEF InsertFails
  <2>4. /\ inFlight' = << >> /\ acks' = 0 /\ flush' = "none" /\ busy' = 0
        /\ UNCHANGED <<age, phase, buffer, held, beat>>
        /\ unanswered' \subseteq Msgs
    BY <1>8 DEF InsertFails, EndFlush
  <2> QED BY <2>1, <2>2, <2>3, <2>4
<1>9. CASE AckNext
  <2>1. inFlight[acks + 1] \in Msgs
    BY <1>9 DEF AckNext
  <2>2. reports' \in [Events -> Nat]
    BY <1>9, <2>1, EventsOfMessages DEF AckNext, Report
  <2>3. left' \in 0..MaxFaults
    BY <1>9, FaultsCount DEF AckNext
  <2>4. /\ status' \in [Msgs -> {"ready", "pending", "acked", "termed"}]
        /\ age' \in [Msgs -> 0..AckWait]
    <3>1. CASE UNCHANGED server
      BY <3>1
    <3>2. CASE /\ status' = [status EXCEPT ![inFlight[acks + 1]] = "acked"]
               /\ age' = [age EXCEPT ![inFlight[acks + 1]] = 0]
      BY <3>2, <2>1
    <3> QED BY <1>9, <3>1, <3>2 DEF AckNext
  <2>5. acks' \in 0..Len(inFlight')
    BY <1>9 DEF AckNext
  <2> QED BY <1>9, <2>2, <2>3, <2>4, <2>5 DEF AckNext
<1>10. CASE FlushDone
  BY <1>10 DEF FlushDone, EndFlush
<1>11. CASE HeartbeatHeld
  <2>1. age' \in [Msgs -> 0..AckWait]
    BY <1>11 DEF HeartbeatHeld
  <2> QED BY <1>11, <2>1, FaultsCount DEF HeartbeatHeld
<1>12. CASE Stop
  BY <1>12, FaultsCount DEF Stop
<1>13. CASE FinalFlush
  BY <1>13, <1>4 DEF FinalFlush
<1>14. CASE Exit \/ Restart
  BY <1>14 DEF Exit, Restart
<1>15. CASE Crash
  <2>1. left' \in 0..MaxFaults
    BY <1>15, FaultsCount DEF Crash
  <2>2. rows' \subseteq Events /\ inserts' \in [Events -> Nat]
           /\ reports' \in [Events -> Nat]
    BY <1>15, <1>5 DEF Crash
  <2> QED BY <1>15, <2>1, <2>2 DEF Crash, EndFlush
<1>16. CASE Tick
  <2>1. age' \in [Msgs -> 0..AckWait]
    BY <1>16 DEF Tick
  <2>2. beat' \in 0..Heartbeat
    BY <1>16 DEF Tick, Quiet
  <2>3. busy' \in 0..InsertTimeout
    BY <1>16 DEF Tick, Quiet
  <2> QED BY <1>16, <2>1, <2>2, <2>3 DEF Tick
<1>17. CASE UNCHANGED vars
  BY <1>17 DEF vars
<1> QED
  BY <1>1, <1>2, <1>3, <1>6, <1>7, <1>8, <1>9, <1>10, <1>11, <1>12, <1>13,
     <1>14, <1>15, <1>16, <1>17
  DEF Next, Work

-----------------------------------------------------------------------------
(* What is in flight and what is unanswered.                               *)

LEMMA FlushStep == FlushInv /\ [Next]_vars => FlushInv'
BY DEF FlushInv, Next, Work, Deliver, Handle, TermInvalid, Redeliver,
       TriggerFlush, BeginFlush, InsertOk, InsertFails, AckNext, FlushDone,
       EndFlush, HeartbeatHeld, Stop, FinalFlush, Exit, Crash, Restart, Tick,
       vars, process

LEMMA PhaseStep == PhaseInv /\ [Next]_vars => PhaseInv'
BY DEF PhaseInv, Next, Work, Deliver, Handle, Take, TermInvalid, Redeliver,
       TriggerFlush, BeginFlush, InsertOk, InsertFails, AckNext, FlushDone,
       EndFlush, HeartbeatHeld, Stop, FinalFlush, Exit, Crash, Restart, Tick,
       vars, process

LEMMA BufferStep == TypeOK /\ BufferInv /\ [Next]_vars => BufferInv'
<1> SUFFICES ASSUME TypeOK, BufferInv, [Next]_vars PROVE BufferInv'
  OBVIOUS
<1>1. ASSUME NEW m \in Msgs, Deliver(m) PROVE BufferInv'
  <2>1. /\ Len(buffer') = Len(buffer) + 1 /\ Len(buffer) \in Nat
        /\ \A i \in 1..Len(buffer) : buffer'[i] = buffer[i]
        /\ buffer'[Len(buffer) + 1] = m
    BY <1>1, AppendProperties DEF Deliver, TypeOK
  <2>2. /\ phase' = "running"
        /\ age'[m] = 0 /\ \A k \in Msgs : age[k] = 0 => age'[k] = 0
    BY <1>1 DEF Deliver, TypeOK
  <2>3. \A i \in 1..Len(buffer) : buffer[i] \in Msgs
    BY DEF TypeOK
  <2> QED BY <2>1, <2>2, <2>3 DEF BufferInv
<1>2. ASSUME NEW m \in Msgs, Handle(m) \/ TermInvalid(m) PROVE BufferInv'
  <2>1. Take(m) /\ UNCHANGED <<age, phase>> /\ phase = "running"
    BY <1>2 DEF Handle, TermInvalid, Take, server
  <2>2. \A i \in 1..Len(buffer') : /\ i + 1 \in 1..Len(buffer)
                                  /\ buffer'[i] = buffer[i + 1]
    BY <2>1, BufferTail DEF TypeOK
  <2> QED BY <2>1, <2>2 DEF BufferInv
<1>3. ASSUME UNCHANGED buffer, phase' # "running" => buffer = << >>,
             \A k \in Msgs : age[k] = 0 => age'[k] = 0
      PROVE  BufferInv'
  BY <1>3 DEF BufferInv, TypeOK
<1>4. ASSUME buffer' = << >> PROVE BufferInv'
  BY <1>4 DEF BufferInv
<1>5. CASE Stop \/ Crash
  BY <1>5, <1>4 DEF Stop, Crash
<1>6. CASE Tick
  BY <1>6, <1>4 DEF Tick, Quiet, BufferInv, process
<1>7. CASE AckNext
  <2>1. \A k \in Msgs : age[k] = 0 => age'[k] = 0
    BY <1>7 DEF AckNext, server, TypeOK
  <2> QED BY <1>7, <2>1, <1>3 DEF AckNext, BufferInv
<1>8. CASE HeartbeatHeld
  BY <1>8, <1>3 DEF HeartbeatHeld, process, BufferInv
<1>9. CASE \/ \E m \in Msgs : Redeliver(m)
           \/ TriggerFlush \/ InsertOk \/ FlushDone \/ UNCHANGED vars
  BY <1>9, <1>3
  DEF Redeliver, TriggerFlush, InsertOk, FlushDone, vars, process, server,
      BufferInv, TypeOK
<1>10. CASE InsertFails \/ FinalFlush \/ Exit \/ Restart
  BY <1>10, <1>3
  DEF InsertFails, FinalFlush, Exit, Restart, server, BufferInv, TypeOK
<1> QED
  BY <1>1, <1>2, <1>5, <1>6, <1>7, <1>8, <1>9, <1>10 DEF Next, Work

\* Where the pieces are does not matter, as long as none is lost.
LEMMA StillThere ==
    ASSUME AnswerInv, unanswered' \subseteq unanswered,
           UNCHANGED <<held, inFlight, acks>>
    PROVE  AnswerInv'
BY DEF AnswerInv, Rest

LEMMA AnswerStep ==
    TypeOK /\ FlushInv /\ AnswerInv /\ [Next]_vars => AnswerInv'
<1> SUFFICES ASSUME TypeOK, FlushInv, AnswerInv, [Next]_vars
             PROVE  AnswerInv'
  OBVIOUS
<1>1. ASSUME NEW m \in Msgs, Handle(m) PROVE AnswerInv'
  <2>1. Range(held') = Range(held) \union {m}
    <3>1. /\ held \in Seq(Msgs) /\ held' = Append(held, m)
      BY <1>1 DEF Handle, TypeOK
    <3>2. /\ Len(held') = Len(held) + 1 /\ held' \in Seq(Msgs)
          /\ \A i \in 1..Len(held) : held'[i] = held[i]
          /\ held'[Len(held) + 1] = m
      BY <3>1, AppendProperties
    <3> QED BY <3>1, <3>2 DEF Range
  <2> QED BY <1>1, <2>1 DEF Handle, AnswerInv, Rest
<1>2. ASSUME BeginFlush, UNCHANGED <<unanswered, acks>> PROVE AnswerInv'
  <2>1. Range(held) = {inFlight'[i] : i \in Rest'}
    BY <1>2 DEF BeginFlush, FlushInv, Rest, Range, TypeOK
  <2> QED BY <1>2, <2>1 DEF BeginFlush, AnswerInv, FlushInv, Rest
<1>3. CASE InsertFails
  <2>1. {inFlight[i] : i \in Rest} \subseteq Range(inFlight)
    BY DEF TypeOK, Rest, Range
  <2> QED BY <1>3, <2>1 DEF InsertFails, EndFlush, AnswerInv
<1>4. CASE AckNext
  <2>1. /\ acks' = acks + 1 /\ UNCHANGED <<held, inFlight>>
        /\ unanswered' = unanswered \ {inFlight[acks + 1]}
    BY <1>4 DEF AckNext
  <2>2. Rest \subseteq Rest' \union {acks + 1}
    BY <2>1 DEF Rest, TypeOK
  <2> QED BY <2>1, <2>2 DEF AnswerInv
<1>5. CASE FlushDone
  <2>1. Rest = {}
    BY <1>5 DEF FlushDone, Rest, TypeOK
  <2> QED BY <1>5, <2>1 DEF FlushDone, EndFlush, AnswerInv
<1>6. CASE TriggerFlush
  BY <1>6, <1>2 DEF TriggerFlush
<1>7. CASE FinalFlush
  BY <1>7, <1>2, StillThere DEF FinalFlush
<1>8. CASE Crash
  BY <1>8 DEF Crash, AnswerInv
<1>9. CASE \/ \E m \in Msgs : Deliver(m) \/ TermInvalid(m) \/ Redeliver(m)
           \/ InsertOk \/ HeartbeatHeld \/ Stop \/ Exit \/ Restart \/ Tick
           \/ UNCHANGED vars
  BY <1>9, StillThere
  DEF Deliver, TermInvalid, Redeliver, InsertOk, HeartbeatHeld, Stop, Exit,
      Restart, Tick, vars, process
<1> QED
  BY <1>1, <1>3, <1>4, <1>5, <1>6, <1>7, <1>8, <1>9 DEF Next, Work

-----------------------------------------------------------------------------
(* What is stored, acked and reported.                                     *)

LEMMA BatchKept ==
    UNCHANGED inFlight => /\ Batch' = Batch
                          /\ \A i : First(i)' <=> First(i)
BY DEF Batch, First

LEMMA InsertedStep ==
    InsertedInv /\ [Next]_vars => InsertedInv'
<1> SUFFICES ASSUME InsertedInv, [Next]_vars PROVE InsertedInv'
  OBVIOUS
<1>1. CASE InsertOk
  BY <1>1, BatchKept DEF InsertOk, Stored, InsertedInv
<1>2. ASSUME UNCHANGED <<flush, inFlight, rows>> PROVE InsertedInv'
  BY <1>2, BatchKept DEF InsertedInv
<1>3. ASSUME flush' # "acking" PROVE InsertedInv'
  BY <1>3 DEF InsertedInv
<1>4. CASE \/ TriggerFlush \/ InsertFails \/ FlushDone \/ Crash
  BY <1>4, <1>3 DEF TriggerFlush, BeginFlush, InsertFails, FlushDone, Crash,
     EndFlush
<1>5. CASE FinalFlush
  BY <1>5, <1>3 DEF FinalFlush, BeginFlush
<1>6. CASE \/ \E m \in Msgs : \/ Deliver(m) \/ Redeliver(m)
                              \/ Handle(m) \/ TermInvalid(m)
           \/ AckNext \/ HeartbeatHeld \/ Stop \/ Exit \/ Restart \/ Tick
           \/ UNCHANGED vars
  BY <1>6, <1>2
  DEF Deliver, Handle, TermInvalid, Redeliver, AckNext, HeartbeatHeld, Stop,
      Exit, Restart, Tick, vars, process, tables
<1> QED
  BY <1>1, <1>4, <1>5, <1>6 DEF Next, Work

LEMMA SettledStep ==
    TypeOK /\ InsertedInv /\ SettledInv /\ [Next]_vars => SettledInv'
<1> SUFFICES ASSUME TypeOK, InsertedInv, SettledInv, [Next]_vars
             PROVE  SettledInv'
  OBVIOUS
<1>1. ASSUME rows \subseteq rows',
             \A m \in Msgs : status'[m] = "acked" => status[m] = "acked"
      PROVE  SettledInv'
  BY <1>1 DEF SettledInv, EventOf
<1>2. CASE AckNext
  <2>1. /\ flush = "acking" /\ acks + 1 \in 1..Len(inFlight)
        /\ rows' = rows
    BY <1>2 DEF AckNext, TypeOK
  <2>2. PICK n \in Msgs : /\ ReqOf[n] = ReqOf[inFlight[acks + 1]]
                          /\ EventOf(n) \in rows
    BY <2>1, BatchCovers DEF InsertedInv, TypeOK
  <2>3. ASSUME NEW m \in Msgs, status'[m] = "acked"
        PROVE  status[m] = "acked" \/ m = inFlight[acks + 1]
    BY <1>2, <2>3 DEF AckNext, TypeOK, server
  <2> QED BY <2>1, <2>2, <2>3 DEF SettledInv, EventOf
<1>3. CASE InsertFails
  <2>1. rows \subseteq rows'
    BY <1>3 DEF InsertFails, Stored, tables
  <2>2. PICK ms : status' = Naked(ms)
    BY <1>3 DEF InsertFails
  <2> QED BY <1>1, <2>1, <2>2 DEF Naked
<1>4. CASE InsertOk \/ Crash
  BY <1>4, <1>1 DEF InsertOk, Crash, Stored, tables, server
<1>5. ASSUME NEW m \in Msgs, \/ Deliver(m) \/ Redeliver(m)
                              \/ Handle(m) \/ TermInvalid(m)
      PROVE  SettledInv'
  BY <1>5, <1>1
  DEF Deliver, Handle, TermInvalid, Redeliver, server, tables, TypeOK
<1>6. CASE \/ TriggerFlush \/ FlushDone \/ HeartbeatHeld \/ Stop
           \/ FinalFlush \/ Exit \/ Restart \/ Tick \/ UNCHANGED vars
  BY <1>6, <1>1
  DEF TriggerFlush, FlushDone, HeartbeatHeld, Stop, FinalFlush, Exit, Restart,
      Tick, vars, server, tables
<1> QED
  BY <1>2, <1>3, <1>4, <1>5, <1>6 DEF Next, Work

LEMMA ReportStep ==
    TypeOK /\ FlushInv /\ ReportInv /\ [Next]_vars => ReportInv'
<1> SUFFICES ASSUME TypeOK, FlushInv, ReportInv, [Next]_vars
             PROVE  ReportInv'
  OBVIOUS
<1>0. inserts' \in [Events -> Nat]
  BY TypeStep DEF TypeOK, Events, EventOf
<1>1. ASSUME UNCHANGED <<inFlight, acks, flush, inserts, reports>>
      PROVE  ReportInv'
  BY <1>1, BatchKept DEF ReportInv, Rest, EventOf, Events
<1>2. ASSUME flush' # "acking", UNCHANGED reports,
             \A e \in Events : inserts[e] <= inserts'[e]
      PROVE  ReportInv'
  <2>1. \A e \in Events : reports'[e] <= inserts'[e]
    BY <1>0, <1>2 DEF ReportInv, TypeOK
  <2> QED BY <1>2, <2>1 DEF ReportInv, Events, EventOf
<1>3. ASSUME Stored
      PROVE  /\ \A e \in Events : inserts[e] <= inserts'[e]
             /\ \A e \in Batch : inserts'[e] = inserts[e] + 1
             /\ UNCHANGED reports
  BY <1>3, BatchOfEvents DEF Stored, TypeOK
<1>4. CASE InsertOk
  <2>1. /\ UNCHANGED <<inFlight, acks, reports>>
        /\ \A e \in Events : inserts[e] <= inserts'[e]
        /\ \A e \in Batch : inserts'[e] = inserts[e] + 1
    BY <1>4, <1>3 DEF InsertOk
  <2>2. \A e \in Events : reports'[e] <= inserts'[e]
    BY <1>0, <2>1 DEF ReportInv, TypeOK
  <2>3. ASSUME NEW i \in Rest, First(i)
        PROVE  reports[EventOf(inFlight[i])] < inserts'[EventOf(inFlight[i])]
    <3>1. i \in DOMAIN inFlight /\ inFlight[i] \in Msgs
      BY DEF Rest, TypeOK
    <3>2. EventOf(inFlight[i]) \in Batch
      BY <3>1, <2>3 DEF Batch
    <3> QED BY <2>1, <3>1, <3>2, EventsOfMessages DEF ReportInv, TypeOK
  <2>4. Rest' = Rest /\ Events' = Events
    BY <2>1 DEF Rest, Events, EventOf
  <2> QED BY <2>1, <2>2, <2>3, <2>4, BatchKept DEF ReportInv, EventOf
<1>5. CASE AckNext
  <2> DEFINE m == inFlight[acks + 1]
  <2>1. /\ flush = "acking" /\ acks + 1 \in Rest /\ m \in Msgs
        /\ acks + 1 \in Nat
        /\ acks' = acks + 1 /\ UNCHANGED <<inFlight, flush, inserts>>
        /\ Report(acks + 1)
    BY <1>5 DEF AckNext, TypeOK, Rest
  <2>2. Rest' \subseteq Rest /\ acks + 1 \notin Rest'
    BY <2>1 DEF Rest, TypeOK
  <2>3. CASE First(acks + 1)
    <3>1. reports' = [reports EXCEPT ![EventOf(m)] = @ + 1]
      BY <2>1, <2>3 DEF Report
    <3>2. \A e \in Events : reports'[e] <= inserts'[e]
      BY <2>1, <2>3, <3>1, EventsOfMessages DEF ReportInv, TypeOK
    <3>3. ASSUME NEW i \in Rest', First(i)
          PROVE  EventOf(inFlight[i]) # EventOf(m)
      <4>1. acks + 1 \in 1..i - 1
        BY <2>1, <2>2 DEF Rest, TypeOK
      <4> QED BY <4>1, <3>3 DEF First, EventOf
    <3>4. ASSUME NEW i \in Rest', First(i)
          PROVE  reports'[EventOf(inFlight[i])] < inserts[EventOf(inFlight[i])]
      <4>1. inFlight[i] \in Msgs /\ i \in Rest
        BY <2>2 DEF Rest, TypeOK
      <4> QED BY <2>1, <3>1, <3>3, <3>4, <4>1, EventsOfMessages
              DEF ReportInv, TypeOK
    <3>5. \A i \in Rest' : First(i)' =>
             reports'[EventOf(inFlight[i])] < inserts'[EventOf(inFlight[i])]
      BY <2>1, <3>4, BatchKept
    <3>6. Events' = Events /\ \A k : EventOf(k)' = EventOf(k)
      BY DEF Events, EventOf
    <3> QED BY <2>1, <3>2, <3>5, <3>6 DEF ReportInv
  <2>4. CASE ~First(acks + 1)
    <3>1. UNCHANGED reports
      BY <2>1, <2>4 DEF Report
    <3> QED BY <2>1, <2>2, <3>1, BatchKept DEF ReportInv, EventOf, Events
  <2> QED BY <2>3, <2>4
<1>6. CASE InsertFails \/ Crash
  <2>1. flush' # "acking"
    BY <1>6 DEF InsertFails, Crash, EndFlush
  <2>2. Stored \/ UNCHANGED tables
    BY <1>6 DEF InsertFails, Crash
  <2>3. UNCHANGED reports /\ \A e \in Events : inserts[e] <= inserts'[e]
    BY <2>2, <1>3 DEF tables, TypeOK
  <2> QED BY <2>1, <2>3, <1>2
<1>7. CASE TriggerFlush \/ FlushDone
  <2>1. flush' # "acking" /\ UNCHANGED <<inserts, reports>>
    BY <1>7 DEF TriggerFlush, BeginFlush, FlushDone, EndFlush, tables
  <2> QED BY <2>1, <1>2 DEF TypeOK
<1>8. CASE FinalFlush
  <2>1. flush' # "acking" /\ UNCHANGED <<inserts, reports>>
    BY <1>8 DEF FinalFlush, BeginFlush, tables
  <2> QED BY <2>1, <1>2 DEF TypeOK
<1>9. CASE \/ \E m \in Msgs : \/ Deliver(m) \/ Redeliver(m)
                              \/ Handle(m) \/ TermInvalid(m)
           \/ HeartbeatHeld \/ Stop \/ Exit \/ Restart \/ Tick
           \/ UNCHANGED vars
  BY <1>9, <1>1
  DEF Deliver, Handle, TermInvalid, Redeliver, HeartbeatHeld, Stop, Exit,
      Restart, Tick, vars, process, tables
<1> QED
  BY <1>4, <1>5, <1>6, <1>7, <1>8, <1>9 DEF Next, Work

-----------------------------------------------------------------------------
(* Inserts are paid for: by a message that is settled for good, or by a    *)
(* fault.                                                                  *)

\* The items of the batch still to be answered, those held and those not
\* seen yet, about e.
RestOf(e) == {i \in Rest : EventOf(inFlight[i]) = e}
HeldOf(e) == {i \in 1..Len(held) : EventOf(held[i]) = e}
BufOf(e) == {i \in 1..Len(buffer) : EventOf(buffer[i]) = e}

InProcess(m) == \/ \E i \in Rest : inFlight[i] = m
                \/ \E i \in 1..Len(held) : held[i] = m
                \/ \E i \in 1..Len(buffer) : buffer[i] = m

\* A message that will not come again: it is acked, or it is in the process
\* and no redelivery is due.  A running process keeps it from being due as
\* long as no heartbeat is lost; one that is asked to end takes no more.
Accounted(m) ==
    \/ status[m] = "acked"
    \/ /\ InProcess(m)
       /\ IF phase = "running" THEN status[m] = "pending" /\ age[m] <= beat
                               ELSE status[m] \in {"pending", "ready"}
AccountedOf(e) == {m \in Copies(e) : Accounted(m)}

\* An inserted row about e has items still to be answered.
Acking(e) == IF flush = "acking" /\ RestOf(e) # {} THEN 1 ELSE 0

\* The insert that a stop has cancelled may fail at no other cost.
Stopping == IF phase = "waiting" /\ flush = "inserting" THEN 1 ELSE 0
Budget == left + Stopping

\* What has been inserted, and what may still be, is paid for.
Waiting(e) == Cardinality(HeldOf(e)) + Cardinality(BufOf(e))
Claims(e) == inserts[e] + Cardinality(RestOf(e)) + Waiting(e)
Cover(e) == Cardinality(AccountedOf(e)) + Acking(e)
Balanced(e) == Claims(e) + Budget <= Cover(e) + MaxFaults

CountInv == \A e \in Events : Balanced(e)

\* A set that another one and an indexed family cover is no larger.
LEMMA CoveredBy ==
    ASSUME NEW S, NEW T, NEW P, NEW f, IsFiniteSet(T), IsFiniteSet(P),
           S \subseteq T \union {f[i] : i \in P}
    PROVE  /\ IsFiniteSet(S)
           /\ Cardinality(S) <= Cardinality(T) + Cardinality(P)
<1> DEFINE U == {f[i] : i \in P}
           g == [i \in P |-> f[i]]
<1>1. g \in Surjection(P, U)
  BY DEF Surjection
<1>2. IsFiniteSet(U) /\ Cardinality(U) <= Cardinality(P)
  <2> HIDE DEF g, U
  <2> QED
    BY <1>1, FS_Surjection
<1> HIDE DEF g, U
<1>3. /\ IsFiniteSet(T \union U)
      /\ Cardinality(T \union U) =
            Cardinality(T) + Cardinality(U) - Cardinality(T \cap U)
  BY <1>2, FS_Union
<1>4. Cardinality(T \cap U) \in Nat
  BY FS_Intersection, FS_CardinalityType
<1>5. S \subseteq T \union U
  BY DEF U
<1>6. IsFiniteSet(S) /\ Cardinality(S) <= Cardinality(T \union U)
  BY <1>3, <1>5, FS_Subset
<1>7. /\ Cardinality(S) \in Nat /\ Cardinality(T) \in Nat
      /\ Cardinality(U) \in Nat /\ Cardinality(P) \in Nat
  BY <1>2, <1>6, FS_CardinalityType
<1> QED
  BY <1>2, <1>3, <1>4, <1>6, <1>7

LEMMA SmallerSet ==
    ASSUME NEW S, NEW T, IsFiniteSet(T), S \subseteq T
    PROVE  IsFiniteSet(S) /\ Cardinality(S) <= Cardinality(T)
           /\ Cardinality(S) \in Nat /\ Cardinality(T) \in Nat
BY FS_Subset, FS_CardinalityType

\* What a balance is made of: finite sets and natural numbers.
Counted(e) ==
    /\ IsFiniteSet(RestOf(e)) /\ IsFiniteSet(HeldOf(e))
    /\ IsFiniteSet(BufOf(e))
    /\ IsFiniteSet(AccountedOf(e)) /\ IsFiniteSet(Copies(e))
    /\ Cardinality(RestOf(e)) \in Nat
    /\ Cardinality(HeldOf(e)) \in Nat
    /\ Cardinality(BufOf(e)) \in Nat
    /\ Waiting(e) \in Nat
    /\ Cardinality(AccountedOf(e)) \in Nat
    /\ Cardinality(AccountedOf(e)) <= Cardinality(Copies(e))
    /\ Cardinality(Copies(e)) \in Nat
    /\ Acking(e) \in 0..1 /\ inserts[e] \in Nat
    /\ Claims(e) \in Nat /\ Cover(e) \in Nat
    /\ left \in 0..MaxFaults /\ Stopping \in 0..1 /\ Budget \in Nat

AllCounted == \A e \in Events : Counted(e)

LEMMA Parts == TypeOK => AllCounted
<1> SUFFICES ASSUME TypeOK, NEW e \in Events PROVE Counted(e)
  BY DEF AllCounted
<1>1. /\ IsFiniteSet(1..Len(inFlight)) /\ IsFiniteSet(1..Len(held))
      /\ IsFiniteSet(1..Len(buffer))
  <2>1. Len(inFlight) \in Nat /\ Len(held) \in Nat /\ Len(buffer) \in Nat
    BY LenProperties DEF TypeOK
  <2> QED
    BY <2>1, FS_Interval
<1>2. /\ RestOf(e) \subseteq 1..Len(inFlight)
      /\ HeldOf(e) \subseteq 1..Len(held)
      /\ BufOf(e) \subseteq 1..Len(buffer)
      /\ AccountedOf(e) \subseteq Copies(e) /\ Copies(e) \subseteq Msgs
  BY LenProperties DEF RestOf, HeldOf, BufOf, AccountedOf, Copies, Rest, TypeOK
<1>3. IsFiniteSet(Copies(e))
  BY <1>2, SmallerSet
<1>4. /\ inserts[e] \in Nat
      /\ left \in 0..MaxFaults /\ Acking(e) \in 0..1 /\ Stopping \in 0..1
  BY DEF TypeOK, Acking, Stopping
<1>5. /\ IsFiniteSet(RestOf(e)) /\ IsFiniteSet(HeldOf(e))
      /\ IsFiniteSet(BufOf(e)) /\ Cardinality(BufOf(e)) \in Nat
      /\ IsFiniteSet(AccountedOf(e)) /\ Cardinality(RestOf(e)) \in Nat
      /\ Cardinality(HeldOf(e)) \in Nat
      /\ Cardinality(AccountedOf(e)) \in Nat
      /\ Cardinality(Copies(e)) \in Nat
      /\ Cardinality(AccountedOf(e)) <= Cardinality(Copies(e))
  BY <1>1, <1>2, <1>3, SmallerSet
<1>6. left \in Nat /\ Acking(e) \in Nat /\ Stopping \in Nat
  BY <1>4
<1>7. Waiting(e) \in Nat
  BY <1>5 DEF Waiting
<1>8. Claims(e) \in Nat /\ Cover(e) \in Nat /\ Budget \in Nat
  BY <1>4, <1>5, <1>6, <1>7 DEF Claims, Cover, Budget
<1> QED
  BY <1>3, <1>4, <1>5, <1>7, <1>8 DEF Counted

LEMMA AllCountedNext == TypeOK' => AllCounted'
BY Parts, PTL

\* The same of the state after a step.
LEMMA PartsNext ==
    ASSUME TypeOK', NEW e \in Events
    PROVE  Counted(e)'
<1>1. e \in Events'
  BY DEF Events, EventOf
<1> QED
  BY <1>1, AllCountedNext DEF AllCounted

\* The balance bounds the inserts: what is acking is still to be answered.
LEMMA BalanceBounds ==
    ASSUME TypeOK, CountInv
    PROVE  InsertsBoundedByFaults
<1> SUFFICES ASSUME NEW e \in Events
             PROVE  inserts[e] <= Cardinality(Copies(e)) + (MaxFaults - left)
  BY DEF InsertsBoundedByFaults
<1>0. Counted(e)
  BY Parts DEF AllCounted
<1>1. Acking(e) <= Cardinality(RestOf(e))
  <2>1. RestOf(e) # {} => Cardinality(RestOf(e)) # 0
    BY <1>0, FS_EmptySet DEF Counted
  <2> QED
    BY <1>0, <2>1 DEF Acking, Counted
<1>2. Balanced(e)
  BY DEF CountInv
<1> QED
  BY <1>0, <1>1, <1>2 DEF Balanced, Counted, Claims, Cover, Budget

\* What a step claims beyond what it covers is paid for by faults.
LEMMA StillBalanced ==
    ASSUME TypeOK, TypeOK', CountInv,
           \A e \in Events : Claims(e)' + Budget' + Cover(e)
                                <= Claims(e) + Budget + Cover(e)'
    PROVE  CountInv'
<1> SUFFICES ASSUME NEW e \in Events PROVE Balanced(e)'
  BY DEF CountInv, Events, EventOf
<1>1. /\ Claims(e) \in Nat /\ Cover(e) \in Nat /\ Budget \in Nat
      /\ Claims(e)' \in Nat /\ Cover(e)' \in Nat /\ Budget' \in Nat
  BY Parts, PartsNext DEF AllCounted, Counted
<1>2. Claims(e)' + Budget' + Cover(e) <= Claims(e) + Budget + Cover(e)'
  OBVIOUS
<1>3. Claims(e) + Budget <= Cover(e) + MaxFaults
  BY DEF CountInv, Balanced
<1>4. Claims(e)' + Budget' <= Cover(e)' + MaxFaults
  BY <1>1, <1>2, <1>3
<1> QED
  BY <1>4 DEF Balanced

\* A step that inserts nothing and keeps what is in the process loses no
\* balance as long as every message stays accounted for.
LEMMA CountKept ==
    ASSUME TypeOK, TypeOK', CountInv, Budget' <= Budget, UNCHANGED inserts,
           \A e \in Events : /\ RestOf(e)' = RestOf(e)
                             /\ HeldOf(e)' = HeldOf(e)
                             /\ BufOf(e)' = BufOf(e)
                             /\ AccountedOf(e) \subseteq AccountedOf(e)'
                             /\ Acking(e)' = Acking(e)
    PROVE  CountInv'
<1> SUFFICES ASSUME NEW e \in Events
             PROVE  Claims(e)' + Budget' + Cover(e)
                       <= Claims(e) + Budget + Cover(e)'
  BY StillBalanced
<1>1. Counted(e) /\ Counted(e)'
  BY Parts, PartsNext DEF AllCounted
<1>2. Cover(e) <= Cover(e)'
  <2>1. Cardinality(AccountedOf(e)) <= Cardinality(AccountedOf(e)')
    BY <1>1, SmallerSet DEF Counted
  <2> QED
    BY <1>1, <2>1 DEF Cover, Counted
<1>3. Claims(e)' = Claims(e)
  BY DEF Claims, Waiting
<1> QED
  BY <1>1, <1>2, <1>3 DEF Counted

\* The numbers of a step, by name.
LEMMA Numbers ==
    ASSUME TypeOK, TypeOK', NEW e \in Events
    PROVE  \E c, d, b, g, v, w \in Nat :
              /\ c = Claims(e) /\ d = Claims(e)'
              /\ b = Budget /\ g = Budget'
              /\ v = Cover(e) /\ w = Cover(e)'
BY Parts, PartsNext DEF AllCounted, Counted

LEMMA FaultNumbers ==
    ASSUME TypeOK, TypeOK'
    PROVE  \E l, k \in Nat, s, t \in 0..1 :
              /\ l = left /\ k = left' /\ s = Stopping /\ t = Stopping'
              /\ Budget = l + s /\ Budget' = k + t
<1>1. left \in Nat /\ left' \in Nat
  BY DEF TypeOK
<1>2. Stopping \in 0..1 /\ Stopping' \in 0..1
  BY DEF Stopping
<1>3. Budget = left + Stopping /\ Budget' = left' + Stopping'
  BY DEF Budget
<1> QED
  BY <1>1, <1>2, <1>3

LEMMA CoverNumbers ==
    ASSUME TypeOK, TypeOK', NEW e \in Events
    PROVE  \E k, l \in Nat, m, n \in 0..1 :
              /\ k = Cardinality(AccountedOf(e)) /\ m = Acking(e)
              /\ l = Cardinality(AccountedOf(e)') /\ n = Acking(e)'
              /\ Cover(e) = k + m /\ Cover(e)' = l + n
BY Parts, PartsNext DEF AllCounted, Counted, Cover

\* Nothing in the process moves.
LEMMA SameItems ==
    ASSUME UNCHANGED <<buffer, held, inFlight, flush, acks>>
    PROVE  /\ \A e : /\ RestOf(e)' = RestOf(e) /\ HeldOf(e)' = HeldOf(e)
                     /\ BufOf(e)' = BufOf(e) /\ Acking(e)' = Acking(e)
           /\ \A m : InProcess(m)' <=> InProcess(m)
BY DEF RestOf, HeldOf, BufOf, Acking, InProcess, Rest, EventOf

\* A message that is accounted for stays so.
LEMMA StillAccounted ==
    ASSUME \A m \in Msgs : Accounted(m) => Accounted(m)'
    PROVE  \A e : AccountedOf(e) \subseteq AccountedOf(e)'
BY DEF AccountedOf, Copies, EventOf

LEMMA CountQuiet ==
    ASSUME TypeOK, TypeOK', CountInv,
           UNCHANGED <<buffer, held, inFlight, flush, acks, inserts>>,
           Budget' <= Budget,
           \A m \in Msgs : Accounted(m) => Accounted(m)'
    PROVE  CountInv'
BY SameItems, StillAccounted, CountKept

\* A message is redelivered only when it is not accounted for.
LEMMA CountRedeliver ==
    ASSUME TypeOK, TypeOK', CountInv, NEW n \in Msgs, Redeliver(n)
    PROVE  CountInv'
<1>1. /\ UNCHANGED <<buffer, held, inFlight, flush, acks, inserts, phase, beat>>
      /\ status[n] = "pending" /\ age[n] = AckWait /\ left' = left
      /\ status' = [status EXCEPT ![n] = "ready"]
      /\ age' = [age EXCEPT ![n] = 0]
  BY DEF Redeliver, process, clocks, tables
<1>2. ASSUME NEW m \in Msgs, Accounted(m) PROVE Accounted(m)'
  <2>1. CASE m = n
    <3>1. InProcess(m) /\ phase # "running"
      BY <1>1, <1>2, <2>1 DEF Accounted, TypeOK
    <3>2. status'[m] = "ready"
      BY <1>1, <2>1 DEF TypeOK
    <3> QED
      BY <1>1, <3>1, <3>2, SameItems DEF Accounted
  <2>2. CASE m # n
    <3>1. status'[m] = status[m] /\ age'[m] = age[m]
      BY <1>1, <2>2 DEF TypeOK
    <3> QED
      BY <1>1, <1>2, <3>1, SameItems DEF Accounted
  <2> QED
    BY <2>1, <2>2
<1> QED
  BY <1>1, <1>2, CountQuiet DEF Budget, Stopping, TypeOK

\* Time passes for a message as it does for the heartbeat.
LEMMA CountTick ==
    ASSUME TypeOK, TypeOK', CountInv, Tick
    PROVE  CountInv'
<1>1. /\ UNCHANGED <<buffer, held, inFlight, flush, acks, inserts, phase,
                      status>>
      /\ left' = left
  BY DEF Tick, process, tables
<1>2. ASSUME NEW m \in Msgs, Accounted(m) PROVE Accounted(m)'
  <2>1. CASE phase = "running"
    <3>1. beat' = beat + 1
      BY <2>1 DEF Tick
    <3>2. age'[m] = age[m] + 1 \/ age'[m] = age[m]
      BY DEF Tick
    <3>3. age[m] \in Nat /\ beat \in Nat
      <4>1. age \in [Msgs -> 0..AckWait] /\ beat \in 0..Heartbeat
        BY DEF TypeOK
      <4>2. age[m] \in 0..AckWait
        BY <4>1
      <4> QED
        BY <4>1, <4>2
    <3>4. age[m] <= beat => age'[m] <= beat'
      BY <3>1, <3>2, <3>3
    <3> QED
      BY <1>1, <1>2, <2>1, <3>4, SameItems DEF Accounted
  <2>2. CASE phase # "running"
    BY <1>1, <1>2, <2>2, SameItems DEF Accounted
  <2> QED
    BY <2>1, <2>2
<1> QED
  BY <1>1, <1>2, CountQuiet DEF Budget, Stopping, TypeOK

\* A process that starts again has nothing of the last one.
LEMMA CountPhase ==
    ASSUME TypeOK, TypeOK', FlushInv, PhaseInv, BufferInv, CountInv,
           Exit \/ Restart
    PROVE  CountInv'
<1>1. /\ UNCHANGED <<buffer, held, inFlight, flush, acks, inserts, status,
                      age>>
      /\ left' = left
  BY DEF Exit, Restart, server, tables
<1>2. Stopping' = 0
  BY DEF Exit, Restart, Stopping
<1>3. \A m : ~InProcess(m)
  <2>1. /\ buffer = << >> /\ held = << >> /\ inFlight = << >>
        /\ acks = 0
    BY DEF Exit, Restart, FlushInv, PhaseInv, BufferInv
  <2>2. Rest = {} /\ 1..Len(held) = {} /\ 1..Len(buffer) = {}
    BY <2>1 DEF Rest
  <2> QED
    BY <2>2 DEF InProcess
<1>4. ASSUME NEW m \in Msgs, Accounted(m) PROVE Accounted(m)'
  <2>1. status'[m] = "acked"
    BY <1>1, <1>3, <1>4 DEF Accounted
  <2> QED
    BY <2>1 DEF Accounted
<1> QED
  BY <1>1, <1>2, <1>4, CountQuiet DEF Budget, Stopping, TypeOK

LEMMA OneMore ==
    ASSUME NEW S, NEW T, NEW n, IsFiniteSet(T), S \subseteq T \union {n}
    PROVE  Cardinality(S) <= Cardinality(T) + 1
<1>1. /\ IsFiniteSet(T \union {n})
      /\ \/ Cardinality(T \union {n}) = Cardinality(T)
         \/ Cardinality(T \union {n}) = Cardinality(T) + 1
  BY FS_AddElement
<1>2. /\ Cardinality(S) <= Cardinality(T \union {n})
      /\ Cardinality(S) \in Nat /\ Cardinality(T) \in Nat
  BY <1>1, SmallerSet, FS_CardinalityType
<1> QED
  BY <1>1, <1>2

\* A fault pays for one message.
LEMMA CountPaid ==
    ASSUME TypeOK, TypeOK', CountInv,
           UNCHANGED <<buffer, held, inFlight, flush, acks, inserts>>,
           Budget' + 1 <= Budget, NEW n,
           \A m \in Msgs : Accounted(m) => Accounted(m)' \/ m = n
    PROVE  CountInv'
<1> SUFFICES ASSUME NEW e \in Events
             PROVE  Claims(e)' + Budget' + Cover(e)
                       <= Claims(e) + Budget + Cover(e)'
  BY StillBalanced
<1>1. Counted(e) /\ Counted(e)'
  BY Parts, PartsNext DEF AllCounted
<1>2. AccountedOf(e) \subseteq AccountedOf(e)' \union {n}
  BY DEF AccountedOf, Copies, EventOf
<1>3. Cardinality(AccountedOf(e)) <= Cardinality(AccountedOf(e)') + 1
  BY <1>1, <1>2, OneMore DEF Counted
<1>4. Claims(e)' = Claims(e) /\ Acking(e)' = Acking(e)
  BY SameItems DEF Claims, Waiting
<1>5. Cover(e) <= Cover(e)' + 1
  <2>1. PICK k, l \in Nat, m, i \in 0..1 :
           /\ k = Cardinality(AccountedOf(e)) /\ m = Acking(e)
           /\ l = Cardinality(AccountedOf(e)') /\ i = Acking(e)'
           /\ Cover(e) = k + m /\ Cover(e)' = l + i
    BY CoverNumbers
  <2>2. k <= l + 1 /\ m = i
    BY <1>3, <1>4, <2>1
  <2>3. k + m <= (l + i) + 1
    BY <2>2
  <2> QED
    BY <2>1, <2>3
<1>6. PICK c, d, b, g, v, w \in Nat :
         /\ c = Claims(e) /\ d = Claims(e)'
         /\ b = Budget /\ g = Budget'
         /\ v = Cover(e) /\ w = Cover(e)'
  BY Numbers
<1>7. d = c /\ g + 1 <= b /\ v <= w + 1
  BY <1>4, <1>5, <1>6
<1>8. d + g + v <= c + b + w
  BY <1>7
<1> QED
  BY <1>6, <1>8

LEMMA InProcessKept ==
    ASSUME TypeOK, NEW m, InProcess(m),
           ~ \E i \in 1..Len(buffer) : buffer[i] = m
    PROVE  m \in Kept
<1> DEFINE s == held \o inFlight
<1>1. /\ held \in Seq(Msgs) /\ inFlight \in Seq(Msgs)
      /\ Rest \subseteq 1..Len(inFlight)
  BY DEF TypeOK, Rest
<1>2. /\ s \in Seq(Msgs) /\ Len(s) = Len(held) + Len(inFlight)
      /\ \A i \in 1..Len(held) : s[i] = held[i]
      /\ \A i \in 1..Len(inFlight) : s[Len(held) + i] = inFlight[i]
  <2>1. Len(held) \in Nat /\ Len(inFlight) \in Nat
    BY <1>1
  <2>2. /\ s \in Seq(Msgs) /\ Len(s) = Len(held) + Len(inFlight)
        /\ \A i \in 1..Len(held) + Len(inFlight) :
              s[i] = IF i <= Len(held) THEN held[i]
                                       ELSE inFlight[i - Len(held)]
    BY <1>1, ConcatProperties
  <2>3. ASSUME NEW i \in 1..Len(inFlight)
        PROVE  s[Len(held) + i] = inFlight[i]
    <3>1. /\ Len(held) + i \in 1..Len(held) + Len(inFlight)
          /\ ~(Len(held) + i <= Len(held))
          /\ (Len(held) + i) - Len(held) = i
      BY <2>1
    <3> QED
      BY <2>2, <3>1
  <2> QED
    BY <2>1, <2>2, <2>3
<1>3. Len(held) \in Nat /\ Len(inFlight) \in Nat
  BY <1>1
<1>4. CASE \E i \in 1..Len(held) : held[i] = m
  <2>1. PICK i \in 1..Len(held) : held[i] = m
    BY <1>4
  <2>2. i \in 1..Len(s) /\ s[i] = m
    BY <1>2, <1>3, <2>1
  <2> QED
    BY <1>2, <2>2 DEF Kept, Range
<1>5. CASE \E i \in Rest : inFlight[i] = m
  <2>1. PICK i \in 1..Len(inFlight) : inFlight[i] = m
    BY <1>1, <1>5
  <2>2. Len(held) + i \in 1..Len(s) /\ s[Len(held) + i] = m
    BY <1>2, <1>3, <2>1
  <2> QED
    BY <1>2, <2>2 DEF Kept, Range
<1> QED
  BY <1>4, <1>5 DEF InProcess

\* A heartbeat brings every message back in step with it, but the one that
\* it loses; those not seen yet have just been delivered.
LEMMA CountHeartbeat ==
    ASSUME TypeOK, TypeOK', BufferInv, CountInv, HeartbeatHeld
    PROVE  CountInv'
<1>1. /\ UNCHANGED <<buffer, held, inFlight, flush, acks, inserts, status,
                      phase>>
      /\ beat' = 0 /\ phase = "running"
  BY DEF HeartbeatHeld, process, tables
<1>2. PICK lost \in {{}} \union {{m} : m \in Kept} :
        /\ age' = [m \in Msgs |-> IF m \in Kept \ lost THEN 0 ELSE age[m]]
        /\ IF lost = {} THEN UNCHANGED left ELSE Spend("answer")
  BY DEF HeartbeatHeld
<1>3. ASSUME NEW m \in Msgs, Accounted(m), m \notin lost
      PROVE  Accounted(m)'
  <2>1. InProcess(m) => age'[m] = 0
    <3>1. CASE \E i \in 1..Len(buffer) : buffer[i] = m
      BY <1>2, <3>1 DEF BufferInv
    <3>2. CASE ~ \E i \in 1..Len(buffer) : buffer[i] = m
      BY <1>2, <1>3, <3>2, InProcessKept
    <3> QED
      BY <3>1, <3>2
  <2> QED
    BY <1>1, <1>3, <2>1, SameItems DEF Accounted
<1>4. PICK l, k \in Nat, s, t \in 0..1 :
         /\ l = left /\ k = left' /\ s = Stopping /\ t = Stopping'
         /\ Budget = l + s /\ Budget' = k + t
  BY FaultNumbers
<1>5. s = 0 /\ t = 0
  BY <1>1, <1>4 DEF Stopping
<1>6. CASE lost = {}
  BY <1>1, <1>2, <1>3, <1>4, <1>5, <1>6, CountQuiet
<1>7. ASSUME NEW n, lost = {n} PROVE CountInv'
  <2>1. k = l - 1
    BY <1>2, <1>4, <1>7 DEF Spend
  <2>2. (k + t) + 1 <= l + s
    BY <1>5, <2>1
  <2>3. Budget' + 1 <= Budget
    BY <1>4, <2>2
  <2>4. \A m \in Msgs : Accounted(m) => Accounted(m)' \/ m = n
    BY <1>3, <1>7
  <2> QED
    BY <1>1, <2>3, <2>4, CountPaid
<1> QED
  BY <1>2, <1>6, <1>7

\* A delivered message claims what it covers from now on: until it came it
\* was ready, so not accounted for.
LEMMA CountDeliver ==
    ASSUME TypeOK, TypeOK', CountInv, NEW n \in Msgs, Deliver(n)
    PROVE  CountInv'
<1>1. /\ UNCHANGED <<phase, held, inFlight, flush, acks, inserts, left, beat>>
      /\ phase = "running" /\ status[n] = "ready"
      /\ status' = [status EXCEPT ![n] = "pending"]
      /\ age' = [age EXCEPT ![n] = 0]
      /\ buffer' = Append(buffer, n)
  BY DEF Deliver, clocks, tables
<1>2. /\ Len(buffer) \in Nat /\ Len(buffer') = Len(buffer) + 1
      /\ \A i \in 1..Len(buffer) : buffer'[i] = buffer[i]
      /\ buffer'[Len(buffer) + 1] = n
  <2>1. buffer \in Seq(Msgs)
    BY DEF TypeOK
  <2> QED
    BY <1>1, <2>1, AppendProperties
<1>3. InProcess(n)' /\ \A m : InProcess(m) => InProcess(m)'
  <2>1. Rest' = Rest
    BY <1>1 DEF Rest
  <2>2. /\ Len(buffer) + 1 \in 1..Len(buffer')
        /\ 1..Len(buffer) \subseteq 1..Len(buffer')
    BY <1>2
  <2> QED
    BY <1>1, <1>2, <2>1, <2>2 DEF InProcess
<1>4. ~Accounted(n) /\ Accounted(n)'
  <2>1. status'[n] = "pending" /\ age'[n] = 0 /\ 0 <= beat'
    BY <1>1 DEF TypeOK
  <2> QED
    BY <1>1, <1>3, <2>1 DEF Accounted
<1>5. \A m \in Msgs : Accounted(m) => Accounted(m)'
  <2> SUFFICES ASSUME NEW m \in Msgs, Accounted(m), m # n
               PROVE  Accounted(m)'
    BY <1>4
  <2>1. status'[m] = status[m] /\ age'[m] = age[m]
    BY <1>1 DEF TypeOK
  <2> QED
    BY <1>1, <1>3, <2>1 DEF Accounted
<1> SUFFICES ASSUME NEW e \in Events
             PROVE  Claims(e)' + Budget' + Cover(e)
                       <= Claims(e) + Budget + Cover(e)'
  BY StillBalanced
<1>6. Counted(e) /\ Counted(e)'
  BY Parts, PartsNext DEF AllCounted
<1>7. /\ Budget' = Budget /\ Acking(e)' = Acking(e)
      /\ RestOf(e)' = RestOf(e) /\ inserts'[e] = inserts[e]
      /\ HeldOf(e)' = HeldOf(e)
  BY <1>1 DEF Budget, Stopping, Acking, RestOf, HeldOf, Rest, EventOf
<1>8. AccountedOf(e) \subseteq AccountedOf(e)'
  BY <1>5, StillAccounted
<1>9. PICK c, d, b, g, v, w \in Nat :
         /\ c = Claims(e) /\ d = Claims(e)'
         /\ b = Budget /\ g = Budget'
         /\ v = Cover(e) /\ w = Cover(e)'
  BY Numbers
<1>10. PICK k, l \in Nat, m, i \in 0..1 :
         /\ k = Cardinality(AccountedOf(e)) /\ m = Acking(e)
         /\ l = Cardinality(AccountedOf(e)') /\ i = Acking(e)'
         /\ Cover(e) = k + m /\ Cover(e)' = l + i
  BY CoverNumbers
<1>11. CASE EventOf(n) = e
  <2>1. BufOf(e)' = BufOf(e) \union {Len(buffer) + 1}
    BY <1>2, <1>11 DEF BufOf, EventOf
  <2>2. Len(buffer) + 1 \notin BufOf(e)
    BY <1>2 DEF BufOf
  <2>3. Cardinality(BufOf(e)') = Cardinality(BufOf(e)) + 1
    BY <1>6, <2>1, <2>2, FS_AddElement DEF Counted
  <2>4. n \notin AccountedOf(e) /\ n \in AccountedOf(e)'
    BY <1>4, <1>11 DEF AccountedOf, Copies, EventOf
  <2>5. Cardinality(AccountedOf(e) \union {n}) = Cardinality(AccountedOf(e)) + 1
    BY <1>6, <2>4, FS_AddElement DEF Counted
  <2>6. Cardinality(AccountedOf(e)) + 1 <= Cardinality(AccountedOf(e)')
    <3>1. AccountedOf(e) \union {n} \subseteq AccountedOf(e)'
      BY <1>8, <2>4
    <3> QED
      BY <1>6, <2>5, <3>1, SmallerSet DEF Counted
  <2>7. Claims(e)' = Claims(e) + 1
    BY <1>6, <1>7, <2>3 DEF Claims, Waiting, Counted
  <2>8. k + 1 <= l /\ m = i
    BY <1>7, <1>10, <2>6
  <2>9. (k + m) + 1 <= l + i
    BY <2>8
  <2>10. d = c + 1 /\ g = b /\ v + 1 <= w
    BY <1>7, <1>9, <1>10, <2>7, <2>9
  <2>11. d + g + v <= c + b + w
    BY <2>10
  <2> QED
    BY <1>9, <2>11
<1>12. CASE EventOf(n) # e
  <2>1. BufOf(e)' = BufOf(e)
    BY <1>2, <1>12 DEF BufOf, EventOf
  <2>2. Claims(e)' = Claims(e)
    BY <1>7, <2>1 DEF Claims, Waiting
  <2>3. k <= l /\ m = i
    BY <1>6, <1>7, <1>8, <1>10, SmallerSet DEF Counted
  <2>4. k + m <= l + i
    BY <2>3
  <2>5. d = c /\ g = b /\ v <= w
    BY <1>7, <1>9, <1>10, <2>2, <2>4
  <2>6. d + g + v <= c + b + w
    BY <2>5
  <2> QED
    BY <1>9, <2>6
<1> QED
  BY <1>11, <1>12

\* What handleMsg takes from the buffer claims no less there.
LEMMA BufferGives ==
    ASSUME TypeOK, NEW n, Take(n), NEW e, IsFiniteSet(BufOf(e))
    PROVE  /\ IsFiniteSet(BufOf(e)')
           /\ Cardinality(BufOf(e)') <= Cardinality(BufOf(e))
           /\ EventOf(n) = e => Cardinality(BufOf(e)') + 1
                                    <= Cardinality(BufOf(e))
<1>1. /\ Len(buffer) \in Nat /\ Len(buffer) # 0 /\ buffer[1] = n
      /\ \A i \in 1..Len(buffer') : /\ i + 1 \in 1..Len(buffer)
                                    /\ buffer'[i] = buffer[i + 1]
  BY BufferTail DEF TypeOK
<1> DEFINE T == BufOf(e) \ {1}
           f == [i \in BufOf(e)' |-> i + 1]
<1>2. f \in Injection(BufOf(e)', T)
  <2>1. \A i \in BufOf(e)' : i \in Nat /\ i # 0 /\ i + 1 \in BufOf(e)
    BY <1>1 DEF BufOf, EventOf
  <2>2. \A i \in BufOf(e)' : i + 1 \in T
    BY <2>1
  <2>3. \A i, j \in BufOf(e)' : i + 1 = j + 1 => i = j
    BY <2>1
  <2> QED
    BY <2>2, <2>3 DEF Injection, IsInjective
<1>3. IsFiniteSet(T)
  BY FS_RemoveElement
<1>4. IsFiniteSet(BufOf(e)') /\ Cardinality(BufOf(e)') <= Cardinality(T)
  <2> HIDE DEF T, f
  <2> QED
    BY <1>2, <1>3, FS_Injection
<1>5. /\ Cardinality(BufOf(e)') \in Nat /\ Cardinality(T) \in Nat
      /\ Cardinality(BufOf(e)) \in Nat
  BY <1>3, <1>4, FS_CardinalityType
<1>6. Cardinality(T) <= Cardinality(BufOf(e))
  BY SmallerSet
<1>7. EventOf(n) = e => Cardinality(T) = Cardinality(BufOf(e)) - 1
  <2>1. EventOf(n) = e => 1 \in BufOf(e)
    BY <1>1 DEF BufOf
  <2> QED
    BY <2>1, FS_RemoveElement
<1> HIDE DEF T, f
<1> QED
  BY <1>4, <1>5, <1>6, <1>7

\* What handleMsg takes and holds is in the process as before.
LEMMA CountHandle ==
    ASSUME TypeOK, TypeOK', CountInv, NEW n \in Msgs, Handle(n)
    PROVE  CountInv'
<1>1. /\ UNCHANGED <<phase, inFlight, flush, acks, inserts, left, beat,
                      status, age>>
      /\ Take(n) /\ held' = Append(held, n)
  BY DEF Handle, clocks, tables, server
<1>2. /\ Len(held) \in Nat /\ Len(held') = Len(held) + 1
      /\ \A i \in 1..Len(held) : held'[i] = held[i]
      /\ held'[Len(held) + 1] = n
  <2>1. held \in Seq(Msgs)
    BY DEF TypeOK
  <2> QED
    BY <1>1, <2>1, AppendProperties
<1>3. /\ Len(buffer) \in Nat /\ buffer[1] = n
      /\ Len(buffer') = Len(buffer) - 1
      /\ \A i \in 1..Len(buffer') : buffer'[i] = buffer[i + 1]
  BY <1>1, BufferTail DEF TypeOK
<1>4. ASSUME NEW m \in Msgs, InProcess(m) PROVE InProcess(m)'
  <2>1. Rest' = Rest
    BY <1>1 DEF Rest
  <2>2. Len(held) + 1 \in 1..Len(held') /\ 1..Len(held) \subseteq 1..Len(held')
    BY <1>2
  <2>3. CASE \E i \in 1..Len(buffer) : buffer[i] = m
    <3>1. PICK i \in 1..Len(buffer) : buffer[i] = m
      BY <2>3
    <3>2. CASE i = 1
      BY <1>2, <1>3, <2>2, <3>1, <3>2 DEF InProcess
    <3>3. CASE i # 1
      <4>1. i - 1 \in 1..Len(buffer') /\ (i - 1) + 1 = i
        BY <1>3, <3>3
      <4>2. buffer'[i - 1] = m
        BY <1>3, <3>1, <4>1
      <4> QED
        BY <4>1, <4>2 DEF InProcess
    <3> QED
      BY <3>2, <3>3
  <2>4. CASE ~ \E i \in 1..Len(buffer) : buffer[i] = m
    BY <1>1, <1>2, <1>4, <2>1, <2>2, <2>4 DEF InProcess
  <2> QED
    BY <2>3, <2>4
<1>5. \A m \in Msgs : Accounted(m) => Accounted(m)'
  BY <1>1, <1>4 DEF Accounted
<1> SUFFICES ASSUME NEW e \in Events
             PROVE  Claims(e)' + Budget' + Cover(e)
                       <= Claims(e) + Budget + Cover(e)'
  BY StillBalanced
<1>6. Counted(e) /\ Counted(e)'
  BY Parts, PartsNext DEF AllCounted
<1>7. /\ Budget' = Budget /\ Acking(e)' = Acking(e)
      /\ RestOf(e)' = RestOf(e) /\ inserts'[e] = inserts[e]
  BY <1>1 DEF Budget, Stopping, Acking, RestOf, Rest, EventOf
<1>8. PICK h, x, y, z \in Nat :
         /\ h = Cardinality(HeldOf(e)) /\ x = Cardinality(HeldOf(e)')
         /\ y = Cardinality(BufOf(e)) /\ z = Cardinality(BufOf(e)')
         /\ Waiting(e) = h + y /\ Waiting(e)' = x + z
  BY <1>6 DEF Counted, Waiting
<1>9. x + z <= h + y
  <2>1. CASE EventOf(n) = e
    <3>1. HeldOf(e)' = HeldOf(e) \union {Len(held) + 1}
      BY <1>2, <2>1 DEF HeldOf, EventOf
    <3>2. x <= h + 1
      BY <1>6, <1>8, <3>1, OneMore DEF Counted
    <3>3. z + 1 <= y
      BY <1>1, <1>6, <1>8, <2>1, BufferGives DEF Counted
    <3> QED
      BY <3>2, <3>3
  <2>2. CASE EventOf(n) # e
    <3>1. HeldOf(e)' = HeldOf(e)
      BY <1>2, <2>2 DEF HeldOf, EventOf
    <3>2. x = h /\ z <= y
      BY <1>1, <1>6, <1>8, <3>1, BufferGives DEF Counted
    <3> QED
      BY <3>2
  <2> QED
    BY <2>1, <2>2
<1>10. Claims(e)' <= Claims(e)
  <2>1. PICK a, b \in Nat :
           /\ a = inserts[e] /\ b = Cardinality(RestOf(e))
           /\ Claims(e) = a + b + (h + y) /\ Claims(e)' = a + b + (x + z)
    BY <1>6, <1>7, <1>8 DEF Counted, Claims
  <2>2. a + b + (x + z) <= a + b + (h + y)
    BY <1>9
  <2> QED
    BY <2>1, <2>2
<1>11. Cover(e) <= Cover(e)'
  <2>1. PICK k, l \in Nat, m, i \in 0..1 :
           /\ k = Cardinality(AccountedOf(e)) /\ m = Acking(e)
           /\ l = Cardinality(AccountedOf(e)') /\ i = Acking(e)'
           /\ Cover(e) = k + m /\ Cover(e)' = l + i
    BY CoverNumbers
  <2>2. k <= l /\ m = i
    BY <1>5, <1>6, <1>7, <2>1, StillAccounted, SmallerSet DEF Counted
  <2>3. k + m <= l + i
    BY <2>2
  <2> QED
    BY <2>1, <2>3
<1>12. PICK c, d, b, g, v, w \in Nat :
         /\ c = Claims(e) /\ d = Claims(e)'
         /\ b = Budget /\ g = Budget'
         /\ v = Cover(e) /\ w = Cover(e)'
  BY Numbers
<1>13. d <= c /\ g = b /\ v <= w
  BY <1>7, <1>10, <1>11, <1>12
<1>14. d + g + v <= c + b + w
  BY <1>13
<1> QED
  BY <1>12, <1>14

\* What it terminates claims no more.
LEMMA CountTerm ==
    ASSUME TypeOK, TypeOK', CountInv, NEW n \in Msgs, TermInvalid(n)
    PROVE  CountInv'
<1>1. /\ UNCHANGED <<phase, held, inFlight, flush, acks, inserts, beat, age>>
      /\ Take(n) /\ phase = "running"
      /\ \A m \in Msgs : m # n => status'[m] = status[m]
      /\ left' = left \/ left' = left - 1
  BY DEF TermInvalid, Take, Spend, clocks, tables, TypeOK
<1>2. /\ Len(buffer) \in Nat /\ buffer[1] = n
      /\ Len(buffer') = Len(buffer) - 1
      /\ \A i \in 1..Len(buffer') : buffer'[i] = buffer[i + 1]
  BY <1>1, BufferTail DEF TypeOK
<1>3. ASSUME NEW m \in Msgs, InProcess(m), m # n PROVE InProcess(m)'
  <2>1. Rest' = Rest
    BY <1>1 DEF Rest
  <2>2. CASE \E i \in 1..Len(buffer) : buffer[i] = m
    <3>1. PICK i \in 1..Len(buffer) : buffer[i] = m
      BY <2>2
    <3>2. i - 1 \in 1..Len(buffer') /\ (i - 1) + 1 = i
      BY <1>2, <1>3, <3>1
    <3>3. buffer'[i - 1] = m
      BY <1>2, <3>1, <3>2
    <3> QED
      BY <3>2, <3>3 DEF InProcess
  <2>3. CASE ~ \E i \in 1..Len(buffer) : buffer[i] = m
    BY <1>1, <1>3, <2>1, <2>3 DEF InProcess
  <2> QED
    BY <2>2, <2>3
<1>4. ASSUME NEW m \in Msgs, Accounted(m), m # n PROVE Accounted(m)'
  BY <1>1, <1>3, <1>4 DEF Accounted
<1> SUFFICES ASSUME NEW e \in Events
             PROVE  Claims(e)' + Budget' + Cover(e)
                       <= Claims(e) + Budget + Cover(e)'
  BY StillBalanced
<1>5. Counted(e) /\ Counted(e)'
  BY Parts, PartsNext DEF AllCounted
<1>6. /\ Acking(e)' = Acking(e)
      /\ RestOf(e)' = RestOf(e) /\ inserts'[e] = inserts[e]
      /\ HeldOf(e)' = HeldOf(e)
  BY <1>1 DEF Acking, RestOf, HeldOf, Rest, EventOf
<1>7. PICK a, b, h, y, z \in Nat :
         /\ a = inserts[e] /\ b = Cardinality(RestOf(e))
         /\ h = Cardinality(HeldOf(e))
         /\ y = Cardinality(BufOf(e)) /\ z = Cardinality(BufOf(e)')
         /\ Claims(e) = a + b + (h + y) /\ Claims(e)' = a + b + (h + z)
  BY <1>5, <1>6 DEF Counted, Claims, Waiting
<1>8. PICK k, l \in Nat, m, i \in 0..1 :
         /\ k = Cardinality(AccountedOf(e)) /\ m = Acking(e)
         /\ l = Cardinality(AccountedOf(e)') /\ i = Acking(e)'
         /\ Cover(e) = k + m /\ Cover(e)' = l + i
  BY CoverNumbers
<1>9. k + z <= l + y
  <2>1. CASE EventOf(n) = e
    <3>1. AccountedOf(e) \subseteq AccountedOf(e)' \union {n}
      BY <1>4 DEF AccountedOf, Copies, EventOf
    <3>2. k <= l + 1
      BY <1>5, <1>8, <3>1, OneMore DEF Counted
    <3>3. z + 1 <= y
      BY <1>1, <1>5, <1>7, <2>1, BufferGives DEF Counted
    <3> QED
      BY <3>2, <3>3
  <2>2. CASE EventOf(n) # e
    <3>1. AccountedOf(e) \subseteq AccountedOf(e)'
      BY <1>4, <2>2 DEF AccountedOf, Copies, EventOf
    <3>2. k <= l
      BY <1>5, <1>8, <3>1, SmallerSet DEF Counted
    <3>3. z <= y
      BY <1>1, <1>5, <1>7, BufferGives DEF Counted
    <3> QED
      BY <3>2, <3>3
  <2> QED
    BY <2>1, <2>2
<1>10. PICK p, q \in Nat, s, t \in 0..1 :
          /\ p = left /\ q = left' /\ s = Stopping /\ t = Stopping'
          /\ Budget = p + s /\ Budget' = q + t
  BY FaultNumbers
<1>11. q <= p /\ s = t /\ m = i
  BY <1>1, <1>6, <1>8, <1>10 DEF Stopping
<1>12. (a + b + (h + z)) + (q + t) + (k + m)
          <= (a + b + (h + y)) + (p + s) + (l + i)
  BY <1>9, <1>11
<1> QED
  BY <1>7, <1>8, <1>10, <1>12

\* What a stop drops claims no more; it was not inserted.
LEMMA CountStop ==
    ASSUME TypeOK, TypeOK', CountInv, Stop
    PROVE  CountInv'
<1>1. /\ UNCHANGED <<held, inFlight, flush, acks, inserts, status, age>>
      /\ left' = left - 1 /\ phase = "running" /\ phase' = "waiting"
      /\ buffer' = << >>
  BY DEF Stop, Spend, server, tables
<1>2. ASSUME NEW m \in Msgs, Accounted(m),
             ~ \E i \in 1..Len(buffer) : buffer[i] = m
      PROVE  Accounted(m)'
  <2>1. InProcess(m) => InProcess(m)'
    BY <1>1, <1>2 DEF InProcess, Rest
  <2> QED
    BY <1>1, <1>2, <2>1 DEF Accounted
<1> SUFFICES ASSUME NEW e \in Events
             PROVE  Claims(e)' + Budget' + Cover(e)
                       <= Claims(e) + Budget + Cover(e)'
  BY StillBalanced
<1>3. Counted(e) /\ Counted(e)'
  BY Parts, PartsNext DEF AllCounted
<1>4. /\ Acking(e)' = Acking(e)
      /\ RestOf(e)' = RestOf(e) /\ inserts'[e] = inserts[e]
      /\ HeldOf(e)' = HeldOf(e) /\ BufOf(e)' = {}
  BY <1>1 DEF Acking, RestOf, HeldOf, BufOf, Rest, EventOf
<1>5. PICK a, b, h, y \in Nat :
         /\ a = inserts[e] /\ b = Cardinality(RestOf(e))
         /\ h = Cardinality(HeldOf(e)) /\ y = Cardinality(BufOf(e))
         /\ Claims(e) = a + b + (h + y) /\ Claims(e)' = a + b + (h + 0)
  BY <1>3, <1>4, FS_EmptySet DEF Counted, Claims, Waiting
<1>6. PICK k, l \in Nat, m, i \in 0..1 :
         /\ k = Cardinality(AccountedOf(e)) /\ m = Acking(e)
         /\ l = Cardinality(AccountedOf(e)') /\ i = Acking(e)'
         /\ Cover(e) = k + m /\ Cover(e)' = l + i
  BY CoverNumbers
<1>7. AccountedOf(e) \subseteq
         AccountedOf(e)' \union {buffer[j] : j \in BufOf(e)}
  BY <1>2 DEF AccountedOf, Copies, BufOf, EventOf
<1>8. k <= l + y
  BY <1>3, <1>5, <1>6, <1>7, CoveredBy DEF Counted
<1>9. PICK p, q \in Nat, s, t \in 0..1 :
         /\ p = left /\ q = left' /\ s = Stopping /\ t = Stopping'
         /\ Budget = p + s /\ Budget' = q + t
  BY FaultNumbers
<1>10. q = p - 1 /\ s = 0 /\ m = i
  BY <1>1, <1>4, <1>6, <1>9 DEF Stopping
<1>11. (a + b + (h + 0)) + (q + t) + (k + m)
          <= (a + b + (h + y)) + (p + s) + (l + i)
  BY <1>8, <1>10
<1> QED
  BY <1>5, <1>6, <1>9, <1>11

\* What was held is in flight.
LEMMA CountBegin ==
    ASSUME TypeOK, TypeOK', FlushInv, CountInv, BeginFlush,
           UNCHANGED <<buffer, acks, inserts, status, age, beat, left>>,
           \/ phase = "running" /\ phase' = "running"
           \/ phase = "waiting" /\ phase' = "final"
    PROVE  CountInv'
<1>1. /\ inFlight = << >> /\ acks = 0 /\ flush = "none"
      /\ inFlight' = held /\ held' = << >> /\ acks' = 0
      /\ flush' = "inserting"
  BY DEF BeginFlush, FlushInv
<1>2. Rest = {} /\ Rest' = 1..Len(held) /\ 1..Len(held') = {}
  BY <1>1 DEF Rest, TypeOK
<1>3. \A m : InProcess(m)' <=> InProcess(m)
  BY <1>1, <1>2 DEF InProcess
<1>4. \A m \in Msgs : Accounted(m) => Accounted(m)'
  BY <1>3 DEF Accounted
<1> SUFFICES ASSUME NEW e \in Events
             PROVE  Claims(e)' + Budget' + Cover(e)
                       <= Claims(e) + Budget + Cover(e)'
  BY StillBalanced
<1>5. Counted(e) /\ Counted(e)'
  BY Parts, PartsNext DEF AllCounted
<1>6. /\ RestOf(e)' = HeldOf(e) /\ RestOf(e) = {} /\ HeldOf(e)' = {}
      /\ BufOf(e)' = BufOf(e) /\ Acking(e)' = 0 /\ Acking(e) = 0
  BY <1>1, <1>2 DEF RestOf, HeldOf, BufOf, EventOf, Acking
<1>7. Claims(e)' = Claims(e)
  <2>1. Cardinality({}) = 0
    BY FS_EmptySet
  <2>2. Cardinality(RestOf(e)) = 0 /\ Cardinality(HeldOf(e)') = 0
    BY <1>6, <2>1
  <2> QED
    BY <1>5, <1>6, <2>2 DEF Claims, Waiting, Counted
<1>8. Budget' = Budget
  BY <1>1 DEF Budget, Stopping
<1>9. AccountedOf(e) \subseteq AccountedOf(e)'
  BY <1>4, StillAccounted
<1>10. PICK k, l \in Nat, m, i \in 0..1 :
          /\ k = Cardinality(AccountedOf(e)) /\ m = Acking(e)
          /\ l = Cardinality(AccountedOf(e)') /\ i = Acking(e)'
          /\ Cover(e) = k + m /\ Cover(e)' = l + i
  BY CoverNumbers
<1>11. k <= l /\ m = i
  BY <1>5, <1>6, <1>9, <1>10, SmallerSet DEF Counted
<1>12. k + m <= l + i
  BY <1>11
<1>13. PICK c, d, b, g, v, w \in Nat :
          /\ c = Claims(e) /\ d = Claims(e)'
          /\ b = Budget /\ g = Budget'
          /\ v = Cover(e) /\ w = Cover(e)'
  BY Numbers
<1>14. d = c /\ g = b /\ v <= w
  BY <1>7, <1>8, <1>10, <1>12, <1>13
<1>15. d + g + v <= c + b + w
  BY <1>14
<1> QED
  BY <1>13, <1>15

LEMMA CountTrigger ==
    ASSUME TypeOK, TypeOK', FlushInv, CountInv, TriggerFlush
    PROVE  CountInv'
BY CountBegin DEF TriggerFlush, server, tables

LEMMA CountFinal ==
    ASSUME TypeOK, TypeOK', FlushInv, CountInv, FinalFlush
    PROVE  CountInv'
<1>1. /\ UNCHANGED <<buffer, acks, inserts, status, age, beat, left>>
      /\ phase = "waiting" /\ phase' = "final" /\ flush = "none"
  BY DEF FinalFlush, server, tables
<1>2. CASE held = << >>
  <2>1. UNCHANGED <<held, inFlight, flush>>
    BY <1>2 DEF FinalFlush
  <2>2. Budget' = Budget /\ Budget \in Nat
    BY <1>1 DEF Budget, Stopping, TypeOK
  <2>3. \A m \in Msgs : Accounted(m) => Accounted(m)'
    BY <1>1, <2>1, SameItems DEF Accounted
  <2> QED
    BY <1>1, <2>1, <2>2, <2>3, CountQuiet
<1>3. CASE held # << >>
  BY <1>1, <1>3, CountBegin DEF FinalFlush
<1> QED
  BY <1>2, <1>3

\* Of a batch that is answered to its end nothing is left.
LEMMA CountDone ==
    ASSUME TypeOK, TypeOK', CountInv, FlushDone
    PROVE  CountInv'
<1>1. /\ flush = "acking" /\ acks = Len(inFlight)
      /\ flush' = "none" /\ inFlight' = << >> /\ acks' = 0
      /\ UNCHANGED <<buffer, held, inserts, status, age, beat, phase, left>>
  BY DEF FlushDone, EndFlush, server, tables
<1>2. Rest = {} /\ Rest' = {}
  BY <1>1 DEF Rest, TypeOK
<1>3. \A m : InProcess(m)' <=> InProcess(m)
  BY <1>1, <1>2 DEF InProcess
<1>4. \A m \in Msgs : Accounted(m) => Accounted(m)'
  BY <1>1, <1>3 DEF Accounted
<1>5. \A e : /\ RestOf(e)' = RestOf(e) /\ HeldOf(e)' = HeldOf(e)
             /\ BufOf(e)' = BufOf(e) /\ Acking(e)' = Acking(e)
  BY <1>1, <1>2 DEF RestOf, HeldOf, BufOf, EventOf, Acking
<1>6. Budget' <= Budget
  BY <1>1 DEF Budget, Stopping, TypeOK
<1> QED
  BY <1>1, <1>4, <1>5, <1>6, StillAccounted, CountKept

\* An insert counts an event of its batch once more.
LEMMA StoredOnce ==
    ASSUME TypeOK, Stored, acks = 0, NEW e \in Events
    PROVE  \/ inserts'[e] = inserts[e]
           \/ inserts'[e] = inserts[e] + 1 /\ RestOf(e) # {}
<1>1. ASSUME e \in Batch PROVE RestOf(e) # {}
  <2>1. PICK i \in DOMAIN inFlight : EventOf(inFlight[i]) = e
    BY <1>1 DEF Batch
  <2>2. i \in Rest
    BY DEF Rest, TypeOK
  <2> QED
    BY <2>1, <2>2 DEF RestOf
<1> QED
  BY <1>1 DEF Stored

\* What an insert adds is being acked from now on.
LEMMA CountInsert ==
    ASSUME TypeOK, TypeOK', FlushInv, CountInv, InsertOk
    PROVE  CountInv'
<1>1. /\ flush = "inserting" /\ flush' = "acking" /\ acks = 0 /\ Stored
      /\ UNCHANGED <<buffer, held, inFlight, acks, status, age, beat, phase,
                     left>>
  BY DEF InsertOk, FlushInv, server, clocks
<1>2. /\ Rest' = Rest
      /\ \A x : /\ RestOf(x)' = RestOf(x) /\ HeldOf(x)' = HeldOf(x)
               /\ BufOf(x)' = BufOf(x)
      /\ \A m : InProcess(m)' <=> InProcess(m)
  BY <1>1 DEF Rest, RestOf, HeldOf, BufOf, InProcess, EventOf
<1>3. \A m \in Msgs : Accounted(m) => Accounted(m)'
  BY <1>1, <1>2 DEF Accounted
<1> SUFFICES ASSUME NEW e \in Events
             PROVE  Claims(e)' + Budget' + Cover(e)
                       <= Claims(e) + Budget + Cover(e)'
  BY StillBalanced
<1>4. Counted(e) /\ Counted(e)'
  BY Parts, PartsNext DEF AllCounted
<1>5. /\ Acking(e) = 0
      /\ \/ inserts'[e] = inserts[e]
         \/ inserts'[e] = inserts[e] + 1 /\ Acking(e)' = 1
  BY <1>1, <1>2, StoredOnce DEF Acking
<1>6. \/ Claims(e)' = Claims(e)
      \/ Claims(e)' = Claims(e) + 1 /\ Acking(e)' = 1
  <2>1. PICK a, x, r, h \in Nat :
           /\ a = inserts[e] /\ x = inserts'[e]
           /\ r = Cardinality(RestOf(e)) /\ h = Waiting(e)
    BY <1>4 DEF Counted
  <2>2. Claims(e) = a + r + h /\ Claims(e)' = x + r + h
    BY <1>2, <2>1 DEF Claims, Waiting
  <2>3. x = a \/ (x = a + 1 /\ Acking(e)' = 1)
    BY <1>5, <2>1
  <2>4. x = a + 1 => x + r + h = (a + r + h) + 1
    OBVIOUS
  <2> QED
    BY <2>2, <2>3, <2>4
<1>7. Budget' <= Budget
  <2>1. PICK l, k \in Nat, s, t \in 0..1 :
           /\ l = left /\ k = left' /\ s = Stopping /\ t = Stopping'
           /\ Budget = l + s /\ Budget' = k + t
    BY FaultNumbers
  <2>2. k = l /\ t = 0
    BY <1>1, <2>1 DEF Stopping
  <2>3. k + t <= l + s
    BY <2>2
  <2> QED
    BY <2>1, <2>3
<1>8. AccountedOf(e) \subseteq AccountedOf(e)'
  BY <1>3, StillAccounted
<1>9. PICK k, l \in Nat, m, i \in 0..1 :
         /\ k = Cardinality(AccountedOf(e)) /\ m = Acking(e)
         /\ l = Cardinality(AccountedOf(e)') /\ i = Acking(e)'
         /\ Cover(e) = k + m /\ Cover(e)' = l + i
  BY CoverNumbers
<1>10. k <= l /\ m = 0
  BY <1>4, <1>5, <1>8, <1>9, SmallerSet DEF Counted
<1>11. PICK c, d, b, g, v, w \in Nat :
          /\ c = Claims(e) /\ d = Claims(e)'
          /\ b = Budget /\ g = Budget'
          /\ v = Cover(e) /\ w = Cover(e)'
  BY Numbers
<1>12. /\ d = c \/ (d = c + 1 /\ i = 1)
       /\ g <= b /\ v = k + m /\ w = l + i
  BY <1>6, <1>7, <1>9, <1>11
<1>13. d + g + v <= c + b + w
  BY <1>10, <1>12
<1> QED
  BY <1>11, <1>13

\* A batch that fails may be stored all the same; its messages no longer
\* are, and the fault pays for the insert.
LEMMA CountFails ==
    ASSUME TypeOK, TypeOK', FlushInv, CountInv, InsertFails
    PROVE  CountInv'
<1>1. /\ flush = "inserting" /\ acks = 0
      /\ flush' = "none" /\ inFlight' = << >> /\ acks' = 0
      /\ UNCHANGED <<buffer, held, age, beat, phase>>
      /\ Stored \/ UNCHANGED inserts
      /\ IF phase = "waiting" THEN UNCHANGED left ELSE left' = left - 1
  BY DEF InsertFails, EndFlush, FlushInv, tables, Spend
<1>2. PICK lost \in SUBSET Range(inFlight) :
        status' = Naked(Range(inFlight) \ lost)
  BY DEF InsertFails
<1>3. Rest = 1..Len(inFlight) /\ Rest' = {} /\ inFlight \in Seq(Msgs)
  BY <1>1 DEF Rest, TypeOK
<1>4. ASSUME NEW m \in Msgs, Accounted(m), ~ \E i \in Rest : inFlight[i] = m
      PROVE  Accounted(m)'
  <2>1. m \notin Range(inFlight)
    BY <1>3, <1>4 DEF Range
  <2>2. status'[m] = status[m] /\ age'[m] = age[m]
    BY <1>1, <1>2, <2>1 DEF Naked
  <2>3. InProcess(m) => InProcess(m)'
    BY <1>1, <1>4 DEF InProcess
  <2> QED
    BY <1>1, <1>4, <2>2, <2>3 DEF Accounted
<1> SUFFICES ASSUME NEW e \in Events
             PROVE  Claims(e)' + Budget' + Cover(e)
                       <= Claims(e) + Budget + Cover(e)'
  BY StillBalanced
<1>5. Counted(e) /\ Counted(e)'
  BY Parts, PartsNext DEF AllCounted
<1>6. AccountedOf(e) \subseteq
         AccountedOf(e)' \union {inFlight[i] : i \in RestOf(e)}
  BY <1>4 DEF AccountedOf, Copies, RestOf, EventOf
<1>7. Cardinality(AccountedOf(e)) <=
         Cardinality(AccountedOf(e)') + Cardinality(RestOf(e))
  BY <1>5, <1>6, CoveredBy DEF Counted
<1>8. /\ RestOf(e)' = {} /\ HeldOf(e)' = HeldOf(e) /\ BufOf(e)' = BufOf(e)
      /\ Acking(e) = 0 /\ Acking(e)' = 0
  BY <1>1, <1>3 DEF RestOf, HeldOf, BufOf, EventOf, Acking
<1>9. PICK a, x, r, h \in Nat :
         /\ a = inserts[e] /\ x = inserts'[e]
         /\ r = Cardinality(RestOf(e)) /\ h = Waiting(e)
  BY <1>5 DEF Counted
<1>10. x = a \/ x = a + 1
  BY <1>1, <1>9, StoredOnce
<1>11. Claims(e) = a + r + h /\ Claims(e)' = x + 0 + h
  BY <1>8, <1>9, FS_EmptySet DEF Claims, Waiting
<1>12. PICK k, l \in Nat, m, i \in 0..1 :
          /\ k = Cardinality(AccountedOf(e)) /\ m = Acking(e)
          /\ l = Cardinality(AccountedOf(e)') /\ i = Acking(e)'
          /\ Cover(e) = k + m /\ Cover(e)' = l + i
  BY CoverNumbers
<1>13. k <= l + r /\ m = 0 /\ i = 0
  BY <1>7, <1>8, <1>9, <1>12
<1>14. PICK p, q \in Nat, s, t \in 0..1 :
          /\ p = left /\ q = left' /\ s = Stopping /\ t = Stopping'
          /\ Budget = p + s /\ Budget' = q + t
  BY FaultNumbers
<1>15. t = 0 /\ ((q = p /\ s = 1) \/ (q = p - 1 /\ s = 0))
  <2>1. t = 0
    BY <1>1, <1>14 DEF Stopping
  <2>2. CASE phase = "waiting"
    BY <1>1, <1>14, <2>1, <2>2 DEF Stopping
  <2>3. CASE phase # "waiting"
    BY <1>1, <1>14, <2>1, <2>3 DEF Stopping
  <2> QED
    BY <2>2, <2>3
<1>16. (x + 0 + h) + (q + t) + (k + m) <= (a + r + h) + (p + s) + (l + i)
  BY <1>10, <1>13, <1>15
<1> QED
  BY <1>11, <1>12, <1>14, <1>16

\* An item that is answered claims no more: its message is acked, or the
\* answer is lost and the fault pays for it.
LEMMA CountAck ==
    ASSUME TypeOK, TypeOK', CountInv, AckNext
    PROVE  CountInv'
<1>0. PICK n \in Msgs : n = inFlight[acks + 1]
  BY DEF AckNext, TypeOK
<1>1. /\ flush = "acking" /\ acks' = acks + 1
      /\ UNCHANGED <<phase, buffer, held, inFlight, flush, beat, inserts>>
      /\ acks \in Nat /\ acks + 1 \in Rest
  BY DEF AckNext, Rest, clocks, TypeOK
<1>2. \/ /\ status' = [status EXCEPT ![n] = "acked"]
         /\ age' = [age EXCEPT ![n] = 0]
         /\ left' = left
      \/ /\ UNCHANGED <<status, age>>
         /\ left' = left - 1
  BY <1>0 DEF AckNext, server, Spend
<1>3. Rest' = Rest \ {acks + 1}
  BY <1>1 DEF Rest, TypeOK
<1>4. ASSUME NEW m \in Msgs, Accounted(m), m # n
      PROVE  Accounted(m)'
  <2>1. status'[m] = status[m] /\ age'[m] = age[m]
    BY <1>2, <1>4 DEF TypeOK
  <2>2. InProcess(m) => InProcess(m)'
    BY <1>0, <1>1, <1>3, <1>4 DEF InProcess
  <2> QED
    BY <1>1, <1>4, <2>1, <2>2 DEF Accounted
<1>5. left' = left => Accounted(n)'
  <2>1. left' = left => status'[n] = "acked"
    <3>1. left - 1 # left
      BY DEF TypeOK
    <3> QED
      BY <1>2, <3>1 DEF TypeOK
  <2> QED
    BY <2>1 DEF Accounted
<1> SUFFICES ASSUME NEW e \in Events
             PROVE  Claims(e)' + Budget' + Cover(e)
                       <= Claims(e) + Budget + Cover(e)'
  BY StillBalanced
<1>6. Counted(e) /\ Counted(e)'
  BY Parts, PartsNext DEF AllCounted
<1>7. HeldOf(e)' = HeldOf(e) /\ BufOf(e)' = BufOf(e)
  BY <1>1 DEF HeldOf, BufOf, EventOf
<1>8. PICK a, r, h, y \in Nat :
         /\ a = inserts[e] /\ a = inserts'[e]
         /\ r = Cardinality(RestOf(e)) /\ h = Waiting(e)
         /\ y = Cardinality(RestOf(e)')
         /\ Claims(e) = a + r + h /\ Claims(e)' = a + y + h
  BY <1>1, <1>6, <1>7 DEF Counted, Claims, Waiting
<1>9. PICK k, l \in Nat, m, i \in 0..1 :
         /\ k = Cardinality(AccountedOf(e)) /\ m = Acking(e)
         /\ l = Cardinality(AccountedOf(e)') /\ i = Acking(e)'
         /\ Cover(e) = k + m /\ Cover(e)' = l + i
  BY CoverNumbers
<1>10. PICK p, q \in Nat, s, t \in 0..1 :
          /\ p = left /\ q = left' /\ s = Stopping /\ t = Stopping'
          /\ Budget = p + s /\ Budget' = q + t
  BY FaultNumbers
<1>11. s = 0 /\ t = 0 /\ (q = p \/ q = p - 1)
  BY <1>1, <1>2, <1>10 DEF Stopping
<1>12. CASE EventOf(n) = e
  <2>1. RestOf(e)' = RestOf(e) \ {acks + 1} /\ acks + 1 \in RestOf(e)
    BY <1>0, <1>1, <1>3, <1>12 DEF RestOf, EventOf
  <2>2. r = y + 1
    <3>1. Cardinality(RestOf(e)') = Cardinality(RestOf(e)) - 1
      BY <1>6, <2>1, FS_RemoveElement DEF Counted
    <3>2. y = r - 1
      BY <1>8, <3>1
    <3> QED
      BY <3>2
  <2>3. q = p => k <= l
    <3>1. q = p => AccountedOf(e) \subseteq AccountedOf(e)'
      BY <1>4, <1>5, <1>10 DEF AccountedOf, Copies, EventOf
    <3> QED
      BY <1>6, <1>9, <3>1, SmallerSet DEF Counted
  <2>4. k <= l + 1
    <3>1. AccountedOf(e) \subseteq AccountedOf(e)' \union {n}
      BY <1>4 DEF AccountedOf, Copies, EventOf
    <3>2. Cardinality(AccountedOf(e)) <= Cardinality(AccountedOf(e)') + 1
      BY <1>6, <3>1, OneMore DEF Counted
    <3> QED
      BY <1>9, <3>2
  <2>5. (a + y + h) + (q + t) + (k + m) <= (a + r + h) + (p + s) + (l + i)
    BY <1>11, <2>2, <2>3, <2>4
  <2> QED
    BY <1>8, <1>9, <1>10, <2>5
<1>13. CASE EventOf(n) # e
  <2>1. RestOf(e)' = RestOf(e)
    BY <1>0, <1>1, <1>3, <1>13 DEF RestOf, EventOf
  <2>2. Acking(e)' = Acking(e)
    BY <1>1, <2>1 DEF Acking
  <2>3. AccountedOf(e) \subseteq AccountedOf(e)'
    BY <1>4, <1>13 DEF AccountedOf, Copies, EventOf
  <2>4. k <= l /\ m = i /\ y = r
    BY <1>6, <1>8, <1>9, <2>1, <2>2, <2>3, SmallerSet DEF Counted
  <2>5. (a + y + h) + (q + t) + (k + m) <= (a + r + h) + (p + s) + (l + i)
    BY <1>11, <2>4
  <2> QED
    BY <1>8, <1>9, <1>10, <2>5
<1> QED
  BY <1>12, <1>13

\* A crash loses what was held and in flight, and pays for the insert that
\* was under way, or for the acks that were.
LEMMA CountCrash ==
    ASSUME TypeOK, TypeOK', FlushInv, CountInv, Crash
    PROVE  CountInv'
<1>1. /\ phase' = "down" /\ acks' = 0
      /\ buffer' = << >> /\ held' = << >> /\ inFlight' = << >>
      /\ flush' = "none" /\ left' = left - 1
      /\ UNCHANGED <<status, age>>
      /\ (flush = "inserting" /\ Stored) \/ UNCHANGED inserts
  BY DEF Crash, EndFlush, Spend, server, tables
<1>2. Rest' = {} /\ 1..Len(held') = {} /\ 1..Len(buffer') = {}
  BY <1>1 DEF Rest
<1>3. ASSUME NEW m \in Msgs, Accounted(m), ~InProcess(m)
      PROVE  Accounted(m)'
  BY <1>1, <1>3 DEF Accounted
<1> SUFFICES ASSUME NEW e \in Events
             PROVE  Claims(e)' + Budget' + Cover(e)
                       <= Claims(e) + Budget + Cover(e)'
  BY StillBalanced
<1>4. Counted(e) /\ Counted(e)'
  BY Parts, PartsNext DEF AllCounted
<1>5. AccountedOf(e) \subseteq
         ((AccountedOf(e)' \union {held[i] : i \in HeldOf(e)})
            \union {buffer[i] : i \in BufOf(e)})
            \union {inFlight[i] : i \in RestOf(e)}
  BY <1>3 DEF AccountedOf, Copies, RestOf, HeldOf, BufOf, EventOf, InProcess
<1>6. /\ RestOf(e)' = {} /\ HeldOf(e)' = {} /\ BufOf(e)' = {}
      /\ Acking(e)' = 0
  BY <1>1, <1>2 DEF RestOf, HeldOf, BufOf, Acking
<1>7. PICK a, x, r, h, y \in Nat :
         /\ a = inserts[e] /\ x = inserts'[e]
         /\ r = Cardinality(RestOf(e))
         /\ h = Cardinality(HeldOf(e)) /\ y = Cardinality(BufOf(e))
         /\ Claims(e) = a + r + (h + y) /\ Claims(e)' = x + 0 + (0 + 0)
  BY <1>4, <1>6, FS_EmptySet DEF Counted, Claims, Waiting
<1>8. PICK k, l \in Nat, m, i \in 0..1 :
         /\ k = Cardinality(AccountedOf(e)) /\ m = Acking(e)
         /\ l = Cardinality(AccountedOf(e)') /\ i = Acking(e)'
         /\ Cover(e) = k + m /\ Cover(e)' = l + i
  BY CoverNumbers
<1>9. k <= l + h + y + r
  <2> DEFINE T == AccountedOf(e)' \union {held[j] : j \in HeldOf(e)}
             U == T \union {buffer[j] : j \in BufOf(e)}
  <2>1. IsFiniteSet(T) /\ Cardinality(T) <= l + h
    BY <1>4, <1>7, <1>8, CoveredBy DEF Counted
  <2>2. PICK c \in Nat : c = Cardinality(T)
    BY <2>1, FS_CardinalityType
  <2>3. IsFiniteSet(U) /\ Cardinality(U) <= c + y
    <3> HIDE DEF T
    <3> QED
      BY <1>4, <1>7, <2>1, <2>2, CoveredBy DEF Counted
  <2>4. k <= Cardinality(U) + r
    <3>1. AccountedOf(e) \subseteq U \union {inFlight[j] : j \in RestOf(e)}
      BY <1>5
    <3> HIDE DEF T, U
    <3> QED
      BY <1>4, <1>7, <1>8, <2>3, <3>1, CoveredBy DEF Counted
  <2>5. PICK d \in Nat : d = Cardinality(U)
    BY <2>3, FS_CardinalityType
  <2> HIDE DEF T, U
  <2>6. c <= l + h /\ d <= c + y /\ k <= d + r
    BY <2>1, <2>2, <2>3, <2>4, <2>5
  <2> QED
    BY <2>6
<1>10. x + m <= a + 1
  <2>1. x = a \/ (x = a + 1 /\ flush = "inserting")
    BY <1>1, <1>7, StoredOnce DEF FlushInv
  <2>2. flush = "inserting" => m = 0
    BY <1>8 DEF Acking
  <2> QED
    BY <2>1, <2>2
<1>11. PICK p, q \in Nat, s, t \in 0..1 :
          /\ p = left /\ q = left' /\ s = Stopping /\ t = Stopping'
          /\ Budget = p + s /\ Budget' = q + t
  BY FaultNumbers
<1>12. t = 0 /\ q = p - 1 /\ i = 0
  BY <1>1, <1>6, <1>8, <1>11 DEF Stopping
<1>13. (x + 0 + (0 + 0)) + (q + t) + (k + m)
          <= (a + r + (h + y)) + (p + s) + (l + i)
  BY <1>9, <1>10, <1>12
<1> QED
  BY <1>7, <1>8, <1>11, <1>13

LEMMA CountInit == Init => CountInv
<1> SUFFICES ASSUME Init, NEW e \in Events PROVE Balanced(e)
  BY DEF CountInv
<1>1. Counted(e)
  BY TypeInit, Parts DEF AllCounted
<1>2. RestOf(e) = {} /\ HeldOf(e) = {} /\ BufOf(e) = {}
  BY DEF Init, RestOf, HeldOf, BufOf, Rest
<1>3. Claims(e) = 0 /\ Budget = MaxFaults
  BY <1>2, FS_EmptySet DEF Init, Claims, Waiting, Budget, Stopping
<1> QED
  BY <1>1, <1>3 DEF Balanced, Counted

LEMMA CountStep ==
    /\ TypeOK /\ FlushInv /\ PhaseInv /\ BufferInv /\ CountInv
    /\ [Next]_vars
    => CountInv'
<1> SUFFICES ASSUME TypeOK, FlushInv, PhaseInv, BufferInv, CountInv,
                    [Next]_vars
             PROVE  CountInv'
  OBVIOUS
<1>1. TypeOK'
  BY TypeStep
<1>2. ASSUME NEW m \in Msgs, \/ Deliver(m) \/ Redeliver(m)
                              \/ Handle(m) \/ TermInvalid(m)
      PROVE  CountInv'
  BY <1>1, <1>2, CountDeliver, CountRedeliver, CountHandle, CountTerm
<1>3. CASE TriggerFlush \/ FinalFlush
  BY <1>1, <1>3, CountTrigger, CountFinal
<1>4. CASE InsertOk \/ InsertFails
  BY <1>1, <1>4, CountInsert, CountFails
<1>5. CASE AckNext \/ FlushDone
  BY <1>1, <1>5, CountAck, CountDone
<1>6. CASE HeartbeatHeld \/ Stop
  BY <1>1, <1>6, CountHeartbeat, CountStop
<1>7. CASE Crash \/ Exit \/ Restart
  BY <1>1, <1>7, CountCrash, CountPhase
<1>8. CASE Tick
  BY <1>1, <1>8, CountTick
<1>9. CASE UNCHANGED vars
  <2>1. UNCHANGED <<buffer, held, inFlight, flush, acks, inserts, status, age,
                    phase, beat, left>>
    BY <1>9 DEF vars, server, process, clocks, tables
  <2>2. \A m \in Msgs : Accounted(m) => Accounted(m)'
    BY <2>1, SameItems DEF Accounted
  <2>3. Budget' = Budget /\ Budget \in Nat
    BY <2>1 DEF Budget, Stopping, TypeOK
  <2> QED
    BY <1>1, <2>1, <2>2, <2>3, CountQuiet
<1> QED
  BY <1>2, <1>3, <1>4, <1>5, <1>6, <1>7, <1>8, <1>9 DEF Next, Work

-----------------------------------------------------------------------------
(* The theorems.                                                           *)

LEMMA InitInv == Init => IInv
<1>1. Init => FlushInv /\ PhaseInv /\ BufferInv /\ AnswerInv /\ InsertedInv
  BY DEF Init, FlushInv, PhaseInv, BufferInv, AnswerInv, InsertedInv
<1>2. Init => SettledInv /\ ReportInv
  BY DEF Init, SettledInv, ReportInv
<1> QED
  BY <1>1, <1>2, TypeInit DEF IInv

LEMMA StepInv == IInv /\ [Next]_vars => IInv'
BY TypeStep, FlushStep, PhaseStep, BufferStep, AnswerStep, InsertedStep,
   SettledStep, ReportStep
DEF IInv

LEMMA Induction == Spec => []IInv
BY InitInv, StepInv, PTL DEF Spec

\* Every variable of the batcher, of its consumer and of the tables keeps its
\* range, the counters of time included.
THEOREM HarvesterTypeCorrect == Spec => []TypeOK
BY Induction, PTL DEF IInv

\* doFlush inserts, then acks and reports: an acked message's request is in
\* usage_events, and the ledger hears of no more than was inserted.
THEOREM StoredFirst == Spec => []StoredBeforeSettled
<1>1. IInv => StoredBeforeSettled
  BY DEF IInv, SettledInv, ReportInv, StoredBeforeSettled
<1> QED
  BY <1>1, Induction, PTL

\* Run waits for the flush in flight and then flushes what is held: a process
\* that was asked to end answers every message handleMsg was called with.
\* Those that Consume has fetched and handleMsg has not seen are not covered.
THEOREM ShutdownAnswersTaken == Spec => []ShutdownAnswersHandled
<1>1. IInv => ShutdownAnswersHandled
  BY DEF IInv, FlushInv, PhaseInv, AnswerInv, Rest, Range, TypeOK,
     ShutdownAnswersHandled
<1> QED
  BY <1>1, Induction, PTL

\* doFlush inserts a batch again only when it comes again, and a message comes
\* again only when a fault has lost its answer, its heartbeat, its insert or
\* its process: usage_hourly counts no more than that.
THEOREM InsertsPaidFor == Spec => []InsertsBoundedByFaults
<1>1. Init => IInv /\ CountInv
  BY InitInv, CountInit
<1>2. (IInv /\ CountInv) /\ [Next]_vars => (IInv /\ CountInv)'
  BY StepInv, CountStep DEF IInv
<1>3. IInv /\ CountInv => InsertsBoundedByFaults
  BY BalanceBounds DEF IInv
<1> QED
  BY <1>1, <1>2, <1>3, PTL DEF Spec

=============================================================================
