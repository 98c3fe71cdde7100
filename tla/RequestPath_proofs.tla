-------------------------- MODULE RequestPath_proofs --------------------------
(***************************************************************************)
(* Theorems about the request path, for any number of requests, workers,   *)
(* deliveries and slots and under any combination of faults.               *)
(*                                                                         *)
(* The safety invariants of RequestPath are not inductive: that a          *)
(* redelivery finds only attempts that are gone or whose ack was lost      *)
(* depends on what the queue knows of each message, and that on what the   *)
(* handlers have done.  The inductive invariant adds QueueInv (the queue's *)
(* own bookkeeping), AttemptInv (how far an attempt can be, given the      *)
(* state of its message and of its ack) and RedeliveryInv (who is left     *)
(* when the queue redelivers).                                             *)
(***************************************************************************)
EXTENDS RequestPath, SequenceTheorems, FiniteSetTheorems, TLAPS

Gone    == {"dead", "dropped"}
Settled == {"acked", "finished"}

QueueAt(r) ==
    /\ gw[r] \in {"idle", "listening"} => msg[r] = "none"
    /\ msg[r] = "none" => deliveries[r] = 0
    /\ msg[r] = "queued" => deliveries[r] < MaxDeliver
    /\ msg[r] = "pending" =>
          deliveries[r] > 0 /\ pc[<<r, deliveries[r]>>] # "none"

AttemptAt(r, d) ==
    /\ d > deliveries[r] => pc[<<r, d>>] = "none"
    /\ bill[<<r, d>>] # "none" => pc[<<r, d>>] = "finished"
    /\ on[<<r, d>>] # NoWorker => pc[<<r, d>>] \in Live
    /\ pc[<<r, d>>] \in Settled /\ <<r, d>> \notin lost
          => msg[r] \notin InQueue
    /\ <<r, d>> \in lost => pc[<<r, d>>] \in Settled \cup Gone

RedeliveryAt(r, d) ==
    /\ ~stalled[r]
    /\ d < deliveries[r] \/ (d = deliveries[r] /\ msg[r] = "queued")
    => pc[<<r, d>>] \in Gone \/ <<r, d>> \in lost

QueueInv      == \A r \in Requests : QueueAt(r)
AttemptInv    == \A r \in Requests, d \in 1..MaxDeliver : AttemptAt(r, d)
RedeliveryInv == \A r \in Requests, d \in 1..MaxDeliver : RedeliveryAt(r, d)

IInv == TypeOK /\ QueueInv /\ AttemptInv /\ RedeliveryInv

-----------------------------------------------------------------------------
\* Type correctness, one group of variables at a time.

LEMMA GatewayTypeStep ==
  ASSUME GatewayTypeOK, ListenerTypeOK, [Next]_vars
  PROVE  GatewayTypeOK'
<1>1. ASSUME NEW r \in Requests, ClientHangup(r)
      PROVE  GatewayTypeOK'
  BY <1>1 DEF ClientHangup, GatewayTypeOK
<1>2. ASSUME NEW r \in Requests, Expire(r)
      PROVE  GatewayTypeOK'
  BY <1>2 DEF Expire, GatewayTypeOK
<1>3. ASSUME NEW r \in Requests, Listen(r)
      PROVE  GatewayTypeOK'
  BY <1>3 DEF Listen, GatewayTypeOK
<1>4. ASSUME NEW r \in Requests, Publish(r)
      PROVE  GatewayTypeOK'
  BY <1>4 DEF Publish, GatewayTypeOK
<1>5. ASSUME NEW r \in Requests, PublishFails(r)
      PROVE  GatewayTypeOK'
  BY <1>5 DEF PublishFails, GatewayTypeOK
<1>6. ASSUME NEW r \in Requests, ReadChunk(r)
      PROVE  GatewayTypeOK'
  <2>1. Head(chan[r]) \in Frame
    BY <1>6, HeadTailProperties DEF ListenerTypeOK, ReadChunk, Readable
  <2>2. <<Head(chan[r]).from, Head(chan[r]).seq>> \in (1..MaxDeliver) \X Nat
    BY <2>1 DEF Frame
  <2>3. Append(out[r], <<Head(chan[r]).from, Head(chan[r]).seq>>)
          \in Seq((1..MaxDeliver) \X Nat)
    BY <2>2, AppendProperties DEF GatewayTypeOK
  <2>4. QED
    BY <1>6, <2>3 DEF ReadChunk, GatewayTypeOK
<1>7. ASSUME NEW r \in Requests, ReadTerminal(r)
      PROVE  GatewayTypeOK'
  <2>1. Head(chan[r]) \in Frame
    BY <1>7, HeadTailProperties DEF ListenerTypeOK, ReadTerminal, Readable
  <2>2. Head(chan[r]).kind \in {"done", "result", "error"}
    BY <1>7, <2>1 DEF ReadTerminal, Frame
  <2>3. QED
    BY <1>7, <2>2 DEF ReadTerminal, GatewayTypeOK
<1>8. ASSUME NEW r \in Requests, ReadGap(r)
      PROVE  GatewayTypeOK'
  BY <1>8 DEF ReadGap, StopReading, GatewayTypeOK
<1>9. ASSUME NEW r \in Requests, ReadTimesOut(r)
      PROVE  GatewayTypeOK'
  BY <1>9 DEF ReadTimesOut, StopReading, GatewayTypeOK
<1>10. ASSUME NEW r \in Requests, ReadCanceled(r)
      PROVE  GatewayTypeOK'
  BY <1>10 DEF ReadCanceled, StopReading, GatewayTypeOK
<1>11. ASSUME NEW r \in Requests, Cancel(r)
      PROVE  GatewayTypeOK'
  BY <1>11 DEF Cancel, GatewayTypeOK
<1>12. ASSUME NEW r \in Requests, DeleteQueued(r)
      PROVE  GatewayTypeOK'
  BY <1>12 DEF DeleteQueued, GatewayTypeOK
<1>13. ASSUME NEW r \in Requests,
             AckTimeout(r) \/ AgeOut(r)
      PROVE  UNCHANGED gatewayVars
  BY <1>13
  DEF    AckTimeout, AgeOut,
         gatewayVars
<1>14. ASSUME NEW r \in Requests, NEW w \in Workers,
             Deliver(r, w)
      PROVE  UNCHANGED gatewayVars
  BY <1>14
  DEF    Deliver,
         gatewayVars
<1>15. ASSUME NEW r \in Requests, NEW d \in 1..MaxDeliver,
             DiscardExpired(r, d) \/ Start(r, d) \/ DeadlineFires(r, d) \/
             EngineCanceled(r, d) \/ Ack(r, d) \/ Meter(r, d) \/
             EmitChunk(r, d) \/ EngineSucceeds(r, d) \/ EngineFails(r, d)
      PROVE  UNCHANGED gatewayVars
  BY <1>15
  DEF    DiscardExpired, Start, DeadlineFires, EngineCanceled, Ack,
         Meter, EmitChunk, Send, EngineSucceeds, EngineFails,
         gatewayVars
<1>16. ASSUME NEW w \in Workers,
             Crash(w) \/ Shutdown(w) \/ StopConsumer(w) \/ Restart(w)
      PROVE  UNCHANGED gatewayVars
  BY <1>16
  DEF    Crash, Lose, Shutdown, StopConsumer, Restart,
         gatewayVars
<1>17. CASE UNCHANGED gatewayVars
  BY <1>17 DEF GatewayTypeOK, gatewayVars
<1>18. QED
  BY <1>1, <1>2, <1>3, <1>4, <1>5, <1>6, <1>7, <1>8, <1>9, <1>10,
     <1>11, <1>12, <1>13, <1>14, <1>15, <1>16, <1>17
  DEF Next, GatewayStep, HandlerStep, EngineStep, vars

\* What an attempt sends is a frame, and a channel that takes it holds frames.
LEMMA FrameAppended ==
  ASSUME ListenerTypeOK, AttemptTypeOK, NEW r \in Requests,
         NEW d \in 1..MaxDeliver,
         NEW kind \in {"chunk", "done", "result", "error"}
  PROVE  Append(chan[r], [kind |-> kind, seq |-> seq[<<r, d>>], from |-> d])
            \in Seq(Frame)
<1>1. chan[r] \in Seq(Frame)
  BY DEF ListenerTypeOK
<1>2. seq[<<r, d>>] \in Nat
  BY DEF AttemptTypeOK, Attempts
<1>3. PICK f \in Frame :
         f = [kind |-> kind, seq |-> seq[<<r, d>>], from |-> d]
  BY <1>2 DEF Frame
<1>4. Append(chan[r], f) \in Seq(Frame)
  BY <1>1, AppendProperties
<1>5. QED
  BY <1>3, <1>4

LEMMA ListenerTypeStep ==
  ASSUME ListenerTypeOK, AttemptTypeOK, [Next]_vars
  PROVE  ListenerTypeOK'
<1>1. ASSUME NEW r \in Requests, ReadChunk(r)
      PROVE  ListenerTypeOK'
  <2>1. Tail(chan[r]) \in Seq(Frame)
    BY <1>1, HeadTailProperties DEF ListenerTypeOK, ReadChunk, Readable
  <2>2. QED
    BY <1>1, <2>1 DEF ReadChunk, ListenerTypeOK
<1>2. ASSUME NEW r \in Requests, ReadTerminal(r)
      PROVE  ListenerTypeOK'
  BY <1>2 DEF ReadTerminal, ListenerTypeOK
<1>3. ASSUME NEW r \in Requests, ReadGap(r)
      PROVE  ListenerTypeOK'
  BY <1>3 DEF ReadGap, StopReading, ListenerTypeOK
<1>4. ASSUME NEW r \in Requests, ReadTimesOut(r)
      PROVE  ListenerTypeOK'
  BY <1>4 DEF ReadTimesOut, StopReading, ListenerTypeOK
<1>5. ASSUME NEW r \in Requests, ReadCanceled(r)
      PROVE  ListenerTypeOK'
  BY <1>5 DEF ReadCanceled, StopReading, ListenerTypeOK
<1>6. ASSUME NEW r \in Requests, NEW d \in 1..MaxDeliver, EmitChunk(r, d)
      PROVE  ListenerTypeOK'
  <2>1. \A kind \in {"chunk", "done", "result", "error"} :
          Append(chan[r], [kind |-> kind, seq |-> seq[<<r, d>>], from |-> d])
            \in Seq(Frame)
    BY FrameAppended
  <2>2. QED
    BY <1>6, <2>1 DEF EmitChunk, Send, ListenerTypeOK
<1>7. ASSUME NEW r \in Requests, NEW d \in 1..MaxDeliver, EngineSucceeds(r, d)
      PROVE  ListenerTypeOK'
  <2>1. \A kind \in {"chunk", "done", "result", "error"} :
          Append(chan[r], [kind |-> kind, seq |-> seq[<<r, d>>], from |-> d])
            \in Seq(Frame)
    BY FrameAppended
  <2>2. QED
    BY <1>7, <2>1 DEF EngineSucceeds, Send, ListenerTypeOK
<1>8. ASSUME NEW r \in Requests, NEW d \in 1..MaxDeliver, EngineFails(r, d)
      PROVE  ListenerTypeOK'
  <2>1. \A kind \in {"chunk", "done", "result", "error"} :
          Append(chan[r], [kind |-> kind, seq |-> seq[<<r, d>>], from |-> d])
            \in Seq(Frame)
    BY FrameAppended
  <2>2. QED
    BY <1>8, <2>1 DEF EngineFails, Send, ListenerTypeOK
<1>9. ASSUME NEW r \in Requests,
             ClientHangup(r) \/ Expire(r) \/ Listen(r) \/ Publish(r) \/
             PublishFails(r) \/ Cancel(r) \/ DeleteQueued(r) \/
             AckTimeout(r) \/ AgeOut(r)
      PROVE  UNCHANGED listenerVars
  BY <1>9
  DEF    ClientHangup, Expire, Listen, Publish, PublishFails, Cancel,
         DeleteQueued, AckTimeout, AgeOut,
         listenerVars
<1>10. ASSUME NEW r \in Requests, NEW w \in Workers,
             Deliver(r, w)
      PROVE  UNCHANGED listenerVars
  BY <1>10
  DEF    Deliver,
         listenerVars
<1>11. ASSUME NEW r \in Requests, NEW d \in 1..MaxDeliver,
             DiscardExpired(r, d) \/ Start(r, d) \/ DeadlineFires(r, d) \/
             EngineCanceled(r, d) \/ Ack(r, d) \/ Meter(r, d)
      PROVE  UNCHANGED listenerVars
  BY <1>11
  DEF    DiscardExpired, Start, DeadlineFires, EngineCanceled, Ack,
         Meter,
         listenerVars
<1>12. ASSUME NEW w \in Workers,
             Crash(w) \/ Shutdown(w) \/ StopConsumer(w) \/ Restart(w)
      PROVE  UNCHANGED listenerVars
  BY <1>12
  DEF    Crash, Lose, Shutdown, StopConsumer, Restart,
         listenerVars
<1>13. CASE UNCHANGED listenerVars
  BY <1>13 DEF ListenerTypeOK, listenerVars
<1>14. QED
  BY <1>1, <1>2, <1>3, <1>4, <1>5, <1>6, <1>7, <1>8, <1>9, <1>10,
     <1>11, <1>12, <1>13
  DEF Next, GatewayStep, HandlerStep, EngineStep, vars

LEMMA QueueTypeStep ==
  ASSUME QueueTypeOK, QueueInv, [Next]_vars
  PROVE  QueueTypeOK'
<1>1. ASSUME NEW r \in Requests, Publish(r)
      PROVE  QueueTypeOK'
  BY <1>1 DEF Publish, QueueTypeOK, InQueue
<1>2. ASSUME NEW r \in Requests, PublishFails(r)
      PROVE  QueueTypeOK'
  BY <1>2 DEF PublishFails, QueueTypeOK, InQueue
<1>3. ASSUME NEW r \in Requests, DeleteQueued(r)
      PROVE  QueueTypeOK'
  BY <1>3 DEF DeleteQueued, QueueTypeOK, InQueue
<1>4. ASSUME NEW r \in Requests, NEW w \in Workers, Deliver(r, w)
      PROVE  QueueTypeOK'
  <2>1. deliveries[r] \in 0..MaxDeliver
    BY DEF QueueTypeOK
  <2>2. deliveries[r] < MaxDeliver
    BY <1>4 DEF Deliver, QueueInv, QueueAt
  <2>3. deliveries[r] + 1 \in 0..MaxDeliver
    BY <2>1, <2>2, RequestPathAssumption
  <2>4. QED
    BY <1>4, <2>3 DEF Deliver, QueueTypeOK, InQueue
<1>5. ASSUME NEW r \in Requests, AckTimeout(r)
      PROVE  QueueTypeOK'
  BY <1>5 DEF AckTimeout, QueueTypeOK, InQueue
<1>6. ASSUME NEW r \in Requests, AgeOut(r)
      PROVE  QueueTypeOK'
  BY <1>6 DEF AgeOut, QueueTypeOK, InQueue
<1>7. ASSUME NEW r \in Requests, NEW d \in 1..MaxDeliver, Ack(r, d)
      PROVE  QueueTypeOK'
  BY <1>7 DEF Ack, QueueTypeOK, InQueue, Attempts
<1>8. ASSUME NEW r \in Requests,
             ClientHangup(r) \/ Expire(r) \/ Listen(r) \/ ReadChunk(r) \/
             ReadTerminal(r) \/ ReadGap(r) \/ ReadTimesOut(r) \/
             ReadCanceled(r) \/ Cancel(r)
      PROVE  UNCHANGED queueVars
  BY <1>8
  DEF    ClientHangup, Expire, Listen, ReadChunk, ReadTerminal,
         ReadGap, StopReading, ReadTimesOut, ReadCanceled, Cancel,
         queueVars
<1>9. ASSUME NEW r \in Requests, NEW d \in 1..MaxDeliver,
             DiscardExpired(r, d) \/ Start(r, d) \/ DeadlineFires(r, d) \/
             EngineCanceled(r, d) \/ Meter(r, d) \/ EmitChunk(r, d) \/
             EngineSucceeds(r, d) \/ EngineFails(r, d)
      PROVE  UNCHANGED queueVars
  BY <1>9
  DEF    DiscardExpired, Start, DeadlineFires, EngineCanceled, Meter,
         EmitChunk, Send, EngineSucceeds, EngineFails,
         queueVars
<1>10. ASSUME NEW w \in Workers,
             Crash(w) \/ Shutdown(w) \/ StopConsumer(w) \/ Restart(w)
      PROVE  UNCHANGED queueVars
  BY <1>10
  DEF    Crash, Lose, Shutdown, StopConsumer, Restart,
         queueVars
<1>11. CASE UNCHANGED queueVars
  BY <1>11 DEF QueueTypeOK, InQueue, queueVars
<1>12. QED
  BY <1>1, <1>2, <1>3, <1>4, <1>5, <1>6, <1>7, <1>8, <1>9, <1>10, <1>11
  DEF Next, GatewayStep, HandlerStep, EngineStep, vars

LEMMA AttemptTypeStep ==
  ASSUME TypeOK, QueueInv, [Next]_vars
  PROVE  AttemptTypeOK'
<1>1. ASSUME NEW r \in Requests, Cancel(r)
      PROVE  AttemptTypeOK'
  BY <1>1 DEF Cancel, TypeOK, AttemptTypeOK, Attempts, Live
<1>2. ASSUME NEW r \in Requests, NEW w \in Workers, Deliver(r, w)
      PROVE  AttemptTypeOK'
  BY <1>2 DEF Deliver, TypeOK, AttemptTypeOK, Attempts, Live
<1>3. ASSUME NEW r \in Requests, NEW d \in 1..MaxDeliver, DiscardExpired(r, d)
      PROVE  AttemptTypeOK'
  BY <1>3 DEF DiscardExpired, TypeOK, AttemptTypeOK, Attempts, Live
<1>4. ASSUME NEW r \in Requests, NEW d \in 1..MaxDeliver, Start(r, d)
      PROVE  AttemptTypeOK'
  BY <1>4 DEF Start, TypeOK, AttemptTypeOK, Attempts, Live
<1>5. ASSUME NEW r \in Requests, NEW d \in 1..MaxDeliver, DeadlineFires(r, d)
      PROVE  AttemptTypeOK'
  BY <1>5 DEF DeadlineFires, TypeOK, AttemptTypeOK, Attempts, Live
<1>6. ASSUME NEW r \in Requests, NEW d \in 1..MaxDeliver, EngineCanceled(r, d)
      PROVE  AttemptTypeOK'
  BY <1>6 DEF EngineCanceled, TypeOK, AttemptTypeOK, Attempts, Live
<1>7. ASSUME NEW r \in Requests, NEW d \in 1..MaxDeliver, Ack(r, d)
      PROVE  AttemptTypeOK'
  BY <1>7 DEF Ack, TypeOK, AttemptTypeOK, Attempts, Live
<1>8. ASSUME NEW r \in Requests, NEW d \in 1..MaxDeliver, Meter(r, d)
      PROVE  AttemptTypeOK'
  BY <1>8 DEF Meter, TypeOK, AttemptTypeOK, Attempts, Live
<1>9. ASSUME NEW r \in Requests, NEW d \in 1..MaxDeliver, EmitChunk(r, d)
      PROVE  AttemptTypeOK'
  <2>1. /\ seq' = [seq EXCEPT ![<<r, d>>] = seq[<<r, d>>] + 1]
        /\ UNCHANGED pc
        /\ UNCHANGED outcome
        /\ UNCHANGED <<on, cause, bill>>
    BY <1>9 DEF EmitChunk, Send
  <2>2. seq \in [Attempts -> Nat] /\ <<r, d>> \in Attempts
    BY DEF TypeOK, AttemptTypeOK, Attempts
  <2>3. seq' \in [Attempts -> Nat]
    BY <2>1, <2>2
  <2>4. QED
    BY <2>1, <2>2, <2>3 DEF TypeOK, AttemptTypeOK, Live
<1>10. ASSUME NEW r \in Requests, NEW d \in 1..MaxDeliver, EngineSucceeds(r, d)
      PROVE  AttemptTypeOK'
  <2>1. /\ seq' = [seq EXCEPT ![<<r, d>>] = seq[<<r, d>>] + 1]
        /\ pc' = [pc EXCEPT ![<<r, d>>] = "replied"]
        /\ outcome' = [outcome EXCEPT ![<<r, d>>] = "ok"]
        /\ UNCHANGED <<on, cause, bill>>
    BY <1>10 DEF EngineSucceeds, Send
  <2>2. seq \in [Attempts -> Nat] /\ <<r, d>> \in Attempts
    BY DEF TypeOK, AttemptTypeOK, Attempts
  <2>3. seq' \in [Attempts -> Nat]
    BY <2>1, <2>2
  <2>4. QED
    BY <2>1, <2>2, <2>3 DEF TypeOK, AttemptTypeOK, Live
<1>11. ASSUME NEW r \in Requests, NEW d \in 1..MaxDeliver, EngineFails(r, d)
      PROVE  AttemptTypeOK'
  <2>1. /\ seq' = [seq EXCEPT ![<<r, d>>] = seq[<<r, d>>] + 1]
        /\ pc' = [pc EXCEPT ![<<r, d>>] = "replied"]
        /\ outcome' = [outcome EXCEPT ![<<r, d>>] = "error"]
        /\ UNCHANGED <<on, cause, bill>>
    BY <1>11 DEF EngineFails, Send
  <2>2. seq \in [Attempts -> Nat] /\ <<r, d>> \in Attempts
    BY DEF TypeOK, AttemptTypeOK, Attempts
  <2>3. seq' \in [Attempts -> Nat]
    BY <2>1, <2>2
  <2>4. QED
    BY <2>1, <2>2, <2>3 DEF TypeOK, AttemptTypeOK, Live
<1>12. ASSUME NEW w \in Workers, Crash(w)
      PROVE  AttemptTypeOK'
  BY <1>12 DEF Crash, Lose, TypeOK, AttemptTypeOK, Attempts, Live
<1>13. ASSUME NEW w \in Workers, Shutdown(w)
      PROVE  AttemptTypeOK'
  BY <1>13 DEF Shutdown, TypeOK, AttemptTypeOK, Attempts, Live
<1>14. ASSUME NEW w \in Workers, StopConsumer(w)
      PROVE  AttemptTypeOK'
  BY <1>14 DEF StopConsumer, Lose, TypeOK, AttemptTypeOK, Attempts, Live
<1>15. ASSUME NEW r \in Requests,
             ClientHangup(r) \/ Expire(r) \/ Listen(r) \/ Publish(r) \/
             PublishFails(r) \/ ReadChunk(r) \/ ReadTerminal(r) \/
             ReadGap(r) \/ ReadTimesOut(r) \/ ReadCanceled(r) \/
             DeleteQueued(r) \/ AckTimeout(r) \/ AgeOut(r)
      PROVE  UNCHANGED attemptVars
  BY <1>15
  DEF    ClientHangup, Expire, Listen, Publish, PublishFails,
         ReadChunk, ReadTerminal, ReadGap, StopReading, ReadTimesOut,
         ReadCanceled, DeleteQueued, AckTimeout, AgeOut,
         attemptVars
<1>16. ASSUME NEW w \in Workers,
             Restart(w)
      PROVE  UNCHANGED attemptVars
  BY <1>16
  DEF    Restart,
         attemptVars
<1>17. CASE UNCHANGED attemptVars
  BY <1>17 DEF TypeOK, AttemptTypeOK, Attempts, Live, attemptVars
<1>18. QED
  BY <1>1, <1>2, <1>3, <1>4, <1>5, <1>6, <1>7, <1>8, <1>9, <1>10,
     <1>11, <1>12, <1>13, <1>14, <1>15, <1>16, <1>17
  DEF Next, GatewayStep, HandlerStep, EngineStep, vars

-----------------------------------------------------------------------------
USE DEF gatewayVars, listenerVars, queueVars, attemptVars

LEMMA WorkerTypeStep ==
  ASSUME wk \in [Workers -> {"up", "draining", "stopped"}], [Next]_vars
  PROVE  (wk \in [Workers -> {"up", "draining", "stopped"}])'
<1>1. ASSUME NEW w \in Workers, Crash(w)
      PROVE  (wk \in [Workers -> {"up", "draining", "stopped"}])'
  BY <1>1 DEF Crash, Lose
<1>2. ASSUME NEW w \in Workers, Shutdown(w)
      PROVE  (wk \in [Workers -> {"up", "draining", "stopped"}])'
  BY <1>2 DEF Shutdown
<1>3. ASSUME NEW w \in Workers, StopConsumer(w)
      PROVE  (wk \in [Workers -> {"up", "draining", "stopped"}])'
  BY <1>3 DEF StopConsumer, Lose
<1>4. ASSUME NEW w \in Workers, Restart(w)
      PROVE  (wk \in [Workers -> {"up", "draining", "stopped"}])'
  BY <1>4 DEF Restart
<1>5. ASSUME NEW r \in Requests,
             ClientHangup(r) \/ Expire(r) \/ Listen(r) \/ Publish(r) \/
             PublishFails(r) \/ ReadChunk(r) \/ ReadTerminal(r) \/
             ReadGap(r) \/ ReadTimesOut(r) \/ ReadCanceled(r) \/
             Cancel(r) \/ DeleteQueued(r) \/ AckTimeout(r) \/ AgeOut(r)
      PROVE  UNCHANGED wk
  BY <1>5
  DEF ClientHangup, Expire, Listen, Publish, PublishFails, ReadChunk,
      ReadTerminal, ReadGap, StopReading, ReadTimesOut, ReadCanceled,
      Cancel, DeleteQueued, AckTimeout, AgeOut
<1>6. ASSUME NEW r \in Requests, NEW w \in Workers,
             Deliver(r, w)
      PROVE  UNCHANGED wk
  BY <1>6 DEF Deliver
<1>7. ASSUME NEW r \in Requests, NEW d \in 1..MaxDeliver,
             DiscardExpired(r, d) \/ Start(r, d) \/ DeadlineFires(r, d)
             \/ EngineCanceled(r, d) \/ Ack(r, d) \/ Meter(r, d) \/
             EmitChunk(r, d) \/ EngineSucceeds(r, d) \/ EngineFails(r, d)
      PROVE  UNCHANGED wk
  BY <1>7
  DEF DiscardExpired, Start, DeadlineFires, EngineCanceled, Ack, Meter,
      EmitChunk, Send, EngineSucceeds, EngineFails
<1>8. CASE UNCHANGED wk
  BY <1>8
<1>9. QED
  BY <1>1, <1>2, <1>3, <1>4, <1>5, <1>6, <1>7, <1>8
  DEF Next, GatewayStep, HandlerStep, EngineStep, vars

LEMMA TypeStep ==
  ASSUME TypeOK, QueueInv, [Next]_vars
  PROVE  TypeOK'
BY GatewayTypeStep, ListenerTypeStep, QueueTypeStep, AttemptTypeStep,
   WorkerTypeStep
DEF TypeOK

-----------------------------------------------------------------------------
\* What the steps of a handler, and the loss of some handlers, do to the pc of
\* an attempt, and what they leave alone.

LEMMA HandlerEffect ==
  ASSUME TypeOK, NEW r \in Requests, NEW d \in 1..MaxDeliver,
         DiscardExpired(r, d) \/ Start(r, d) \/ EngineCanceled(r, d)
         \/ EngineSucceeds(r, d) \/ EngineFails(r, d)
  PROVE  /\ UNCHANGED <<gw, msg, deliveries, stalled, lost, on, bill>>
         /\ pc[<<r, d>>] \in {"buffered", "running"}
         /\ pc'[<<r, d>>] \in {"running", "replied"}
         /\ \A a \in Attempts : a # <<r, d>> => pc'[a] = pc[a]
<1>1. /\ UNCHANGED <<gw, msg, deliveries, stalled, lost, on, bill>>
      /\ pc[<<r, d>>] \in {"buffered", "running"}
      /\ \/ pc' = [pc EXCEPT ![<<r, d>>] = "running"]
         \/ pc' = [pc EXCEPT ![<<r, d>>] = "replied"]
  BY DEF DiscardExpired, Start, EngineCanceled, EngineSucceeds, EngineFails
<1>2. /\ pc \in [Attempts -> Live \cup {"none", "finished", "dropped", "dead"}]
      /\ <<r, d>> \in Attempts
  BY DEF TypeOK, AttemptTypeOK, Attempts
<1>3. QED
  BY <1>1, <1>2

LEMMA AckEffect ==
  ASSUME TypeOK, NEW r \in Requests, NEW d \in 1..MaxDeliver, Ack(r, d)
  PROVE  /\ UNCHANGED <<deliveries, stalled, on, bill>>
         /\ pc[<<r, d>>] = "replied" /\ pc'[<<r, d>>] = "acked"
         /\ \A a \in Attempts : a # <<r, d>> =>
               pc'[a] = pc[a] /\ (a \in lost' <=> a \in lost)
         /\ lost \subseteq lost'
         /\ \A q \in Requests : msg'[q] \in {msg[q], "acked"}
         /\ msg'[r] \notin InQueue \/ <<r, d>> \in lost'
<1>1. /\ pc \in [Attempts -> Live \cup {"none", "finished", "dropped", "dead"}]
      /\ msg \in [Requests -> InQueue \cup {"none", "acked", "removed",
                                            "exhausted"}]
      /\ <<r, d>> \in Attempts
  BY DEF TypeOK, AttemptTypeOK, QueueTypeOK, Attempts
<1>2. CASE /\ msg' = [msg EXCEPT ![r] = IF @ \in InQueue THEN "acked" ELSE @]
           /\ UNCHANGED lost
  BY <1>1, <1>2 DEF Ack, InQueue
<1>3. CASE lost' = lost \cup {<<r, d>>} /\ UNCHANGED msg
  BY <1>1, <1>3 DEF Ack
<1>4. QED
  BY <1>2, <1>3 DEF Ack

LEMMA LossEffect ==
  ASSUME TypeOK, AttemptInv, NEW w \in Workers, Crash(w) \/ StopConsumer(w)
  PROVE  /\ UNCHANGED <<gw, msg, deliveries, stalled, lost, bill>>
         /\ \A a \in Attempts :
               \/ pc'[a] = pc[a] /\ on'[a] = on[a]
               \/ pc[a] \in Live /\ pc'[a] \in Gone /\ on'[a] = NoWorker
<1>1. \A a \in Attempts : on[a] = w => pc[a] \in Live
  BY RequestPathAssumption DEF AttemptInv, AttemptAt, Attempts
<1>2. QED
  BY <1>1 DEF Crash, StopConsumer, Lose, LiveOn, Gone

-----------------------------------------------------------------------------
\* What the queue knows of a message.

LEMMA QueueStep ==
  ASSUME TypeOK, QueueInv, AttemptInv, [Next]_vars
  PROVE  QueueInv'
<1> SUFFICES ASSUME NEW q \in Requests
             PROVE  QueueAt(q)'
  BY DEF QueueInv
<1> QueueAt(q)
  BY DEF QueueInv
<1> deliveries[q] > 0 => <<q, deliveries[q]>> \in Attempts
  BY RequestPathAssumption DEF TypeOK, QueueTypeOK, Attempts
<1>1. ASSUME NEW r \in Requests, Listen(r)
      PROVE  QueueAt(q)'
  BY <1>1, RequestPathAssumption
  DEF Listen, QueueAt, TypeOK, GatewayTypeOK, QueueTypeOK,
      AttemptTypeOK, Attempts, InQueue
<1>2. ASSUME NEW r \in Requests, Publish(r)
      PROVE  QueueAt(q)'
  BY <1>2, RequestPathAssumption
  DEF Publish, QueueAt, TypeOK, GatewayTypeOK, QueueTypeOK,
      AttemptTypeOK, Attempts, InQueue
<1>3. ASSUME NEW r \in Requests, PublishFails(r)
      PROVE  QueueAt(q)'
  BY <1>3, RequestPathAssumption
  DEF PublishFails, QueueAt, TypeOK, GatewayTypeOK, QueueTypeOK,
      AttemptTypeOK, Attempts, InQueue
<1>4. ASSUME NEW r \in Requests, ReadTerminal(r)
      PROVE  QueueAt(q)'
  BY <1>4, RequestPathAssumption
  DEF ReadTerminal, QueueAt, TypeOK, GatewayTypeOK, QueueTypeOK,
      AttemptTypeOK, Attempts, InQueue
<1>5. ASSUME NEW r \in Requests,
             ReadGap(r) \/ ReadTimesOut(r) \/ ReadCanceled(r)
      PROVE  QueueAt(q)'
  <2>1. /\ UNCHANGED <<msg, deliveries, pc>>
        /\ gw' = [gw EXCEPT ![r] = "cancel"]
    BY <1>5 DEF ReadGap, ReadTimesOut, ReadCanceled, StopReading
  <2>2. gw[r] = "reading"
    BY <1>5 DEF ReadGap, ReadTimesOut, ReadCanceled, Readable
  <2>3. QED
    BY <2>1, <2>2 DEF QueueAt, TypeOK, GatewayTypeOK
<1>6. ASSUME NEW r \in Requests, Cancel(r)
      PROVE  QueueAt(q)'
  BY <1>6, RequestPathAssumption
  DEF Cancel, QueueAt, TypeOK, GatewayTypeOK, QueueTypeOK,
      AttemptTypeOK, Attempts, InQueue
<1>7. ASSUME NEW r \in Requests, DeleteQueued(r)
      PROVE  QueueAt(q)'
  BY <1>7, RequestPathAssumption
  DEF DeleteQueued, QueueAt, TypeOK, GatewayTypeOK, QueueTypeOK,
      AttemptTypeOK, Attempts, InQueue
<1>8. ASSUME NEW r \in Requests, NEW w \in Workers, Deliver(r, w)
      PROVE  QueueAt(q)'
  BY <1>8, RequestPathAssumption
  DEF Deliver, QueueAt, TypeOK, GatewayTypeOK, QueueTypeOK,
      AttemptTypeOK, Attempts, InQueue
<1>9. ASSUME NEW r \in Requests, AckTimeout(r)
      PROVE  QueueAt(q)'
  BY <1>9, RequestPathAssumption
  DEF AckTimeout, QueueAt, TypeOK, GatewayTypeOK, QueueTypeOK,
      AttemptTypeOK, Attempts, InQueue
<1>10. ASSUME NEW r \in Requests, AgeOut(r)
      PROVE  QueueAt(q)'
  BY <1>10, RequestPathAssumption
  DEF AgeOut, QueueAt, TypeOK, GatewayTypeOK, QueueTypeOK,
      AttemptTypeOK, Attempts, InQueue
<1>11. ASSUME NEW r \in Requests, NEW d \in 1..MaxDeliver,
             DiscardExpired(r, d) \/ Start(r, d) \/ EngineCanceled(r, d)
             \/ EngineSucceeds(r, d) \/ EngineFails(r, d)
      PROVE  QueueAt(q)'
  <2>1. deliveries[q] > 0 => pc'[<<q, deliveries[q]>>] # "none"
               \/ pc'[<<q, deliveries[q]>>] = pc[<<q, deliveries[q]>>]
    BY <1>11, HandlerEffect
  <2>2. UNCHANGED <<gw, msg, deliveries>>
    BY <1>11, HandlerEffect
  <2>3. QED
    BY <2>1, <2>2 DEF QueueAt
<1>12. ASSUME NEW r \in Requests, NEW d \in 1..MaxDeliver, Ack(r, d)
      PROVE  QueueAt(q)'
  BY <1>12, RequestPathAssumption
  DEF Ack, QueueAt, TypeOK, GatewayTypeOK, QueueTypeOK, AttemptTypeOK,
      Attempts, InQueue
<1>13. ASSUME NEW r \in Requests, NEW d \in 1..MaxDeliver, Meter(r, d)
      PROVE  QueueAt(q)'
  BY <1>13, RequestPathAssumption
  DEF Meter, QueueAt, TypeOK, GatewayTypeOK, QueueTypeOK, AttemptTypeOK,
      Attempts, InQueue
<1>14. ASSUME NEW w \in Workers, Crash(w) \/ StopConsumer(w)
      PROVE  QueueAt(q)'
  BY <1>14, LossEffect DEF QueueAt, Gone
<1>15. ASSUME NEW r \in Requests,
             ClientHangup(r) \/ Expire(r) \/ ReadChunk(r)
      PROVE  UNCHANGED <<gw, msg, deliveries, pc>>
  BY <1>15 DEF ClientHangup, Expire, ReadChunk
<1>16. ASSUME NEW r \in Requests, NEW d \in 1..MaxDeliver,
             DeadlineFires(r, d) \/ EmitChunk(r, d)
      PROVE  UNCHANGED <<gw, msg, deliveries, pc>>
  BY <1>16 DEF DeadlineFires, EmitChunk, Send
<1>17. ASSUME NEW w \in Workers,
             Shutdown(w) \/ Restart(w)
      PROVE  UNCHANGED <<gw, msg, deliveries, pc>>
  BY <1>17 DEF Shutdown, Restart
<1>18. CASE UNCHANGED <<gw, msg, deliveries, pc>>
  BY <1>18 DEF QueueAt
<1>19. QED
  BY <1>1, <1>2, <1>3, <1>4, <1>5, <1>6, <1>7, <1>8, <1>9, <1>10, <1>11,
     <1>12, <1>13, <1>14, <1>15, <1>16, <1>17, <1>18
  DEF Next, GatewayStep, HandlerStep, EngineStep, vars

-----------------------------------------------------------------------------
\* How far an attempt can be.

LEMMA AttemptStep ==
  ASSUME TypeOK, QueueInv, AttemptInv, [Next]_vars
  PROVE  AttemptInv'
<1> SUFFICES ASSUME NEW q \in Requests, NEW e \in 1..MaxDeliver
             PROVE  AttemptAt(q, e)'
  BY DEF AttemptInv
<1> QueueAt(q) /\ AttemptAt(q, e)
  BY DEF QueueInv, AttemptInv
<1> <<q, e>> \in Attempts
  BY DEF Attempts
<1>1. ASSUME NEW r \in Requests, Publish(r)
      PROVE  AttemptAt(q, e)'
  BY <1>1, RequestPathAssumption
  DEF Publish, QueueAt, AttemptAt, Settled, Gone, Live, TypeOK, GatewayTypeOK,
      QueueTypeOK, AttemptTypeOK, Attempts, InQueue
<1>2. ASSUME NEW r \in Requests, PublishFails(r)
      PROVE  AttemptAt(q, e)'
  BY <1>2, RequestPathAssumption
  DEF PublishFails, QueueAt, AttemptAt, Settled, Gone, Live, TypeOK,
      GatewayTypeOK, QueueTypeOK, AttemptTypeOK, Attempts, InQueue
<1>3. ASSUME NEW r \in Requests, DeleteQueued(r)
      PROVE  AttemptAt(q, e)'
  BY <1>3, RequestPathAssumption
  DEF DeleteQueued, QueueAt, AttemptAt, Settled, Gone, Live, TypeOK,
      GatewayTypeOK, QueueTypeOK, AttemptTypeOK, Attempts, InQueue
<1>4. ASSUME NEW r \in Requests, NEW w \in Workers, Deliver(r, w)
      PROVE  AttemptAt(q, e)'
  BY <1>4, RequestPathAssumption
  DEF Deliver, QueueAt, AttemptAt, Settled, Gone, Live, TypeOK, GatewayTypeOK,
      QueueTypeOK, AttemptTypeOK, Attempts, InQueue
<1>5. ASSUME NEW r \in Requests, AckTimeout(r)
      PROVE  AttemptAt(q, e)'
  BY <1>5, RequestPathAssumption
  DEF AckTimeout, QueueAt, AttemptAt, Settled, Gone, Live, TypeOK,
      GatewayTypeOK, QueueTypeOK, AttemptTypeOK, Attempts, InQueue
<1>6. ASSUME NEW r \in Requests, AgeOut(r)
      PROVE  AttemptAt(q, e)'
  BY <1>6, RequestPathAssumption
  DEF AgeOut, QueueAt, AttemptAt, Settled, Gone, Live, TypeOK, GatewayTypeOK,
      QueueTypeOK, AttemptTypeOK, Attempts, InQueue
<1>7. ASSUME NEW r \in Requests, NEW d \in 1..MaxDeliver,
             DiscardExpired(r, d) \/ Start(r, d) \/ EngineCanceled(r, d)
             \/ EngineSucceeds(r, d) \/ EngineFails(r, d)
      PROVE  AttemptAt(q, e)'
  BY <1>7, HandlerEffect DEF AttemptAt, Settled, Gone, Live
<1>8. ASSUME NEW r \in Requests, NEW d \in 1..MaxDeliver, Ack(r, d)
      PROVE  AttemptAt(q, e)'
  <2>1. CASE <<q, e>> = <<r, d>>
    BY <1>8, <2>1, AckEffect DEF AttemptAt, Settled, Live
  <2>2. CASE <<q, e>> # <<r, d>>
    BY <1>8, <2>2, AckEffect DEF AttemptAt, InQueue
  <2>3. QED
    BY <2>1, <2>2
<1>9. ASSUME NEW r \in Requests, NEW d \in 1..MaxDeliver, Meter(r, d)
      PROVE  AttemptAt(q, e)'
  <2>1. CASE <<q, e>> = <<r, d>>
    BY <1>9, <2>1 DEF Meter, AttemptAt, Settled, Gone, Live, TypeOK,
        AttemptTypeOK
  <2>2. CASE <<q, e>> # <<r, d>>
    BY <1>9, <2>2 DEF Meter, AttemptAt, TypeOK, AttemptTypeOK
  <2>3. QED
    BY <2>1, <2>2
<1>10. ASSUME NEW w \in Workers, Crash(w) \/ StopConsumer(w)
      PROVE  AttemptAt(q, e)'
  BY <1>10, LossEffect DEF AttemptAt, Settled, Gone, Live
<1>11. ASSUME NEW r \in Requests,
             ClientHangup(r) \/ Expire(r) \/ Listen(r) \/ ReadChunk(r) \/
             ReadTerminal(r) \/ ReadGap(r) \/ ReadTimesOut(r) \/
             ReadCanceled(r) \/ Cancel(r)
      PROVE  UNCHANGED <<msg, deliveries, lost, pc, on, bill>>
  BY <1>11
  DEF ClientHangup, Expire, Listen, ReadChunk, ReadTerminal, ReadGap,
      StopReading, ReadTimesOut, ReadCanceled, Cancel
<1>12. ASSUME NEW r \in Requests, NEW d \in 1..MaxDeliver,
             DeadlineFires(r, d) \/ EmitChunk(r, d)
      PROVE  UNCHANGED <<msg, deliveries, lost, pc, on, bill>>
  BY <1>12 DEF DeadlineFires, EmitChunk, Send
<1>13. ASSUME NEW w \in Workers,
             Shutdown(w) \/ Restart(w)
      PROVE  UNCHANGED <<msg, deliveries, lost, pc, on, bill>>
  BY <1>13 DEF Shutdown, Restart
<1>14. CASE UNCHANGED <<msg, deliveries, lost, pc, on, bill>>
  BY <1>14 DEF AttemptAt
<1>15. QED
  BY <1>1, <1>2, <1>3, <1>4, <1>5, <1>6, <1>7, <1>8, <1>9, <1>10, <1>11,
     <1>12, <1>13, <1>14
  DEF Next, GatewayStep, HandlerStep, EngineStep, vars

-----------------------------------------------------------------------------
\* Who is left when the queue redelivers.

LEMMA RedeliveryStep ==
  ASSUME TypeOK, QueueInv, AttemptInv, RedeliveryInv, [Next]_vars
  PROVE  RedeliveryInv'
<1> SUFFICES ASSUME NEW q \in Requests, NEW e \in 1..MaxDeliver
             PROVE  RedeliveryAt(q, e)'
  BY DEF RedeliveryInv
<1> QueueAt(q) /\ AttemptAt(q, e) /\ RedeliveryAt(q, e)
  BY DEF QueueInv, AttemptInv, RedeliveryInv
<1> <<q, e>> \in Attempts
  BY DEF Attempts
<1>1. ASSUME NEW r \in Requests, Publish(r)
      PROVE  RedeliveryAt(q, e)'
  BY <1>1, RequestPathAssumption
  DEF Publish, QueueAt, AttemptAt, RedeliveryAt, Settled, Gone, Live,
      TypeOK, GatewayTypeOK, QueueTypeOK, AttemptTypeOK, Attempts,
      InQueue
<1>2. ASSUME NEW r \in Requests, PublishFails(r)
      PROVE  RedeliveryAt(q, e)'
  BY <1>2, RequestPathAssumption
  DEF PublishFails, QueueAt, AttemptAt, RedeliveryAt, Settled, Gone,
      Live, TypeOK, GatewayTypeOK, QueueTypeOK, AttemptTypeOK, Attempts,
      InQueue
<1>3. ASSUME NEW r \in Requests, DeleteQueued(r)
      PROVE  RedeliveryAt(q, e)'
  BY <1>3, RequestPathAssumption
  DEF DeleteQueued, QueueAt, AttemptAt, RedeliveryAt, Settled, Gone,
      Live, TypeOK, GatewayTypeOK, QueueTypeOK, AttemptTypeOK, Attempts,
      InQueue
<1>4. ASSUME NEW r \in Requests, NEW w \in Workers, Deliver(r, w)
      PROVE  RedeliveryAt(q, e)'
  BY <1>4, RequestPathAssumption
  DEF Deliver, QueueAt, AttemptAt, RedeliveryAt, Settled, Gone, Live,
      TypeOK, GatewayTypeOK, QueueTypeOK, AttemptTypeOK, Attempts,
      InQueue
<1>5. ASSUME NEW r \in Requests, AckTimeout(r)
      PROVE  RedeliveryAt(q, e)'
  <2>1. CASE q = r
    <3>1. stalled'[q] = (stalled[q] \/ (/\ pc[<<q, deliveries[q]>>] \in Live
                                        /\ <<q, deliveries[q]>> \notin lost))
      BY <1>5, <2>1 DEF AckTimeout, TypeOK, QueueTypeOK
    <3>2. /\ deliveries[q] > 0
          /\ pc[<<q, deliveries[q]>>] # "none"
          /\ msg[q] \notin {"acked", "queued"}
      BY <1>5, <2>1 DEF AckTimeout, QueueAt
    <3>3. \/ pc[<<q, deliveries[q]>>] \in Live
          \/ pc[<<q, deliveries[q]>>] \in Gone
          \/ <<q, deliveries[q]>> \in lost
      <4>1. deliveries[q] \in 1..MaxDeliver
        BY <3>2, RequestPathAssumption DEF TypeOK, QueueTypeOK
      <4>2. AttemptAt(q, deliveries[q]) /\ <<q, deliveries[q]>> \in Attempts
        BY <4>1 DEF AttemptInv, Attempts
      <4>3. \/ pc[<<q, deliveries[q]>>] \notin Settled
            \/ <<q, deliveries[q]>> \in lost
        BY <1>5, <2>1, <4>2 DEF AckTimeout, AttemptAt, InQueue
      <4>4. QED
        BY <3>2, <4>2, <4>3 DEF Settled, Gone, Live, TypeOK, AttemptTypeOK
    <3>4. UNCHANGED <<deliveries, pc, lost>>
      BY <1>5 DEF AckTimeout
    <3>5. QED
      BY <3>1, <3>2, <3>3, <3>4 DEF RedeliveryAt
  <2>2. CASE q # r
    BY <1>5, <2>2 DEF AckTimeout, RedeliveryAt, TypeOK, QueueTypeOK
  <2>3. QED
    BY <2>1, <2>2
<1>6. ASSUME NEW r \in Requests, AgeOut(r)
      PROVE  RedeliveryAt(q, e)'
  BY <1>6, RequestPathAssumption
  DEF AgeOut, QueueAt, AttemptAt, RedeliveryAt, Settled, Gone, Live,
      TypeOK, GatewayTypeOK, QueueTypeOK, AttemptTypeOK, Attempts,
      InQueue
<1>7. ASSUME NEW r \in Requests, NEW d \in 1..MaxDeliver,
             DiscardExpired(r, d) \/ Start(r, d) \/ EngineCanceled(r, d)
             \/ EngineSucceeds(r, d) \/ EngineFails(r, d)
      PROVE  RedeliveryAt(q, e)'
  BY <1>7, HandlerEffect DEF RedeliveryAt, Gone
<1>8. ASSUME NEW r \in Requests, NEW d \in 1..MaxDeliver, Ack(r, d)
      PROVE  RedeliveryAt(q, e)'
  BY <1>8, AckEffect DEF RedeliveryAt, Gone
<1>9. ASSUME NEW r \in Requests, NEW d \in 1..MaxDeliver, Meter(r, d)
      PROVE  RedeliveryAt(q, e)'
  BY <1>9, RequestPathAssumption
  DEF Meter, QueueAt, AttemptAt, RedeliveryAt, Settled, Gone, Live,
      TypeOK, GatewayTypeOK, QueueTypeOK, AttemptTypeOK, Attempts,
      InQueue
<1>10. ASSUME NEW w \in Workers, Crash(w) \/ StopConsumer(w)
      PROVE  RedeliveryAt(q, e)'
  BY <1>10, LossEffect DEF RedeliveryAt, Gone, Live
<1>11. ASSUME NEW r \in Requests,
             ClientHangup(r) \/ Expire(r) \/ Listen(r) \/ ReadChunk(r) \/
             ReadTerminal(r) \/ ReadGap(r) \/ ReadTimesOut(r) \/
             ReadCanceled(r) \/ Cancel(r)
      PROVE  UNCHANGED <<msg, deliveries, stalled, lost, pc>>
  BY <1>11
  DEF ClientHangup, Expire, Listen, ReadChunk, ReadTerminal, ReadGap,
      StopReading, ReadTimesOut, ReadCanceled, Cancel
<1>12. ASSUME NEW r \in Requests, NEW d \in 1..MaxDeliver,
             DeadlineFires(r, d) \/ EmitChunk(r, d)
      PROVE  UNCHANGED <<msg, deliveries, stalled, lost, pc>>
  BY <1>12 DEF DeadlineFires, EmitChunk, Send
<1>13. ASSUME NEW w \in Workers,
             Shutdown(w) \/ Restart(w)
      PROVE  UNCHANGED <<msg, deliveries, stalled, lost, pc>>
  BY <1>13 DEF Shutdown, Restart
<1>14. CASE UNCHANGED <<msg, deliveries, stalled, lost, pc>>
  BY <1>14 DEF RedeliveryAt
<1>15. QED
  BY <1>1, <1>2, <1>3, <1>4, <1>5, <1>6, <1>7, <1>8, <1>9, <1>10, <1>11,
     <1>12, <1>13, <1>14
  DEF Next, GatewayStep, HandlerStep, EngineStep, vars

-----------------------------------------------------------------------------
\* The inductive invariant.

LEMMA InitInv == Init => IInv
<1> SUFFICES ASSUME Init
             PROVE  IInv
  OBVIOUS
<1>1. TypeOK
  <2>1. GatewayTypeOK /\ ListenerTypeOK
    BY EmptySeq DEF Init, GatewayTypeOK, ListenerTypeOK
  <2>2. QueueTypeOK /\ wk \in [Workers -> {"up", "draining", "stopped"}]
    BY RequestPathAssumption DEF Init, QueueTypeOK
  <2>3. AttemptTypeOK
    BY DEF Init, AttemptTypeOK
  <2>4. QED
    BY <2>1, <2>2, <2>3 DEF TypeOK
<1>2. QueueInv
  BY RequestPathAssumption DEF Init, QueueInv, QueueAt
<1>3. AttemptInv /\ RedeliveryInv
  <2> SUFFICES ASSUME NEW q \in Requests, NEW e \in 1..MaxDeliver
               PROVE  AttemptAt(q, e) /\ RedeliveryAt(q, e)
    BY DEF AttemptInv, RedeliveryInv
  <2> <<q, e>> \in Attempts
    BY DEF Attempts
  <2> QED
    BY DEF Init, AttemptAt, RedeliveryAt, Settled
<1>4. QED
  BY <1>1, <1>2, <1>3 DEF IInv

LEMMA NextInv == IInv /\ [Next]_vars => IInv'
BY TypeStep, QueueStep, AttemptStep, RedeliveryStep DEF IInv

LEMMA Invariance == Spec => []IInv
BY InitInv, NextInv, PTL DEF Spec

-----------------------------------------------------------------------------
\* Every variable keeps its type: in particular no message is delivered more
\* than MaxDeliver times, so no attempt runs outside the range that the
\* consumer's MaxDeliver promises.
THEOREM TypeCorrect == Spec => []TypeOK
<1>1. IInv => TypeOK
  BY DEF IInv
<1>2. QED
  BY <1>1, Invariance, PTL

\* As long as heartbeats reach the queue, JetStream redelivers a request only
\* over attempts that died with their worker, that a stopping consumer dropped
\* unhandled, or whose ack did not arrive.
THEOREM RedeliveryMeansLoss == Spec => []RedeliveryNeedsALoss
<1>1. IInv => RedeliveryNeedsALoss
  BY DEF IInv, RedeliveryInv, RedeliveryAt, RedeliveryNeedsALoss, Gone
<1>2. QED
  BY <1>1, Invariance, PTL

\* Two attempts of a request both publish a usage event only if the ack of the
\* earlier one was lost: an attempt bills after its ack, and the one before the
\* last delivery that has billed is not dead.
THEOREM RebillMeansLostAck == Spec => []RebilledOnlyAfterLostAck
<1>1. ASSUME IInv, NEW r \in Requests, ~stalled[r],
             NEW d \in 1..MaxDeliver, NEW e \in 1..MaxDeliver, d < e,
             bill[<<r, d>>] # "none", bill[<<r, e>>] # "none"
      PROVE  <<r, d>> \in lost
  <2>1. deliveries[r] \in Nat /\ d \in Nat /\ e \in Nat
    BY <1>1, RequestPathAssumption DEF IInv, TypeOK, QueueTypeOK
  <2>2. pc[<<r, d>>] = "finished" /\ ~(e > deliveries[r])
    BY <1>1 DEF IInv, AttemptInv, AttemptAt
  <2>3. d < deliveries[r]
    BY <1>1, <2>1, <2>2
  <2>4. QED
    BY <1>1, <2>2, <2>3 DEF IInv, RedeliveryInv, RedeliveryAt, Gone
<1>2. IInv => RebilledOnlyAfterLostAck
  BY <1>1 DEF RebilledOnlyAfterLostAck
<1>3. QED
  BY <1>2, Invariance, PTL

\* A step never delivers a request one of whose attempts has settled it with
\* an ack that arrived, whatever the outcome and whichever attempt it was.
THEOREM SettledStaysSettled == Spec => SettledNeverRedelivered
<1>1. ASSUME IInv, [Next]_vars, NEW q \in Requests, NEW e \in 1..MaxDeliver,
             pc[<<q, e>>] \in Settled, <<q, e>> \notin lost
      PROVE  deliveries'[q] = deliveries[q]
  <2>1. msg[q] # "queued"
    BY <1>1 DEF IInv, AttemptInv, AttemptAt, InQueue
  <2>2. ASSUME NEW r \in Requests, NEW w \in Workers, Deliver(r, w)
        PROVE  deliveries'[q] = deliveries[q]
    <3>1. r # q
      BY <2>1, <2>2 DEF Deliver
    <3>2. QED
      BY <1>1, <2>2, <3>1 DEF Deliver, IInv, TypeOK, QueueTypeOK
  <2>3. ASSUME NEW r \in Requests,
               ClientHangup(r) \/ Expire(r) \/ Listen(r) \/ Publish(r) \/
               PublishFails(r) \/ ReadChunk(r) \/ ReadTerminal(r) \/
               ReadGap(r) \/ ReadTimesOut(r) \/ ReadCanceled(r) \/
               Cancel(r) \/ DeleteQueued(r) \/ AckTimeout(r) \/ AgeOut(r)
        PROVE  UNCHANGED deliveries
    BY <2>3
    DEF ClientHangup, Expire, Listen, Publish, PublishFails, ReadChunk,
        ReadTerminal, ReadGap, StopReading, ReadTimesOut, ReadCanceled,
        Cancel, DeleteQueued, AckTimeout, AgeOut
  <2>4. ASSUME NEW r \in Requests, NEW d \in 1..MaxDeliver,
               DiscardExpired(r, d) \/ Start(r, d) \/ DeadlineFires(r, d)
               \/ EngineCanceled(r, d) \/ Ack(r, d) \/ Meter(r, d) \/
               EmitChunk(r, d) \/ EngineSucceeds(r, d) \/ EngineFails(r, d)
        PROVE  UNCHANGED deliveries
    BY <2>4
    DEF DiscardExpired, Start, DeadlineFires, EngineCanceled, Ack, Meter,
        EmitChunk, Send, EngineSucceeds, EngineFails
  <2>5. ASSUME NEW w \in Workers,
               Crash(w) \/ Shutdown(w) \/ StopConsumer(w) \/ Restart(w)
        PROVE  UNCHANGED deliveries
    BY <2>5 DEF Crash, Lose, Shutdown, StopConsumer, Restart
  <2>6. CASE UNCHANGED deliveries
    BY <2>6
  <2>7. QED
    BY <1>1, <2>2, <2>3, <2>4, <2>5, <2>6
    DEF Next, GatewayStep, HandlerStep, EngineStep, vars
<1>2. IInv /\ [Next]_vars =>
        [\A r \in Requests :
            (\E d \in 1..MaxDeliver : /\ pc[<<r, d>>] \in {"acked", "finished"}
                                      /\ <<r, d>> \notin lost)
                => deliveries'[r] = deliveries[r]]_vars
  BY <1>1 DEF Settled
<1>3. QED
  BY <1>2, Invariance, PTL DEF Spec, SettledNeverRedelivered

-----------------------------------------------------------------------------
(***************************************************************************)
(* What is settled gets billed.                                            *)
(***************************************************************************)

\* An attempt knows how it ended before it acks, and bills that.
BilledAt(r, d) ==
    /\ pc[<<r, d>>] \in {"replied", "acked", "finished"}
          => outcome[<<r, d>>] # "none"
    /\ pc[<<r, d>>] = "finished"
          => \/ bill[<<r, d>>] = outcome[<<r, d>>]
             \/ "transport" \in Faults

\* Attempt d has acked, or could have before it died.
Took(r, d) ==
    /\ outcome[<<r, d>>] # "none"
    /\ pc[<<r, d>>] \in {"acked", "finished", "dead"}

BilledInv ==
    \A r \in Requests :
        /\ \A d \in 1..MaxDeliver : BilledAt(r, d)
        /\ msg[r] = "acked" => \E d \in 1..MaxDeliver : Took(r, d)

\* Whatever a step does elsewhere: it keeps the invariant of an attempt it
\* leaves alone.
LEMMA SameAttempt ==
  ASSUME NEW r, NEW d, pc'[<<r, d>>] = pc[<<r, d>>],
         outcome'[<<r, d>>] = outcome[<<r, d>>],
         bill'[<<r, d>>] = bill[<<r, d>>]
  PROVE  /\ BilledAt(r, d) => BilledAt(r, d)'
         /\ Took(r, d) => Took(r, d)'
BY DEF BilledAt, Took

\* One attempt runs on to its end: what it makes of its outcome and its bill.
LEMMA BilledHandlerStep ==
  ASSUME TypeOK, BilledInv, NEW r \in Requests, NEW d \in 1..MaxDeliver,
         HandlerStep(r, d) \/ EngineStep(r, d)
  PROVE  /\ BilledAt(r, d)'
         /\ Took(r, d) => Took(r, d)'
         /\ msg'[r] = "acked" => msg[r] = "acked" \/ Took(r, d)'
         /\ \A q \in Requests : q # r => msg'[q] = msg[q]
         /\ \A a \in Attempts : a # <<r, d>> =>
               /\ pc'[a] = pc[a]
               /\ outcome'[a] = outcome[a]
               /\ bill'[a] = bill[a]
<1> DEFINE a == <<r, d>>
<1>1. /\ pc \in [Attempts -> Live \cup {"none", "finished", "dropped", "dead"}]
      /\ outcome \in [Attempts -> {"none", "ok", "error", "canceled"}]
      /\ bill \in [Attempts -> {"none", "ok", "error", "canceled"}]
      /\ msg \in [Requests -> InQueue \cup {"none", "acked", "removed",
                                            "exhausted"}]
      /\ a \in Attempts
  BY DEF TypeOK, AttemptTypeOK, QueueTypeOK, Attempts
<1>2. BilledAt(r, d)
  BY DEF BilledInv
<1>3. CASE DiscardExpired(r, d) \/ EngineSucceeds(r, d) \/
           EngineCanceled(r, d) \/ EngineFails(r, d)
  <2>1. /\ UNCHANGED <<msg, bill>>
        /\ pc[a] \in {"buffered", "running"}
        /\ pc' = [pc EXCEPT ![a] = "replied"]
        /\ \E how \in {"ok", "error", "canceled"} :
              outcome' = [outcome EXCEPT ![a] = how]
    BY <1>3 DEF DiscardExpired, EngineSucceeds, EngineCanceled, EngineFails,
                queueVars
  <2>2. QED
    BY <1>1, <2>1 DEF BilledAt, Took
<1>4. CASE Start(r, d)
  <2>1. /\ UNCHANGED <<msg, bill, outcome>>
        /\ pc[a] = "buffered"
        /\ pc' = [pc EXCEPT ![a] = "running"]
    BY <1>4 DEF Start, queueVars
  <2>2. QED
    BY <1>1, <2>1 DEF BilledAt, Took
<1>5. CASE DeadlineFires(r, d) \/ EmitChunk(r, d)
  <2>1. UNCHANGED <<msg, bill, outcome, pc>>
    BY <1>5 DEF DeadlineFires, EmitChunk, queueVars
  <2>2. QED
    BY <1>2, <2>1 DEF BilledAt, Took
<1>6. CASE Ack(r, d)
  <2>1. /\ UNCHANGED <<bill, outcome>>
        /\ pc[a] = "replied"
        /\ pc' = [pc EXCEPT ![a] = "acked"]
        /\ \/ msg' = [msg EXCEPT ![r] = IF @ \in InQueue THEN "acked" ELSE @]
           \/ msg' = msg
    BY <1>6 DEF Ack
  <2>2. pc'[a] = "acked" /\ outcome'[a] # "none"
    BY <1>1, <1>2, <2>1 DEF BilledAt
  <2>3. BilledAt(r, d)' /\ Took(r, d)'
    BY <2>2 DEF BilledAt, Took
  <2>4. QED
    BY <1>1, <2>1, <2>3
<1>7. CASE Meter(r, d)
  <2>1. /\ UNCHANGED <<msg, outcome>>
        /\ pc[a] = "acked"
        /\ pc' = [pc EXCEPT ![a] = "finished"]
        /\ \/ bill' = [bill EXCEPT ![a] = outcome[a]]
           \/ "transport" \in Faults /\ UNCHANGED bill
    BY <1>7 DEF Meter, queueVars
  <2>2. pc'[a] = "finished" /\ outcome'[a] = outcome[a]
    BY <1>1, <2>1
  <2>3. bill'[a] = outcome'[a] \/ "transport" \in Faults
    BY <1>1, <2>1
  <2>4. BilledAt(r, d)' /\ Took(r, d)'
    BY <1>2, <2>1, <2>2, <2>3 DEF BilledAt, Took
  <2>5. \A b \in Attempts : b # a => /\ pc'[b] = pc[b]
                                     /\ outcome'[b] = outcome[b]
                                     /\ bill'[b] = bill[b]
    BY <1>1, <2>1
  <2>6. QED
    BY <2>1, <2>4, <2>5
<1>8. QED
  BY <1>3, <1>4, <1>5, <1>6, <1>7 DEF HandlerStep, EngineStep

\* A process dies or stops: no attempt starts or ends regularly, and only what
\* is still buffered is dropped.
LEMMA BilledWorkerStep ==
  ASSUME IInv, BilledInv, NEW w \in Workers,
         Crash(w) \/ Shutdown(w) \/ StopConsumer(w) \/ Restart(w),
         NEW r \in Requests, NEW d \in 1..MaxDeliver
  PROVE  /\ BilledAt(r, d)'
         /\ Took(r, d) => Took(r, d)'
         /\ msg'[r] = msg[r]
<1> DEFINE a == <<r, d>>
<1>1. UNCHANGED <<msg, outcome, bill>>
  BY DEF Crash, Shutdown, StopConsumer, Restart, Lose, queueVars, attemptVars
<1>2. /\ pc'[a] \in {pc[a], "dead", "dropped"}
      /\ pc[a] \in {"acked", "finished", "dead"} => pc'[a] # "dropped"
  BY DEF Crash, Shutdown, StopConsumer, Restart, Lose, attemptVars, Attempts
<1>3. BilledAt(r, d)
  BY DEF BilledInv
<1>4. QED
  BY <1>1, <1>2, <1>3 DEF BilledAt, Took

LEMMA BilledStep == IInv /\ BilledInv /\ [Next]_vars => BilledInv'
<1> SUFFICES ASSUME IInv, BilledInv, [Next]_vars, NEW q \in Requests
             PROVE  /\ \A e \in 1..MaxDeliver : BilledAt(q, e)'
                    /\ msg'[q] = "acked" =>
                          \E e \in 1..MaxDeliver : Took(q, e)'
  BY DEF BilledInv
<1>1. TypeOK /\ \A e \in 1..MaxDeliver : <<q, e>> \in Attempts
  BY DEF IInv, Attempts
<1>2. /\ \A e \in 1..MaxDeliver : BilledAt(q, e)
      /\ msg[q] = "acked" => \E e \in 1..MaxDeliver : Took(q, e)
  BY DEF BilledInv
<1>3. CASE \E r \in Requests :
              ClientHangup(r) \/ Expire(r) \/ Listen(r) \/ GatewayStep(r)
              \/ AckTimeout(r) \/ AgeOut(r)
  <2>1. UNCHANGED <<pc, outcome, bill>>
    BY <1>3
    DEF ClientHangup, Expire, Listen, GatewayStep, Publish, PublishFails,
        ReadChunk, ReadTerminal, ReadGap, ReadTimesOut, ReadCanceled,
        StopReading, Cancel, DeleteQueued, AckTimeout, AgeOut, attemptVars
  <2>2. msg'[q] = "acked" => msg[q] = "acked"
    <3>1. PICK r \in Requests :
             ClientHangup(r) \/ Expire(r) \/ Listen(r) \/ GatewayStep(r)
             \/ AckTimeout(r) \/ AgeOut(r)
      BY <1>3
    <3>2. CASE Publish(r) \/ PublishFails(r) \/ DeleteQueued(r) \/
               AckTimeout(r) \/ AgeOut(r)
      <4>1. \/ UNCHANGED msg
            \/ \E now \in {"queued", "removed", "exhausted", msg[r]} :
                  msg' = [msg EXCEPT ![r] = now]
        BY <3>2 DEF Publish, PublishFails, DeleteQueued, AckTimeout, AgeOut
      <4>2. QED
        BY <1>1, <4>1 DEF TypeOK, QueueTypeOK
    <3>3. CASE ClientHangup(r) \/ Expire(r) \/ Listen(r) \/ ReadChunk(r) \/
               ReadTerminal(r) \/ ReadGap(r) \/ ReadTimesOut(r) \/
               ReadCanceled(r) \/ Cancel(r)
      <4>1. UNCHANGED msg
        BY <3>3
        DEF ClientHangup, Expire, Listen, ReadChunk, ReadTerminal, ReadGap,
            ReadTimesOut, ReadCanceled, StopReading, Cancel, queueVars
      <4>2. QED
        BY <4>1
    <3>4. QED
      BY <3>1, <3>2, <3>3 DEF GatewayStep
  <2>3. \A e \in 1..MaxDeliver :
           BilledAt(q, e)' /\ (Took(q, e) => Took(q, e)')
    BY <1>2, <2>1, SameAttempt
  <2>4. QED
    BY <1>2, <2>2, <2>3
<1>4. ASSUME NEW r \in Requests, NEW w \in Workers, Deliver(r, w)
      PROVE  /\ \A e \in 1..MaxDeliver : BilledAt(q, e)'
             /\ msg'[q] = "acked" => \E e \in 1..MaxDeliver : Took(q, e)'
  <2>1. /\ UNCHANGED <<outcome, bill>>
        /\ msg[r] = "queued"
        /\ msg' = [msg EXCEPT ![r] = "pending"]
        /\ pc' = [pc EXCEPT ![<<r, deliveries[r] + 1>>] = "buffered"]
    BY <1>4 DEF Deliver
  <2>2. CASE q = r
    <3>1. msg'[q] # "acked"
      BY <1>1, <2>1, <2>2 DEF TypeOK, QueueTypeOK
    <3>2. ASSUME NEW e \in 1..MaxDeliver
          PROVE  BilledAt(q, e)'
      <4>1. pc'[<<q, e>>] \in {pc[<<q, e>>], "buffered"}
        BY <1>1, <2>1 DEF TypeOK, AttemptTypeOK
      <4>2. QED
        BY <1>2, <2>1, <4>1 DEF BilledAt
    <3>3. QED
      BY <3>1, <3>2
  <2>3. CASE q # r
    <3>1. \A e \in 1..MaxDeliver : pc'[<<q, e>>] = pc[<<q, e>>]
      BY <1>1, <2>1, <2>3 DEF TypeOK, AttemptTypeOK
    <3>2. msg'[q] = msg[q]
      BY <1>1, <2>1, <2>3 DEF TypeOK, QueueTypeOK
    <3>3. \A e \in 1..MaxDeliver :
             BilledAt(q, e)' /\ (Took(q, e) => Took(q, e)')
      BY <1>2, <2>1, <3>1, SameAttempt
    <3>4. QED
      BY <1>2, <3>2, <3>3
  <2>4. QED
    BY <2>2, <2>3
<1>5. ASSUME NEW r \in Requests, NEW d \in 1..MaxDeliver,
             HandlerStep(r, d) \/ EngineStep(r, d)
      PROVE  /\ \A e \in 1..MaxDeliver : BilledAt(q, e)'
             /\ msg'[q] = "acked" => \E e \in 1..MaxDeliver : Took(q, e)'
  <2>1. /\ BilledAt(r, d)'
        /\ Took(r, d) => Took(r, d)'
        /\ msg'[r] = "acked" => msg[r] = "acked" \/ Took(r, d)'
        /\ q # r => msg'[q] = msg[q]
        /\ \A a \in Attempts : a # <<r, d>> =>
              /\ pc'[a] = pc[a]
              /\ outcome'[a] = outcome[a]
              /\ bill'[a] = bill[a]
    BY <1>1, <1>5, BilledHandlerStep
  <2>2. ASSUME NEW e \in 1..MaxDeliver
        PROVE  BilledAt(q, e)' /\ (Took(q, e) => Took(q, e)')
    <3>1. CASE q = r /\ e = d
      BY <2>1, <3>1
    <3>2. CASE ~(q = r /\ e = d)
      <4>1. <<q, e>> # <<r, d>>
        BY <3>2
      <4>2. /\ pc'[<<q, e>>] = pc[<<q, e>>]
            /\ outcome'[<<q, e>>] = outcome[<<q, e>>]
            /\ bill'[<<q, e>>] = bill[<<q, e>>]
        BY <1>1, <2>1, <4>1
      <4>3. QED
        BY <1>2, <4>2, SameAttempt
    <3>3. QED
      BY <3>1, <3>2
  <2>3. msg'[q] = "acked" =>
           msg[q] = "acked" \/ \E e \in 1..MaxDeliver : Took(q, e)'
    BY <2>1
  <2>4. QED
    BY <1>2, <2>2, <2>3
<1>6. ASSUME NEW w \in Workers,
             Crash(w) \/ Shutdown(w) \/ StopConsumer(w) \/ Restart(w)
      PROVE  /\ \A e \in 1..MaxDeliver : BilledAt(q, e)'
             /\ msg'[q] = "acked" => \E e \in 1..MaxDeliver : Took(q, e)'
  <2>1. \A e \in 1..MaxDeliver :
           /\ BilledAt(q, e)'
           /\ Took(q, e) => Took(q, e)'
           /\ msg'[q] = msg[q]
    BY <1>6, BilledWorkerStep
  <2>2. msg'[q] = msg[q]
    BY <2>1, RequestPathAssumption
  <2>3. QED
    BY <1>2, <2>1, <2>2
<1>7. CASE UNCHANGED vars
  <2>1. UNCHANGED <<msg, pc, outcome, bill>>
    BY <1>7 DEF vars, queueVars, attemptVars
  <2>2. \A e \in 1..MaxDeliver :
           BilledAt(q, e)' /\ (Took(q, e) => Took(q, e)')
    BY <1>2, <2>1, SameAttempt
  <2>3. QED
    BY <1>2, <2>1, <2>2
<1>8. QED
  BY <1>3, <1>4, <1>5, <1>6, <1>7 DEF Next

\* No path of handle loses a usage event by itself: when a message has been
\* acked, the attempt that did the work bills its own outcome, is about to, or
\* died first; only a publish that fails is an excuse besides.
THEOREM SettledGetsBilled == Spec => []SettledIsBilled
<1>1. Init => BilledInv
  BY DEF Init, BilledInv, BilledAt, Attempts
<1>2. BilledInv => SettledIsBilled
  <2> SUFFICES ASSUME BilledInv, "transport" \notin Faults,
                      NEW r \in Requests, msg[r] = "acked"
               PROVE  \E d \in 1..MaxDeliver :
                         /\ outcome[<<r, d>>] # "none"
                         /\ \/ pc[<<r, d>>] \in {"acked", "dead"}
                            \/ bill[<<r, d>>] = outcome[<<r, d>>]
    BY DEF SettledIsBilled
  <2>1. PICK d \in 1..MaxDeliver : Took(r, d)
    BY DEF BilledInv
  <2>2. BilledAt(r, d)
    BY DEF BilledInv
  <2>3. QED
    BY <2>1, <2>2 DEF Took, BilledAt
<1>3. QED
  BY <1>1, <1>2, BilledStep, Invariance, PTL DEF Spec

-----------------------------------------------------------------------------
(***************************************************************************)
(* The slots of max_inflight.  A handler that has not acked keeps its      *)
(* message pending (HeldInv), and the queue hands out a message only while *)
(* fewer than MaxInflight are pending (SlotInv).                           *)
(***************************************************************************)

HeldAt(r, d) ==
    ~stalled[r] /\ pc[<<r, d>>] \in {"buffered", "running", "replied"}
        => msg[r] \in {"pending", "removed"}

HeldInv == \A r \in Requests, d \in 1..MaxDeliver : HeldAt(r, d)
SlotInv == IsFiniteSet(Pending) /\ Cardinality(Pending) <= MaxInflight

LEMMA HeldStep ==
  ASSUME IInv, HeldInv, [Next]_vars
  PROVE  HeldInv'
<1> SUFFICES ASSUME NEW q \in Requests, NEW e \in 1..MaxDeliver
             PROVE  HeldAt(q, e)'
  BY DEF HeldInv
<1> /\ QueueAt(q) /\ AttemptAt(q, e) /\ RedeliveryAt(q, e) /\ HeldAt(q, e)
    /\ TypeOK
  BY DEF IInv, QueueInv, AttemptInv, RedeliveryInv, HeldInv
<1> <<q, e>> \in Attempts /\ e \in Nat /\ deliveries[q] \in Nat
  BY RequestPathAssumption DEF Attempts, TypeOK, QueueTypeOK
<1>1. ASSUME NEW r \in Requests, Publish(r) \/ PublishFails(r)
      PROVE  HeldAt(q, e)'
  <2>1. UNCHANGED <<stalled, pc>> /\ gw[r] = "listening"
    BY <1>1 DEF Publish, PublishFails
  <2>2. q # r => msg'[q] = msg[q]
    BY <1>1 DEF Publish, PublishFails, TypeOK, QueueTypeOK
  <2>3. q = r => pc[<<q, e>>] = "none"
    BY <2>1 DEF QueueAt, AttemptAt
  <2>4. QED
    BY <2>1, <2>2, <2>3 DEF HeldAt
<1>2. ASSUME NEW r \in Requests, DeleteQueued(r)
      PROVE  HeldAt(q, e)'
  BY <1>2 DEF DeleteQueued, HeldAt, TypeOK, QueueTypeOK, InQueue
<1>3. ASSUME NEW r \in Requests, NEW w \in Workers, Deliver(r, w)
      PROVE  HeldAt(q, e)'
  BY <1>3 DEF Deliver, HeldAt, TypeOK, QueueTypeOK, AttemptTypeOK
<1>4. ASSUME NEW r \in Requests, AckTimeout(r)
      PROVE  HeldAt(q, e)'
  <2>1. CASE q = r
    <3>1. stalled'[q] = (stalled[q] \/ (/\ pc[<<q, deliveries[q]>>] \in Live
                                        /\ <<q, deliveries[q]>> \notin lost))
      BY <1>4, <2>1 DEF AckTimeout, TypeOK, QueueTypeOK
    <3>2. UNCHANGED pc
      BY <1>4 DEF AckTimeout
    <3>3. ASSUME ~stalled'[q]
          PROVE  pc[<<q, e>>] \notin {"buffered", "running", "replied"}
      <4>1. /\ ~stalled[q]
            /\ \/ pc[<<q, deliveries[q]>>] \notin Live
               \/ <<q, deliveries[q]>> \in lost
        BY <3>1, <3>3, Zenon
      <4>2. QED
        BY <4>1 DEF RedeliveryAt, AttemptAt, Settled, Gone, Live
    <3>4. QED
      BY <3>2, <3>3 DEF HeldAt
  <2>2. CASE q # r
    BY <1>4, <2>2 DEF AckTimeout, HeldAt, TypeOK, QueueTypeOK
  <2>3. QED
    BY <2>1, <2>2
<1>5. ASSUME NEW r \in Requests, AgeOut(r)
      PROVE  HeldAt(q, e)'
  BY <1>5 DEF AgeOut, HeldAt, TypeOK, QueueTypeOK
<1>6. ASSUME NEW r \in Requests, NEW d \in 1..MaxDeliver,
             DiscardExpired(r, d) \/ Start(r, d) \/ EngineCanceled(r, d)
             \/ EngineSucceeds(r, d) \/ EngineFails(r, d)
      PROVE  HeldAt(q, e)'
  BY <1>6, HandlerEffect DEF HeldAt
<1>7. ASSUME NEW r \in Requests, NEW d \in 1..MaxDeliver, Ack(r, d)
      PROVE  HeldAt(q, e)'
  <2>1. /\ pc[<<r, d>>] = "replied" /\ pc'[<<r, d>>] = "acked"
        /\ <<q, e>> # <<r, d>> => pc'[<<q, e>>] = pc[<<q, e>>]
        /\ q # r => msg'[q] = msg[q]
        /\ UNCHANGED <<stalled, deliveries>>
    BY <1>7 DEF Ack, TypeOK, QueueTypeOK, AttemptTypeOK, Attempts
  <2>2. AttemptAt(r, d) /\ RedeliveryAt(r, d)
    BY DEF IInv, AttemptInv, RedeliveryInv
  <2>3. CASE q = r /\ e # d
    <3>1. ASSUME ~stalled[q]
          PROVE  d = deliveries[q]
      BY <2>1, <2>2, <2>3, <3>1, RequestPathAssumption
      DEF AttemptAt, RedeliveryAt, Settled, Gone
    <3>2. ASSUME ~stalled[q],
                 pc[<<q, e>>] \in {"buffered", "running", "replied"}
          PROVE  e = deliveries[q]
      BY <3>2 DEF AttemptAt, RedeliveryAt, Settled, Gone
    <3>3. QED
      BY <2>1, <2>3, <3>1, <3>2 DEF HeldAt
  <2>4. QED
    BY <2>1, <2>3 DEF HeldAt
<1>8. ASSUME NEW r \in Requests, NEW d \in 1..MaxDeliver, Meter(r, d)
      PROVE  HeldAt(q, e)'
  BY <1>8 DEF Meter, HeldAt, TypeOK, AttemptTypeOK
<1>9. ASSUME NEW w \in Workers, Crash(w) \/ StopConsumer(w)
      PROVE  HeldAt(q, e)'
  BY <1>9, LossEffect DEF HeldAt, Gone, IInv
<1>10. ASSUME NEW r \in Requests,
              ClientHangup(r) \/ Expire(r) \/ Listen(r) \/ ReadChunk(r) \/
              ReadTerminal(r) \/ ReadGap(r) \/ ReadTimesOut(r) \/
              ReadCanceled(r) \/ Cancel(r)
       PROVE  UNCHANGED <<msg, stalled, pc>>
  BY <1>10
  DEF ClientHangup, Expire, Listen, ReadChunk, ReadTerminal, ReadGap,
      StopReading, ReadTimesOut, ReadCanceled, Cancel
<1>11. ASSUME NEW r \in Requests, NEW d \in 1..MaxDeliver,
              DeadlineFires(r, d) \/ EmitChunk(r, d)
       PROVE  UNCHANGED <<msg, stalled, pc>>
  BY <1>11 DEF DeadlineFires, EmitChunk, Send
<1>12. ASSUME NEW w \in Workers,
              Shutdown(w) \/ Restart(w)
       PROVE  UNCHANGED <<msg, stalled, pc>>
  BY <1>12 DEF Shutdown, Restart
<1>13. CASE UNCHANGED <<msg, stalled, pc>>
  BY <1>13 DEF HeldAt
<1>14. QED
  BY <1>1, <1>2, <1>3, <1>4, <1>5, <1>6, <1>7, <1>8, <1>9, <1>10, <1>11,
     <1>12, <1>13
  DEF Next, GatewayStep, HandlerStep, EngineStep, vars

\* Only Deliver makes a message pending, and only below the limit.
LEMMA SlotStep ==
  ASSUME TypeOK, QueueInv, SlotInv, [Next]_vars
  PROVE  SlotInv'
<1>1. ASSUME NEW r \in Requests, NEW w \in Workers, Deliver(r, w)
      PROVE  SlotInv'
  <2>1. Pending' = Pending \cup {r}
    BY <1>1 DEF Deliver, Pending, TypeOK, QueueTypeOK
  <2>2. r \notin Pending /\ Cardinality(Pending) < MaxInflight
    BY <1>1 DEF Deliver, Pending
  <2>3. /\ Cardinality(Pending) \in Nat
        /\ IsFiniteSet(Pending \cup {r})
        /\ Cardinality(Pending \cup {r}) = Cardinality(Pending) + 1
    BY <2>2, FS_AddElement, FS_CardinalityType DEF SlotInv
  <2>4. QED
    BY <2>1, <2>2, <2>3, RequestPathAssumption DEF SlotInv
<1>2. ASSUME Pending' \subseteq Pending
      PROVE  SlotInv'
  BY <1>2, FS_Subset, FS_CardinalityType, RequestPathAssumption DEF SlotInv
<1>3. ASSUME NEW r \in Requests,
             Publish(r) \/ PublishFails(r) \/ DeleteQueued(r) \/
             AckTimeout(r) \/ AgeOut(r)
      PROVE  Pending' \subseteq Pending
  BY <1>3
  DEF Publish, PublishFails, DeleteQueued, AckTimeout, AgeOut, Pending,
      TypeOK, QueueTypeOK, InQueue
<1>4. ASSUME NEW r \in Requests, NEW d \in 1..MaxDeliver, Ack(r, d)
      PROVE  Pending' \subseteq Pending
  BY <1>4 DEF Ack, Pending, TypeOK, QueueTypeOK
<1>5. ASSUME NEW r \in Requests,
             ClientHangup(r) \/ Expire(r) \/ Listen(r) \/ ReadChunk(r) \/
             ReadTerminal(r) \/ ReadGap(r) \/ ReadTimesOut(r) \/
             ReadCanceled(r) \/ Cancel(r)
      PROVE  UNCHANGED msg
  BY <1>5
  DEF ClientHangup, Expire, Listen, ReadChunk, ReadTerminal, ReadGap,
      StopReading, ReadTimesOut, ReadCanceled, Cancel
<1>6. ASSUME NEW r \in Requests, NEW d \in 1..MaxDeliver,
             DiscardExpired(r, d) \/ Start(r, d) \/ DeadlineFires(r, d) \/
             EngineCanceled(r, d) \/ Meter(r, d) \/ EmitChunk(r, d) \/
             EngineSucceeds(r, d) \/ EngineFails(r, d)
      PROVE  UNCHANGED msg
  BY <1>6
  DEF DiscardExpired, Start, DeadlineFires, EngineCanceled, Meter,
      EmitChunk, Send, EngineSucceeds, EngineFails
<1>7. ASSUME NEW w \in Workers,
             Crash(w) \/ Shutdown(w) \/ StopConsumer(w) \/ Restart(w)
      PROVE  UNCHANGED msg
  BY <1>7 DEF Crash, Lose, Shutdown, StopConsumer, Restart
<1>8. CASE UNCHANGED msg
  BY <1>2, <1>8 DEF Pending
<1>9. QED
  BY <1>1, <1>2, <1>3, <1>4, <1>5, <1>6, <1>7, <1>8
  DEF Next, GatewayStep, HandlerStep, EngineStep, vars

\* However many requests and workers there are, the engines that work on
\* stored messages never outnumber the slots: a handler acks only when it is
\* done, so each of them holds a slot of its own (worker.go's MaxAckPending).
THEOREM EnginesWithinSlots == Spec => []EngineConcurrency
<1>1. Init => HeldInv /\ SlotInv
  <2> SUFFICES ASSUME Init
               PROVE  HeldInv /\ SlotInv
    OBVIOUS
  <2>1. HeldInv
    BY DEF Init, HeldInv, HeldAt, Attempts
  <2>2. Pending = {}
    BY DEF Init, Pending
  <2>3. QED
    BY <2>1, <2>2, FS_EmptySet, RequestPathAssumption DEF SlotInv
<1>2. IInv /\ HeldInv /\ SlotInv /\ [Next]_vars => HeldInv' /\ SlotInv'
  BY HeldStep, SlotStep DEF IInv
<1>3. IInv /\ HeldInv /\ SlotInv => EngineConcurrency
  <2> SUFFICES ASSUME IInv, HeldInv, SlotInv
               PROVE  EngineConcurrency
    OBVIOUS
  <2> DEFINE Engines ==
        {r \in Requests : /\ msg[r] # "removed" /\ ~stalled[r]
                          /\ \E d \in 1..MaxDeliver :
                                pc[<<r, d>>] = "running"}
  <2>1. Engines \subseteq Pending
    BY DEF HeldInv, HeldAt, Pending
  <2>2. /\ Cardinality(Engines) \in Nat /\ Cardinality(Pending) \in Nat
        /\ Cardinality(Engines) <= Cardinality(Pending)
    BY <2>1, FS_Subset, FS_CardinalityType DEF SlotInv
  <2>3. QED
    BY <2>2, RequestPathAssumption DEF SlotInv, EngineConcurrency
<1>4. QED
  BY <1>1, <1>2, <1>3, Invariance, PTL DEF Spec

-----------------------------------------------------------------------------
(***************************************************************************)
(* Work that has been stopped.  AbandonedWorkStops promises that from some *)
(* point on nothing runs for a request whose handler has returned.  That   *)
(* the point is reached rests on fairness; that it is never left again is  *)
(* proved here.                                                            *)
(***************************************************************************)

\* No message that could be delivered, no engine that runs, and a deadline
\* that makes handle discard a message some worker's library still holds.
Stopped(r) ==
    /\ gw[r] = "closed"
    /\ expired[r]
    /\ msg[r] \notin InQueue
    /\ \A d \in 1..MaxDeliver : pc[<<r, d>>] # "running"

LEMMA StoppedGatewayStep ==
  ASSUME TypeOK, NEW q \in Requests, Stopped(q), NEW r \in Requests,
         ClientHangup(r) \/ Expire(r) \/ Listen(r) \/ GatewayStep(r)
  PROVE  Stopped(q)'
<1> USE DEF TypeOK, GatewayTypeOK, QueueTypeOK, Stopped
<1>1. CASE ClientHangup(r) \/ Expire(r) \/ Listen(r)
  BY <1>1 DEF ClientHangup, Expire, Listen, queueVars, attemptVars
<1>2. CASE Publish(r) \/ PublishFails(r)
  <2>1. r # q
    BY <1>2 DEF Publish, PublishFails
  <2>2. gw'[q] = gw[q] /\ msg'[q] = msg[q] /\ UNCHANGED <<pc, expired>>
    BY <1>2, <2>1 DEF Publish, PublishFails, attemptVars
  <2>3. QED
    BY <2>2
<1>3. CASE ReadChunk(r) \/ ReadTerminal(r) \/ ReadGap(r) \/
           ReadTimesOut(r) \/ ReadCanceled(r) \/ Cancel(r)
  <2>1. gw'[q] = gw[q] /\ UNCHANGED <<msg, pc, expired>>
    BY <1>3
    DEF ReadChunk, ReadTerminal, ReadGap, ReadTimesOut, ReadCanceled,
        StopReading, Cancel, Readable, queueVars, attemptVars
  <2>2. QED
    BY <2>1
<1>4. CASE DeleteQueued(r)
  <2>1. r # q
    BY <1>4 DEF DeleteQueued
  <2>2. gw'[q] = gw[q] /\ msg'[q] = msg[q] /\ UNCHANGED <<pc, expired>>
    BY <1>4, <2>1 DEF DeleteQueued, attemptVars
  <2>3. QED
    BY <2>2
<1>5. QED
  BY <1>1, <1>2, <1>3, <1>4 DEF GatewayStep

LEMMA StoppedQueueStep ==
  ASSUME TypeOK, NEW q \in Requests, Stopped(q), NEW r \in Requests,
         \/ AckTimeout(r) \/ AgeOut(r)
         \/ \E w \in Workers : Deliver(r, w)
  PROVE  Stopped(q)'
<1> USE DEF TypeOK, QueueTypeOK, Stopped
<1>1. CASE AckTimeout(r)
  <2>1. r # q
    BY <1>1 DEF AckTimeout, InQueue
  <2>2. QED
    BY <1>1, <2>1 DEF AckTimeout, gatewayVars, attemptVars
<1>2. CASE AgeOut(r)
  <2>1. msg'[q] \notin InQueue
    BY <1>2 DEF AgeOut, InQueue
  <2>2. QED
    BY <1>2, <2>1 DEF AgeOut, gatewayVars, attemptVars
<1>3. ASSUME NEW w \in Workers, Deliver(r, w)
      PROVE  Stopped(q)'
  <2>1. r # q
    BY <1>3 DEF Deliver, InQueue
  <2>2. \A d \in 1..MaxDeliver : pc'[<<q, d>>] = pc[<<q, d>>]
    BY <1>3, <2>1 DEF Deliver, AttemptTypeOK, Attempts
  <2>3. QED
    BY <1>3, <2>1, <2>2 DEF Deliver, gatewayVars
<1>4. QED
  BY <1>1, <1>2, <1>3

LEMMA StoppedHandlerStep ==
  ASSUME TypeOK, NEW q \in Requests, Stopped(q), NEW r \in Requests,
         NEW d \in 1..MaxDeliver, HandlerStep(r, d) \/ EngineStep(r, d)
  PROVE  Stopped(q)'
<1> USE DEF Stopped
<1>1. UNCHANGED <<gw, expired>>
  BY DEF HandlerStep, EngineStep, DiscardExpired, Start, DeadlineFires,
         EngineCanceled, Ack, Meter, EmitChunk, Send, EngineSucceeds,
         EngineFails, gatewayVars
<1>2. msg'[q] \notin InQueue
  <2>1. CASE Ack(r, d)
    BY <2>1 DEF Ack, TypeOK, QueueTypeOK, InQueue
  <2>2. CASE ~Ack(r, d)
    BY <2>2 DEF HandlerStep, EngineStep, DiscardExpired, Start,
                DeadlineFires, EngineCanceled, Meter, EmitChunk,
                EngineSucceeds, EngineFails, queueVars
  <2>3. QED
    BY <2>1, <2>2
<1>3. ASSUME NEW e \in 1..MaxDeliver
      PROVE  pc'[<<q, e>>] # "running"
  <2>1. CASE Start(r, d)
    <3>1. <<r, d>> # <<q, e>>
      BY <2>1 DEF Start
    <3>2. QED
      BY <2>1, <3>1 DEF Start, TypeOK, AttemptTypeOK, Attempts
  <2>2. CASE ~Start(r, d)
    <3>1. \/ pc' = pc
          \/ \E how \in {"replied", "acked", "finished"} :
                pc' = [pc EXCEPT ![<<r, d>>] = how]
      BY <2>2 DEF HandlerStep, EngineStep, DiscardExpired, DeadlineFires,
                  EngineCanceled, Ack, Meter, EmitChunk, EngineSucceeds,
                  EngineFails
    <3>2. <<q, e>> \in Attempts /\ pc[<<q, e>>] # "running"
      BY DEF Attempts
    <3>3. QED
      BY <3>1, <3>2 DEF TypeOK, AttemptTypeOK
  <2>3. QED
    BY <2>1, <2>2
<1>4. QED
  BY <1>1, <1>2, <1>3

LEMMA StoppedStep ==
  ASSUME TypeOK, [Next]_vars, NEW q \in Requests, Stopped(q)
  PROVE  Stopped(q)'
<1>1. ASSUME NEW w \in Workers,
             Crash(w) \/ Shutdown(w) \/ StopConsumer(w) \/ Restart(w)
      PROVE  Stopped(q)'
  <2>1. UNCHANGED <<gw, expired, msg>>
    BY <1>1
    DEF Crash, Shutdown, StopConsumer, Restart, gatewayVars, queueVars
  <2>2. \A d \in 1..MaxDeliver :
           pc'[<<q, d>>] \in {pc[<<q, d>>], "dead", "dropped"}
    BY <1>1
    DEF Crash, Shutdown, StopConsumer, Restart, Lose, attemptVars, Attempts
  <2>3. QED
    BY <2>1, <2>2 DEF Stopped
<1>2. CASE UNCHANGED vars
  BY <1>2 DEF vars, gatewayVars, queueVars, attemptVars, Stopped
<1>3. QED
  BY <1>1, <1>2, StoppedGatewayStep, StoppedQueueStep, StoppedHandlerStep
  DEF Next

\* Once the handler has returned, the deadline has passed and neither queue
\* nor engine has the request, it stays so: no late ack timeout, redelivery,
\* restart or buffered copy of the message brings it back (handle's check of
\* the deadline before it calls the engine).
THEOREM StoppedForGood ==
  ASSUME NEW q \in Requests
  PROVE  Spec => [](Stopped(q) => []Stopped(q))
<1>1. TypeOK /\ [Next]_vars => (Stopped(q) => Stopped(q)')
  BY StoppedStep
<1>2. QED
  BY <1>1, TypeCorrect, PTL DEF Spec

\* What fairness has to provide for AbandonedWorkStops is therefore only that
\* a request whose handler has returned is stopped once: JetStream's limits
\* and the deadline do that.
THEOREM AbandonedWorkNeedsOneStop ==
  ASSUME NEW q \in Requests
  PROVE  Spec /\ (gw[q] = "closed" ~> Stopped(q)) =>
           (gw[q] = "closed" ~>
              [](/\ msg[q] \notin InQueue
                 /\ \A d \in 1..MaxDeliver : pc[<<q, d>>] # "running"))
<1>1. Stopped(q) => /\ msg[q] \notin InQueue
                    /\ \A d \in 1..MaxDeliver : pc[<<q, d>>] # "running"
  BY DEF Stopped
<1>2. Spec => [](Stopped(q) => []Stopped(q))
  BY StoppedForGood
<1>3. QED
  BY <1>1, <1>2, PTL

=============================================================================
