------------------------ MODULE RequestStream_proofs ------------------------
(***************************************************************************)
(* Theorems about what a client receives, for any number of deliveries,    *)
(* chunks and channel slots.                                               *)
(*                                                                         *)
(* Frames of several attempts meet in one channel.  The argument follows   *)
(* them there: FrameInv ties a frame to the attempt that sent it, OutInv   *)
(* ties what was written to the client to what the listener has read, and  *)
(* StreamInv says that, while no frame was dropped, the frames of each     *)
(* attempt are in the channel without gap or repetition, so that only the  *)
(* attempt whose frames were read first can have the next one.  AnswerInv  *)
(* remembers, after [DONE], which attempt it came from.                    *)
(***************************************************************************)
EXTENDS RequestPath_proofs

USE DEF gatewayVars, listenerVars, queueVars, attemptVars

\* An attempt that sends no more frames, and a reader that may still read one.
Past == {"replied", "acked", "finished", "dead", "dropped"}
Open == {"idle", "listening", "reading"}

\* Attempt d of r has sent its done frame, with sequence number n.
DoneBy(r, d, n) ==
    /\ outcome[<<r, d>>] = "ok"
    /\ pc[<<r, d>>] \in Past
    /\ seq[<<r, d>>] = n + 1

FrameAt(r, i) ==
    LET f == chan[r][i]
    IN  /\ f.from <= deliveries[r]
        /\ f.seq < seq[<<r, f.from>>]
        /\ f.kind = "done" => DoneBy(r, f.from, f.seq)

OutAt(r) ==
    /\ \A i \in 1..Len(out[r]) :
          /\ out[r][i][1] <= deliveries[r]
          /\ out[r][i][2] = i - 1
          /\ ~dropped[r] => out[r][i][1] = out[r][1][1]
    /\ gw[r] \in Open /\ client[r] = "here" => Len(out[r]) = next[r]

\* The frame of attempt d that the listener has not passed yet.
Expected(r, d) ==
    IF Len(out[r]) > 0 /\ d = out[r][1][1] THEN next[r] ELSE 0

\* Only the attempt of the first frame written out expects more than frame 0.
LEMMA ExpectedOfFirst ==
  ASSUME NEW r, NEW d, Expected(r, d) # 0
  PROVE  d = out[r][1][1]
BY DEF Expected

\* Frame n of attempt d is the expected one, or follows one that is among the
\* first k frames of the channel.
Follows(r, d, n, k) ==
    \/ n = Expected(r, d)
    \/ \E j \in 1..k : chan[r][j].from = d /\ chan[r][j].seq = n - 1

FollowsAt(r, i) == Follows(r, chan[r][i].from, chan[r][i].seq, i - 1)

DistinctAt(r, i, j) ==
    i # j /\ chan[r][i].from = chan[r][j].from
        => chan[r][i].seq # chan[r][j].seq

SentAt(r, d) == Follows(r, d, seq[<<r, d>>], Len(chan[r]))

StreamAt(r) ==
    gw[r] \in Open /\ client[r] = "here" /\ ~dropped[r] =>
        /\ \A i \in 1..Len(chan[r]) : FollowsAt(r, i)
        /\ \A i, j \in 1..Len(chan[r]) : DistinctAt(r, i, j)
        /\ \A d \in 1..MaxDeliver : SentAt(r, d)

AnswerAt(r) ==
    end[r] = "done" /\ client[r] = "here" =>
        /\ gw[r] = "closed"
        /\ \E d \in 1..MaxDeliver :
              /\ d <= deliveries[r]
              /\ DoneBy(r, d, Len(out[r]))
              /\ ~dropped[r] \/ deliveries[r] = 1 =>
                    \A i \in 1..Len(out[r]) : out[r][i][1] = d

FrameInv  == \A r \in Requests : \A i \in 1..Len(chan[r]) : FrameAt(r, i)
OutInv    == \A r \in Requests : OutAt(r)
StreamInv == \A r \in Requests : StreamAt(r)
AnswerInv == \A r \in Requests : AnswerAt(r)

-----------------------------------------------------------------------------
(***************************************************************************)
(* What a step can do to the stream of a request: nothing that matters     *)
(* (Still), read a frame, or send one.                                     *)
(***************************************************************************)

Still(q) ==
    /\ UNCHANGED <<out[q], next[q], dropped[q]>>
    /\ \/ chan'[q] = chan[q]
       \/ chan'[q] = <<>> /\ gw'[q] \notin Open
    /\ deliveries'[q] >= deliveries[q]
    /\ \A d \in 1..MaxDeliver :
          /\ seq'[<<q, d>>] = seq[<<q, d>>]
          /\ pc[<<q, d>>] \in Past =>
                /\ pc'[<<q, d>>] \in Past
                /\ outcome'[<<q, d>>] = outcome[<<q, d>>]
    /\ client'[q] = "here" => client[q] = "here"
    /\ gw'[q] \in Open => gw[q] \in Open
    /\ end'[q] = "done" => end[q] = "done"
    /\ gw[q] = "closed" => gw'[q] = "closed"

WorkStep ==
    \/ \E r \in Requests :
          \/ AckTimeout(r) \/ AgeOut(r)
          \/ \E w \in Workers : Deliver(r, w)
          \/ \E d \in 1..MaxDeliver : HandlerStep(r, d)
    \/ \E w \in Workers :
          Crash(w) \/ Shutdown(w) \/ StopConsumer(w) \/ Restart(w)

Sends(q, d) == EmitChunk(q, d) \/ EngineSucceeds(q, d) \/ EngineFails(q, d)

\* The gateway's own steps, and the client's.
LEMMA GatewayStill ==
  ASSUME TypeOK, NEW q \in Requests, NEW r \in Requests,
         ClientHangup(r) \/ Expire(r) \/ Listen(r) \/ Publish(r) \/
         PublishFails(r) \/ ReadGap(r) \/ ReadTimesOut(r) \/
         ReadCanceled(r) \/ Cancel(r) \/ DeleteQueued(r)
  PROVE  Still(q)
<1> USE DEF TypeOK, GatewayTypeOK, ListenerTypeOK, QueueTypeOK, Open
<1>1. ASSUME UNCHANGED <<out, next, dropped, deliveries, pc, seq, outcome>>,
             chan'[q] = chan[q] \/ (chan'[q] = <<>> /\ gw'[q] \notin Open),
             client'[q] = "here" => client[q] = "here",
             gw'[q] \in Open => gw[q] \in Open,
             end'[q] = "done" => end[q] = "done",
             gw[q] = "closed" => gw'[q] = "closed"
      PROVE  Still(q)
  BY <1>1 DEF Still
<1>2. CASE ClientHangup(r)
  BY <1>1, <1>2 DEF ClientHangup
<1>3. CASE Expire(r)
  BY <1>1, <1>3 DEF Expire
<1>4. CASE Listen(r)
  BY <1>1, <1>4 DEF Listen
<1>5. CASE Publish(r)
  BY <1>1, <1>5 DEF Publish
<1>6. CASE PublishFails(r)
  BY <1>1, <1>6 DEF PublishFails
<1>7. CASE ReadGap(r) \/ ReadTimesOut(r) \/ ReadCanceled(r)
  <2>1. /\ UNCHANGED <<client, end, out, next, dropped, deliveries, pc, seq,
                       outcome>>
        /\ chan' = [chan EXCEPT ![r] = <<>>]
        /\ gw' = [gw EXCEPT ![r] = "cancel"]
        /\ gw[r] = "reading"
    BY <1>7 DEF ReadGap, ReadTimesOut, ReadCanceled, StopReading, Readable
  <2>2. QED
    BY <1>1, <2>1
<1>8. CASE Cancel(r)
  BY <1>1, <1>8 DEF Cancel
<1>9. CASE DeleteQueued(r)
  BY <1>1, <1>9 DEF DeleteQueued
<1>10. QED
  BY <1>2, <1>3, <1>4, <1>5, <1>6, <1>7, <1>8, <1>9

\* The steps of the queue, of the processes and of handlers that send nothing.
LEMMA WorkStill ==
  ASSUME IInv, NEW q \in Requests,
         WorkStep
  PROVE  Still(q)
<1> TypeOK
  BY DEF IInv
<1> USE DEF TypeOK, GatewayTypeOK, ListenerTypeOK, QueueTypeOK
<1> deliveries[q] \in Nat
  BY RequestPathAssumption
<1>1. ASSUME UNCHANGED <<gw, client, out, end, chan, next, dropped>>,
             deliveries'[q] >= deliveries[q],
             UNCHANGED seq,
             \A d \in 1..MaxDeliver :
                pc[<<q, d>>] \in Past =>
                   /\ pc'[<<q, d>>] \in Past
                   /\ outcome'[<<q, d>>] = outcome[<<q, d>>]
      PROVE  Still(q)
  BY <1>1 DEF Still
<1>2. ASSUME NEW r \in Requests, AckTimeout(r) \/ AgeOut(r)
      PROVE  Still(q)
  BY <1>1, <1>2 DEF AckTimeout, AgeOut
<1>3. ASSUME NEW r \in Requests, NEW w \in Workers, Deliver(r, w)
      PROVE  Still(q)
  <2>1. deliveries'[q] >= deliveries[q]
    <3>1. deliveries'[q] = IF q = r THEN deliveries[q] + 1 ELSE deliveries[q]
      BY <1>3 DEF Deliver
    <3>2. QED
      BY <3>1
  <2>2. deliveries[r] < MaxDeliver /\ deliveries[r] \in Nat
    <3>1. QueueAt(r)
      BY DEF IInv, QueueInv
    <3>2. QED
      BY <1>3, <3>1, RequestPathAssumption DEF Deliver, QueueAt
  <2>3. deliveries[r] + 1 \in 1..MaxDeliver
    BY <2>2, RequestPathAssumption
  <2>4. pc[<<r, deliveries[r] + 1>>] = "none"
    BY <2>2, <2>3 DEF IInv, AttemptInv, AttemptAt
  <2>5. \A d \in 1..MaxDeliver : pc[<<q, d>>] \in Past =>
           /\ pc'[<<q, d>>] = pc[<<q, d>>]
           /\ outcome'[<<q, d>>] = outcome[<<q, d>>]
    <3>1. PICK a : /\ a = <<r, deliveries[r] + 1>> /\ pc[a] = "none"
                   /\ pc' = [pc EXCEPT ![a] = "buffered"]
                   /\ outcome' = outcome
      BY <1>3, <2>4 DEF Deliver
    <3>2. pc = [b \in Attempts |-> pc[b]]
      BY DEF IInv, TypeOK, AttemptTypeOK
    <3>3. ASSUME NEW b \in Attempts, pc[b] \in Past PROVE pc'[b] = pc[b]
      BY <3>1, <3>2, <3>3 DEF Past
    <3>4. \A d \in 1..MaxDeliver : <<q, d>> \in Attempts
      BY DEF Attempts
    <3>5. QED
      BY <3>1, <3>3, <3>4
  <2>6. QED
    BY <1>1, <1>3, <2>1, <2>5 DEF Deliver
<1>4. ASSUME NEW r \in Requests, NEW e \in 1..MaxDeliver,
             DiscardExpired(r, e) \/ Start(r, e) \/ DeadlineFires(r, e)
             \/ EngineCanceled(r, e)
      PROVE  Still(q)
  <2>1. /\ UNCHANGED <<gw, client, out, end, chan, next, dropped,
                       deliveries, seq>>
        /\ pc[<<r, e>>] \notin Past
        /\ \/ UNCHANGED pc
           \/ pc' = [pc EXCEPT ![<<r, e>>] = "replied"]
           \/ pc' = [pc EXCEPT ![<<r, e>>] = "running"]
        /\ \/ UNCHANGED outcome
           \/ outcome' = [outcome EXCEPT ![<<r, e>>] = "canceled"]
    BY <1>4
    DEF DiscardExpired, Start, DeadlineFires, EngineCanceled, Past
  <2>2. \A d \in 1..MaxDeliver : pc[<<q, d>>] \in Past =>
           /\ pc'[<<q, d>>] = pc[<<q, d>>]
           /\ outcome'[<<q, d>>] = outcome[<<q, d>>]
    <3>1. /\ pc \in [Attempts -> Live \cup {"none", "finished", "dropped",
                                            "dead"}]
          /\ outcome \in [Attempts -> {"none", "ok", "error", "canceled"}]
          /\ \A d \in 1..MaxDeliver : <<q, d>> \in Attempts
      BY DEF AttemptTypeOK, Attempts
    <3>2. \A d \in 1..MaxDeliver : pc[<<q, d>>] \in Past =>
             <<q, d>> # <<r, e>>
      BY <2>1
    <3>3. \A a \in Attempts : a # <<r, e>> =>
             pc'[a] = pc[a] /\ outcome'[a] = outcome[a]
      BY <2>1, <3>1
    <3>4. QED
      BY <3>1, <3>2, <3>3
  <2>3. QED
    BY <1>1, <2>1, <2>2
<1>5. ASSUME NEW r \in Requests, NEW e \in 1..MaxDeliver,
             Ack(r, e) \/ Meter(r, e)
      PROVE  Still(q)
  <2>1. /\ UNCHANGED <<gw, client, out, end, chan, next, dropped,
                       deliveries, seq, outcome>>
        /\ \/ pc' = [pc EXCEPT ![<<r, e>>] = "acked"]
           \/ pc' = [pc EXCEPT ![<<r, e>>] = "finished"]
    BY <1>5 DEF Ack, Meter
  <2>2. \A d \in 1..MaxDeliver :
           pc[<<q, d>>] \in Past => pc'[<<q, d>>] \in Past
    <3>1. /\ pc \in [Attempts -> Live \cup {"none", "finished", "dropped",
                                            "dead"}]
          /\ \A d \in 1..MaxDeliver : <<q, d>> \in Attempts
      BY DEF AttemptTypeOK, Attempts
    <3>2. QED
      BY <2>1, <3>1 DEF Past
  <2>3. QED
    BY <1>1, <2>1, <2>2
<1>6. ASSUME NEW w \in Workers, Crash(w) \/ StopConsumer(w)
      PROVE  Still(q)
  <2>1. UNCHANGED <<gw, client, out, end, chan, next, dropped, deliveries,
                    seq, outcome>>
    BY <1>6 DEF Crash, StopConsumer, Lose
  <2>2. \A d \in 1..MaxDeliver :
           pc[<<q, d>>] \in Past => pc'[<<q, d>>] \in Past
    BY <1>6, LossEffect DEF IInv, Past, Gone, Attempts
  <2>3. QED
    BY <1>1, <2>1, <2>2
<1>7. ASSUME NEW w \in Workers, Shutdown(w) \/ Restart(w)
      PROVE  Still(q)
  BY <1>1, <1>7 DEF Shutdown, Restart
<1>8. QED
  BY <1>2, <1>3, <1>4, <1>5, <1>6, <1>7 DEF WorkStep, HandlerStep

\* Reading a chunk: the head frame was the expected one, and it moves from
\* the channel to the client, if the client is there.
Read(q) ==
    /\ gw[q] = "reading"
    /\ Len(chan[q]) > 0
    /\ chan[q][1].seq = next[q]
    /\ Len(chan'[q]) = Len(chan[q]) - 1
    /\ \A i \in 1..Len(chan'[q]) : chan'[q][i] = chan[q][i + 1]
    /\ next'[q] = next[q] + 1
    /\ \/ client[q] = "gone" /\ out'[q] = out[q]
       \/ /\ client[q] = "here"
          /\ Len(out'[q]) = Len(out[q]) + 1
          /\ \A i \in 1..Len(out[q]) : out'[q][i] = out[q][i]
          /\ out'[q][Len(out[q]) + 1] = <<chan[q][1].from, chan[q][1].seq>>
    /\ UNCHANGED <<gw, client, end, dropped, deliveries, pc, seq, outcome>>

\* Reading a terminal frame: the channel is forgotten.
Answered(q) ==
    /\ gw[q] = "reading"
    /\ Len(chan[q]) > 0
    /\ chan[q][1].seq = next[q]
    /\ chan'[q] = <<>>
    /\ gw'[q] = "closed"
    /\ end'[q] = chan[q][1].kind
    /\ UNCHANGED <<client, out, dropped, deliveries, pc, seq, outcome>>

\* Sending: the frame gets the attempt's next sequence number, and either it
\* enters the channel, or nobody listens, or the channel is full.
Sent(q, d) ==
    /\ pc[<<q, d>>] = "running"
    /\ \/ /\ Len(chan'[q]) = Len(chan[q]) + 1
          /\ \A i \in 1..Len(chan[q]) : chan'[q][i] = chan[q][i]
          /\ chan'[q][Len(chan[q]) + 1].from = d
          /\ chan'[q][Len(chan[q]) + 1].seq = seq[<<q, d>>]
          /\ chan'[q][Len(chan[q]) + 1].kind = "done" =>
                outcome'[<<q, d>>] = "ok" /\ pc'[<<q, d>>] = "replied"
          /\ dropped'[q] = dropped[q]
       \/ /\ chan'[q] = chan[q]
          /\ dropped'[q] \/ (gw[q] \notin {"listening", "reading"}
                               /\ dropped'[q] = dropped[q])
    /\ seq'[<<q, d>>] = seq[<<q, d>>] + 1
    /\ \A e \in 1..MaxDeliver : e # d =>
          /\ seq'[<<q, e>>] = seq[<<q, e>>]
          /\ pc'[<<q, e>>] = pc[<<q, e>>]
          /\ outcome'[<<q, e>>] = outcome[<<q, e>>]
    /\ UNCHANGED <<gw, client, out, end, next, deliveries>>

LEMMA ReadEffect ==
  ASSUME TypeOK, NEW q \in Requests, NEW r \in Requests, ReadChunk(r)
  PROVE  (q = r /\ Read(q)) \/ Still(q)
<1> DEFINE h == <<Head(chan[r]).from, Head(chan[r]).seq>>
<1>1. /\ chan[r] \in Seq(Frame) /\ chan[r] # <<>>
      /\ out[r] \in Seq((1..MaxDeliver) \X Nat)
      /\ \A x \in Requests : /\ x # r => chan'[x] = chan[x]
                             /\ x # r => next'[x] = next[x]
                             /\ x # r => out'[x] = out[x]
      /\ chan'[r] = Tail(chan[r]) /\ next'[r] = next[r] + 1
      /\ Head(chan[r]).seq = next[r] /\ gw[r] = "reading"
      /\ UNCHANGED <<gw, client, end, dropped, deliveries, pc, seq, outcome>>
  BY DEF ReadChunk, Readable, InOrder, TypeOK, GatewayTypeOK, ListenerTypeOK
<1>2. \/ client[r] = "here" /\ out'[r] = Append(out[r], h)
      \/ client[r] = "gone" /\ out'[r] = out[r]
  BY DEF ReadChunk, TypeOK, GatewayTypeOK
<1>3. CASE q # r
  BY <1>1, <1>3, RequestPathAssumption
  DEF Still, TypeOK, QueueTypeOK
<1>4. CASE q = r
  <2>1. /\ Head(chan[r]) \in Frame /\ Head(chan[r]) = chan[r][1]
        /\ Len(chan[r]) \in Nat /\ Len(chan[r]) > 0
        /\ Len(Tail(chan[r])) = Len(chan[r]) - 1
        /\ \A i \in 1..Len(Tail(chan[r])) : Tail(chan[r])[i] = chan[r][i + 1]
    BY <1>1, HeadTailProperties, EmptySeq, LenProperties
  <2>2. h \in (1..MaxDeliver) \X Nat
    BY <2>1 DEF Frame
  <2>3. /\ Len(Append(out[r], h)) = Len(out[r]) + 1
        /\ \A i \in 1..Len(out[r]) : Append(out[r], h)[i] = out[r][i]
        /\ Append(out[r], h)[Len(out[r]) + 1] = h
    BY <1>1, <2>2, AppendProperties
  <2> HIDE DEF h
  <2>4. h = <<chan[r][1].from, chan[r][1].seq>>
    BY <2>1 DEF h
  <2>5. QED
    BY <1>1, <1>2, <1>4, <2>1, <2>3, <2>4 DEF Read
<1>5. QED
  BY <1>3, <1>4

LEMMA AnswerEffect ==
  ASSUME TypeOK, NEW q \in Requests, NEW r \in Requests, ReadTerminal(r)
  PROVE  (q = r /\ Answered(q)) \/ Still(q)
<1>1. /\ chan[r] \in Seq(Frame) /\ chan[r] # <<>>
      /\ \A x \in Requests : /\ x # r => chan'[x] = chan[x]
                             /\ x # r => next'[x] = next[x]
                             /\ x # r => gw'[x] = gw[x]
                             /\ x # r => end'[x] = end[x]
      /\ chan'[r] = <<>> /\ gw'[r] = "closed" /\ end'[r] = Head(chan[r]).kind
      /\ Head(chan[r]).seq = next[r] /\ gw[r] = "reading"
      /\ UNCHANGED <<client, out, dropped, deliveries, pc, seq, outcome>>
  BY DEF ReadTerminal, Readable, InOrder, TypeOK, GatewayTypeOK,
         ListenerTypeOK
<1>2. Head(chan[r]) = chan[r][1] /\ Len(chan[r]) > 0
  BY <1>1, HeadTailProperties, EmptySeq, LenProperties
<1>3. CASE q # r
  BY <1>1, <1>3, RequestPathAssumption
  DEF Still, TypeOK, QueueTypeOK
<1>4. CASE q = r
  BY <1>1, <1>2, <1>4 DEF Answered
<1>5. QED
  BY <1>3, <1>4

LEMMA SendEffect ==
  ASSUME TypeOK, NEW q \in Requests, NEW r \in Requests,
         NEW d \in 1..MaxDeliver, Sends(r, d)
  PROVE  (q = r /\ Sent(q, d)) \/ Still(q)
<1> DEFINE f(k) == [kind |-> k, seq |-> seq[<<r, d>>], from |-> d]
<1>1. /\ pc[<<r, d>>] = "running"
      /\ UNCHANGED <<gw, client, out, end, next, deliveries>>
      /\ \/ UNCHANGED <<pc, outcome>> /\ Send(r, d, "chunk")
         \/ /\ pc' = [pc EXCEPT ![<<r, d>>] = "replied"]
            /\ \/ /\ outcome' = [outcome EXCEPT ![<<r, d>>] = "ok"]
                  /\ Send(r, d, "done") \/ Send(r, d, "result")
               \/ /\ outcome' = [outcome EXCEPT ![<<r, d>>] = "error"]
                  /\ Send(r, d, "error")
  BY DEF Sends, EmitChunk, EngineSucceeds, EngineFails, Send
<1>2. PICK k \in {"chunk", "done", "result", "error"} :
        /\ Send(r, d, k)
        /\ k = "done" =>
             /\ pc' = [pc EXCEPT ![<<r, d>>] = "replied"]
             /\ outcome' = [outcome EXCEPT ![<<r, d>>] = "ok"]
  BY <1>1
<1>3. /\ pc \in [Attempts -> Live \cup {"none", "finished", "dropped",
                                        "dead"}]
      /\ outcome \in [Attempts -> {"none", "ok", "error", "canceled"}]
      /\ seq \in [Attempts -> Nat]
      /\ chan \in [Requests -> Seq(Frame)]
      /\ dropped \in [Requests -> BOOLEAN]
      /\ <<r, d>> \in Attempts
      /\ \A x \in Requests, e \in 1..MaxDeliver : <<x, e>> \in Attempts
  BY DEF TypeOK, AttemptTypeOK, ListenerTypeOK, Attempts
<1>4. \A a \in Attempts : a # <<r, d>> =>
         pc'[a] = pc[a] /\ outcome'[a] = outcome[a] /\ seq'[a] = seq[a]
  <2>1. seq' = [seq EXCEPT ![<<r, d>>] = seq[<<r, d>>] + 1]
    BY <1>2 DEF Send
  <2>2. QED
    BY <1>1, <1>3, <2>1
<1>5. /\ seq'[<<r, d>>] = seq[<<r, d>>] + 1
      /\ k = "done" => /\ pc'[<<r, d>>] = "replied"
                       /\ outcome'[<<r, d>>] = "ok"
  BY <1>2, <1>3 DEF Send
<1>6. CASE q # r
  <2>1. chan'[q] = chan[q] /\ dropped'[q] = dropped[q]
    BY <1>2, <1>3, <1>6 DEF Send
  <2>2. \A e \in 1..MaxDeliver : <<q, e>> \in Attempts /\ <<q, e>> # <<r, d>>
    BY <1>3, <1>6
  <2>3. deliveries'[q] >= deliveries[q]
    BY <1>1, RequestPathAssumption DEF TypeOK, QueueTypeOK
  <2>4. QED
    BY <1>1, <1>4, <2>1, <2>2, <2>3 DEF Still
<1>7. CASE q = r
  <2>1. f(k) \in Frame
    BY <1>3 DEF Frame
  <2>2. /\ Len(Append(chan[r], f(k))) = Len(chan[r]) + 1
        /\ \A i \in 1..Len(chan[r]) : Append(chan[r], f(k))[i] = chan[r][i]
        /\ Append(chan[r], f(k))[Len(chan[r]) + 1] = f(k)
    BY <1>3, <2>1, AppendProperties
  <2>3. \/ chan'[r] = Append(chan[r], f(k)) /\ dropped'[r] = dropped[r]
        \/ /\ chan'[r] = chan[r]
           /\ dropped'[r] \/ (gw[r] \notin {"listening", "reading"}
                                /\ dropped'[r] = dropped[r])
    BY <1>2, <1>3 DEF Send
  <2>4. /\ f(k).from = d /\ f(k).seq = seq[<<r, d>>] /\ f(k).kind = k
    OBVIOUS
  <2>5. \A e \in 1..MaxDeliver : e # d =>
           <<r, e>> \in Attempts /\ <<r, e>> # <<r, d>>
    BY <1>3
  <2> HIDE DEF f
  <2>6. QED
    BY <1>1, <1>4, <1>5, <1>7, <2>2, <2>3, <2>4, <2>5 DEF Sent
<1>8. QED
  BY <1>6, <1>7

\* Every step of the system is one of these for every request.
LEMMA StepKinds ==
  ASSUME IInv, [Next]_vars, NEW q \in Requests
  PROVE  \/ Still(q) \/ Read(q) \/ Answered(q)
         \/ \E d \in 1..MaxDeliver : Sent(q, d)
<1> TypeOK
  BY DEF IInv
<1>1. ASSUME NEW r \in Requests, ReadChunk(r)
      PROVE  Still(q) \/ Read(q)
  BY <1>1, ReadEffect
<1>2. ASSUME NEW r \in Requests, ReadTerminal(r)
      PROVE  Still(q) \/ Answered(q)
  BY <1>2, AnswerEffect
<1>3. ASSUME NEW r \in Requests, NEW d \in 1..MaxDeliver, Sends(r, d)
      PROVE  Still(q) \/ \E e \in 1..MaxDeliver : Sent(q, e)
  BY <1>3, SendEffect
<1>4. ASSUME NEW r \in Requests,
             ClientHangup(r) \/ Expire(r) \/ Listen(r) \/ Publish(r) \/
             PublishFails(r) \/ ReadGap(r) \/ ReadTimesOut(r) \/
             ReadCanceled(r) \/ Cancel(r) \/ DeleteQueued(r)
      PROVE  Still(q)
  BY <1>4, GatewayStill
<1>5. CASE WorkStep
  BY <1>5, WorkStill
<1>6. CASE UNCHANGED vars
  BY <1>6, RequestPathAssumption
  DEF Still, vars, TypeOK, QueueTypeOK
<1>7. QED
  BY <1>1, <1>2, <1>3, <1>4, <1>5, <1>6
  DEF Next, GatewayStep, EngineStep, Sends, WorkStep

-----------------------------------------------------------------------------
(***************************************************************************)
(* The frames in the channel, and what was written to the client.          *)
(***************************************************************************)

\* The types these steps keep using, for one request.
LEMMA StreamTypes ==
  ASSUME TypeOK, NEW q \in Requests
  PROVE  /\ Len(chan[q]) \in Nat
         /\ \A i \in 1..Len(chan[q]) :
               /\ chan[q][i].from \in 1..MaxDeliver
               /\ chan[q][i].seq \in Nat
         /\ Len(out[q]) \in Nat
         /\ \A i \in 1..Len(out[q]) :
               out[q][i] \in (1..MaxDeliver) \X Nat
         /\ next[q] \in Nat /\ deliveries[q] \in Nat
         /\ dropped[q] \in BOOLEAN
         /\ client[q] \in {"here", "gone"}
         /\ \A d \in 1..MaxDeliver :
               /\ <<q, d>> \in Attempts
               /\ seq[<<q, d>>] \in Nat
<1>1. chan[q] \in Seq(Frame) /\ out[q] \in Seq((1..MaxDeliver) \X Nat)
  BY DEF TypeOK, GatewayTypeOK, ListenerTypeOK
<1>2. /\ Len(chan[q]) \in Nat
      /\ \A i \in 1..Len(chan[q]) : chan[q][i] \in Frame
  BY <1>1, LenProperties, ElementOfSeq
<1>3. /\ Len(out[q]) \in Nat
      /\ \A i \in 1..Len(out[q]) : out[q][i] \in (1..MaxDeliver) \X Nat
  BY <1>1, LenProperties, ElementOfSeq
<1>4. \A d \in 1..MaxDeliver : <<q, d>> \in Attempts /\ seq[<<q, d>>] \in Nat
  BY DEF TypeOK, AttemptTypeOK, Attempts
<1>5. /\ next[q] \in Nat /\ deliveries[q] \in Nat
      /\ dropped[q] \in BOOLEAN
      /\ client[q] \in {"here", "gone"}
  BY RequestPathAssumption
  DEF TypeOK, GatewayTypeOK, ListenerTypeOK, QueueTypeOK
<1>6. QED
  BY <1>2, <1>3, <1>4, <1>5 DEF Frame

\* An attempt that runs is one that was delivered, to a request whose
\* subscription came first.
LEMMA RunningDelivered ==
  ASSUME IInv, NEW q \in Requests, NEW d \in 1..MaxDeliver,
         pc[<<q, d>>] = "running"
  PROVE  d <= deliveries[q] /\ gw[q] \notin {"idle", "listening"}
<1>1. QueueAt(q) /\ AttemptAt(q, d) /\ deliveries[q] \in Nat /\ d \in Nat
  BY RequestPathAssumption
  DEF IInv, QueueInv, AttemptInv, TypeOK, QueueTypeOK
<1>2. d <= deliveries[q]
  BY <1>1 DEF AttemptAt
<1>3. QED
  BY <1>1, <1>2 DEF QueueAt

LEMMA FrameStep ==
  ASSUME IInv, FrameInv, [Next]_vars
  PROVE  FrameInv'
<1> SUFFICES ASSUME NEW q \in Requests, NEW i \in 1..Len(chan'[q])
             PROVE  FrameAt(q, i)'
  BY DEF FrameInv
<1> \A k \in 1..Len(chan[q]) : FrameAt(q, k)
  BY DEF FrameInv
<1>t. TypeOK
  BY DEF IInv
<1>1. CASE Still(q)
  <2>1. chan'[q] = chan[q]
    BY <1>1, EmptySeq DEF Still
  <2>2. i \in 1..Len(chan[q]) /\ FrameAt(q, i)
    BY <2>1
  <2>3. chan[q][i].from \in 1..MaxDeliver /\ deliveries[q] \in Nat
    BY <1>t, <2>2, StreamTypes
  <2>4. deliveries'[q] >= deliveries[q] /\ deliveries'[q] \in Nat
    <3>1. TypeOK'
      BY TypeStep DEF IInv
    <3>2. QED
      BY <1>1, <3>1, RequestPathAssumption DEF Still, TypeOK, QueueTypeOK
  <2>5. QED
    BY <1>1, <2>1, <2>2, <2>3, <2>4 DEF Still, FrameAt, DoneBy
<1>2. CASE Read(q)
  <2>1. i + 1 \in 1..Len(chan[q]) /\ chan'[q][i] = chan[q][i + 1]
    <3>1. Len(chan[q]) \in Nat
      BY <1>t, StreamTypes
    <3>2. Len(chan'[q]) = Len(chan[q]) - 1 /\ Len(chan[q]) > 0
      BY <1>2 DEF Read
    <3>3. i \in 1..Len(chan[q]) - 1
      BY <3>2
    <3>4. chan'[q][i] = chan[q][i + 1]
      BY <1>2 DEF Read
    <3>5. QED
      BY <3>1, <3>3, <3>4
  <2>2. FrameAt(q, i + 1)
    BY <2>1
  <2>3. QED
    BY <1>2, <2>1, <2>2 DEF Read, FrameAt, DoneBy
<1>3. CASE Answered(q)
  BY <1>3, EmptySeq DEF Answered
<1>4. ASSUME NEW d \in 1..MaxDeliver, Sent(q, d)
      PROVE  FrameAt(q, i)'
  <2>1. CASE i \in 1..Len(chan[q]) /\ chan'[q][i] = chan[q][i]
    <3>1. FrameAt(q, i) /\ chan[q][i].from \in 1..MaxDeliver
      BY <1>t, <2>1, StreamTypes
    <3>2. chan[q][i].seq \in Nat
          /\ \A e \in 1..MaxDeliver : seq[<<q, e>>] \in Nat
      BY <1>t, <2>1, StreamTypes
    <3>3. CASE chan[q][i].from = d
      <4>1. chan[q][i].kind # "done"
        BY <1>4, <3>1, <3>3 DEF Sent, FrameAt, DoneBy, Past
      <4>2. QED
        BY <1>4, <2>1, <3>1, <3>2, <3>3, <4>1 DEF Sent, FrameAt
    <3>4. CASE chan[q][i].from # d
      BY <1>4, <2>1, <3>1, <3>4 DEF Sent, FrameAt, DoneBy
    <3>5. QED
      BY <3>3, <3>4
  <2>2. CASE i = Len(chan[q]) + 1 /\ Len(chan'[q]) = Len(chan[q]) + 1
    <3>1. /\ chan'[q][i].from = d /\ chan'[q][i].seq = seq[<<q, d>>]
          /\ chan'[q][i].kind = "done" =>
                outcome'[<<q, d>>] = "ok" /\ pc'[<<q, d>>] = "replied"
          /\ seq'[<<q, d>>] = seq[<<q, d>>] + 1
          /\ UNCHANGED deliveries
      <4>1. chan'[q] # chan[q]
        BY <2>2, <1>t, StreamTypes
      <4>2. QED
        BY <1>4, <2>2, <4>1 DEF Sent
    <3>2. d <= deliveries[q] /\ seq[<<q, d>>] \in Nat
      BY <1>4, <1>t, RunningDelivered, StreamTypes DEF Sent
    <3>3. QED
      BY <3>1, <3>2 DEF FrameAt, DoneBy, Past
  <2>3. QED
    BY <1>4, <1>t, <2>1, <2>2, StreamTypes DEF Sent
<1>5. QED
  BY <1>1, <1>2, <1>3, <1>4, StepKinds

LEMMA OutStep ==
  ASSUME IInv, FrameInv, OutInv, StreamInv, [Next]_vars
  PROVE  OutInv'
<1> SUFFICES ASSUME NEW q \in Requests
             PROVE  OutAt(q)'
  BY DEF OutInv
<1>t. TypeOK /\ TypeOK'
  BY TypeStep DEF IInv
<1>o. OutAt(q) /\ StreamAt(q)
  BY DEF OutInv, StreamInv
<1>1. CASE Still(q)
  <2>1. /\ \A i \in 1..Len(out[q]) : out[q][i][1] \in Nat
        /\ deliveries[q] \in Nat /\ deliveries'[q] \in Nat
    BY <1>t, StreamTypes, RequestPathAssumption DEF TypeOK, QueueTypeOK
  <2>2. QED
    BY <1>1, <1>o, <2>1 DEF Still, OutAt
<1>2. CASE Read(q)
  <2>1. CASE client[q] = "gone"
    BY <1>2, <1>o, <2>1 DEF Read, OutAt
  <2>2. CASE client[q] = "here"
    <3> DEFINE n == Len(out[q])
               h == chan[q][1]
    <3>1. /\ n \in Nat /\ n = next[q] /\ Len(out'[q]) = n + 1
          /\ \A i \in 1..n : out'[q][i] = out[q][i]
          /\ out'[q][n + 1] = <<h.from, h.seq>>
          /\ h.seq = next[q] /\ next'[q] = next[q] + 1
      BY <1>2, <1>o, <1>t, <2>2, StreamTypes DEF Read, OutAt, Open
    <3>2. h.from <= deliveries[q]
      <4>1. 1 \in 1..Len(chan[q])
        BY <1>2, <1>t, StreamTypes DEF Read
      <4>2. QED
        BY <4>1 DEF FrameInv, FrameAt
    <3>3. ASSUME ~dropped[q], n > 0
          PROVE  h.from = out[q][1][1]
      <4>1. FollowsAt(q, 1)
        BY <1>2, <1>o, <2>2, <3>3, <1>t, StreamTypes
        DEF StreamAt, Read, Open
      <4>2. h.seq = Expected(q, h.from)
        BY <4>1 DEF FollowsAt, Follows
      <4>3. Expected(q, h.from) # 0
        BY <3>1, <3>3, <4>2
      <4>4. QED
        BY <4>3, ExpectedOfFirst
    <3>4. \A i \in 1..(n + 1) :
             /\ out'[q][i][1] <= deliveries[q]
             /\ out'[q][i][2] = i - 1
             /\ ~dropped[q] => out'[q][i][1] = out'[q][1][1]
      <4> SUFFICES ASSUME NEW i \in 1..(n + 1)
                   PROVE  /\ out'[q][i][1] <= deliveries[q]
                          /\ out'[q][i][2] = i - 1
                          /\ ~dropped[q] => out'[q][i][1] = out'[q][1][1]
        OBVIOUS
      <4>1. CASE i \in 1..n
        <5>1. out'[q][i] = out[q][i] /\ out'[q][1] = out[q][1]
          <6>1. 1 \in 1..n
            BY <3>1, <4>1
          <6>2. QED
            BY <3>1, <4>1, <6>1
        <5>2. /\ out[q][i][1] <= deliveries[q]
              /\ out[q][i][2] = i - 1
              /\ ~dropped[q] => out[q][i][1] = out[q][1][1]
          BY <1>o, <4>1 DEF OutAt
        <5>3. QED
          BY <5>1, <5>2
      <4>2. CASE i = n + 1
        <5>1. out'[q][i][1] = h.from /\ out'[q][i][2] = n
          BY <3>1, <4>2
        <5>2. ~dropped[q] /\ n > 0 => out'[q][i][1] = out'[q][1][1]
          BY <3>1, <3>3, <5>1
        <5>3. n = 0 => i = 1
          BY <4>2
        <5>4. QED
          BY <3>1, <3>2, <4>2, <5>1, <5>2, <5>3
      <4>3. QED
        BY <3>1, <4>1, <4>2
    <3>5. QED
      BY <1>2, <3>1, <3>4 DEF Read, OutAt
  <2>3. QED
    BY <2>1, <2>2, <1>t, StreamTypes
<1>3. CASE Answered(q)
  BY <1>3, <1>o DEF Answered, OutAt, Open
<1>4. ASSUME NEW d \in 1..MaxDeliver, Sent(q, d)
      PROVE  OutAt(q)'
  BY <1>4, <1>o, <1>t, StreamTypes DEF Sent, OutAt
<1>5. QED
  BY <1>1, <1>2, <1>3, <1>4, StepKinds

-----------------------------------------------------------------------------
(***************************************************************************)
(* The frames of each attempt are in the channel without gap.              *)
(***************************************************************************)

\* Reading a frame moves the place of its attempt only.
LEMMA ReadExpected ==
  ASSUME TypeOK, TypeOK', NEW q \in Requests, FrameInv, OutAt(q), StreamAt(q),
         Read(q), client[q] = "here", ~dropped[q]
  PROVE  LET h == chan[q][1] IN
         /\ h.seq = Expected(q, h.from)
         /\ \A d \in 1..MaxDeliver :
               Expected(q, d)' = IF d = h.from THEN h.seq + 1
                                 ELSE Expected(q, d)
<1> DEFINE n == Len(out[q])
           h == chan[q][1]
<1>1. /\ n \in Nat /\ n = next[q] /\ Len(out'[q]) = n + 1
      /\ \A i \in 1..n : out'[q][i] = out[q][i]
      /\ out'[q][n + 1] = <<h.from, h.seq>>
      /\ h.seq = next[q] /\ next'[q] = next[q] + 1
      /\ 1 \in 1..Len(chan[q])
  <2>1. Len(out[q]) \in Nat /\ Len(chan[q]) \in Nat
    BY StreamTypes
  <2>2. gw[q] \in Open /\ Len(chan[q]) > 0
    BY DEF Read, Open
  <2>3. Len(out[q]) = next[q]
    BY <2>2 DEF OutAt
  <2>4. /\ Len(out'[q]) = Len(out[q]) + 1
        /\ \A i \in 1..Len(out[q]) : out'[q][i] = out[q][i]
        /\ out'[q][Len(out[q]) + 1] = <<chan[q][1].from, chan[q][1].seq>>
    BY DEF Read
  <2>5. chan[q][1].seq = next[q] /\ next'[q] = next[q] + 1
    BY DEF Read
  <2> QED
    BY <2>1, <2>2, <2>3, <2>4, <2>5
<1>2. FollowsAt(q, 1)
  BY <1>1 DEF StreamAt, Read, Open
<1>3. h.seq = Expected(q, h.from)
  BY <1>2 DEF FollowsAt, Follows
<1>4. out'[q][1][1] = h.from
  <2>1. CASE n = 0
    BY <1>1, <2>1
  <2>2. CASE n > 0
    <3>1. h.from = out[q][1][1]
      <4>1. Expected(q, h.from) # 0
        BY <1>1, <1>3, <2>2
      <4>2. QED
        BY <4>1, ExpectedOfFirst
    <3>2. 1 \in 1..n
      BY <1>1, <2>2
    <3>3. QED
      BY <1>1, <3>1, <3>2
  <2>3. QED
    BY <1>1, <2>1, <2>2
<1>5. ASSUME NEW d \in 1..MaxDeliver
      PROVE  Expected(q, d)' = IF d = h.from THEN h.seq + 1
                               ELSE Expected(q, d)
  <2>1. Expected(q, d)' = IF d = h.from THEN h.seq + 1 ELSE 0
    BY <1>1, <1>4 DEF Expected
  <2>2. ASSUME d # h.from
        PROVE  Expected(q, d) = 0
    BY <1>1, <1>3, <2>2 DEF Expected
  <2>3. QED
    BY <2>1, <2>2
<1>6. QED
  BY <1>3, <1>5

LEMMA ReadStream ==
  ASSUME TypeOK, TypeOK', NEW q \in Requests, FrameInv, OutAt(q), StreamAt(q),
         Read(q)
  PROVE  StreamAt(q)'
<1> SUFFICES ASSUME client[q] = "here", ~dropped[q]
             PROVE  StreamAt(q)'
  BY DEF StreamAt, Read
<1> DEFINE h == chan[q][1]
           m == Len(chan[q])
<1>1. /\ m \in Nat /\ m > 0 /\ Len(chan'[q]) = m - 1
      /\ \A i \in 1..Len(chan'[q]) : /\ chan'[q][i] = chan[q][i + 1]
                                     /\ i + 1 \in 1..m
      /\ \A i \in 1..m : /\ chan[q][i].from \in 1..MaxDeliver
                         /\ chan[q][i].seq \in Nat
      /\ 1 \in 1..m /\ h.seq \in Nat
      /\ UNCHANGED seq
      /\ \A d \in 1..MaxDeliver : seq[<<q, d>>] \in Nat
  BY StreamTypes DEF Read
<1>2. /\ \A i \in 1..m : FollowsAt(q, i)
      /\ \A i, j \in 1..m : DistinctAt(q, i, j)
      /\ \A d \in 1..MaxDeliver : SentAt(q, d)
  BY DEF StreamAt, Read, Open
<1>3. /\ h.seq = Expected(q, h.from)
      /\ \A d \in 1..MaxDeliver :
            Expected(q, d)' = IF d = h.from THEN h.seq + 1 ELSE Expected(q, d)
  BY ReadExpected
<1>4. h.seq < seq[<<q, h.from>>]
  BY <1>1 DEF FrameInv, FrameAt
<1> HIDE DEF m
\* What held of a position before holds of the one it moves to.
<1>5. ASSUME NEW d \in 1..MaxDeliver, NEW k \in 1..m, NEW s \in Nat,
             s # h.seq \/ d # h.from,
             Follows(q, d, s, k)
      PROVE  Follows(q, d, s, k - 1)'
  <2>1. CASE s = Expected(q, d)
    BY <1>3, <1>5, <2>1 DEF Follows
  <2>2. ASSUME NEW j \in 1..k, chan[q][j].from = d, chan[q][j].seq = s - 1
        PROVE  Follows(q, d, s, k - 1)'
    <3>1. CASE j = 1
      <4>1. d = h.from /\ s = h.seq + 1
        BY <1>1, <2>2, <3>1
      <4>2. s = Expected(q, d)'
        BY <1>3, <4>1
      <4>3. QED
        BY <4>2 DEF Follows
    <3>2. CASE j # 1
      <4>1. j - 1 \in 1..(k - 1) /\ j - 1 \in 1..(m - 1) /\ (j - 1) + 1 = j
        BY <1>1, <3>2
      <4>2. chan'[q][j - 1] = chan[q][j]
        BY <1>1, <4>1
      <4>3. QED
        BY <2>2, <4>1, <4>2 DEF Follows
    <3>3. QED
      BY <3>1, <3>2
  <2>3. QED
    BY <1>5, <2>1, <2>2 DEF Follows
<1>6. ASSUME NEW i \in 1..Len(chan'[q])
      PROVE  FollowsAt(q, i)'
  <2>1. /\ i + 1 \in 1..m /\ i \in 1..m /\ i + 1 # 1 /\ (i + 1) - 1 = i
        /\ chan'[q][i] = chan[q][i + 1]
    BY <1>1
  <2>2. PICK d \in 1..MaxDeliver, n \in Nat :
          d = chan[q][i + 1].from /\ n = chan[q][i + 1].seq
    BY <1>1, <2>1
  <2>3. n # h.seq \/ d # h.from
    BY <1>1, <1>2, <2>1, <2>2 DEF DistinctAt
  <2>4. Follows(q, d, n, i)
    BY <1>2, <2>1, <2>2 DEF FollowsAt
  <2>5. Follows(q, d, n, i - 1)'
    BY <1>5, <2>1, <2>3, <2>4
  <2>6. QED
    BY <2>1, <2>2, <2>5 DEF FollowsAt, Follows
<1>7. ASSUME NEW i \in 1..Len(chan'[q]), NEW j \in 1..Len(chan'[q])
      PROVE  DistinctAt(q, i, j)'
  <2>1. DistinctAt(q, i + 1, j + 1) /\ (i # j => i + 1 # j + 1)
    BY <1>1, <1>2
  <2>2. QED
    BY <1>1, <2>1 DEF DistinctAt
<1>8. ASSUME NEW d \in 1..MaxDeliver
      PROVE  SentAt(q, d)'
  <2>1. PICK n \in Nat : n = seq[<<q, d>>]
    BY <1>1
  <2>2. n # h.seq \/ d # h.from
    BY <1>1, <1>4, <2>1
  <2>3. PICK k \in 1..m : k = m
    BY <1>1
  <2>4. Follows(q, d, n, k)
    BY <1>2, <2>1, <2>3 DEF SentAt, m
  <2>5. Follows(q, d, n, k - 1)'
    BY <1>5, <2>2, <2>4
  <2>6. k - 1 = Len(chan'[q])
    BY <1>1, <2>3
  <2>7. QED
    BY <1>1, <2>1, <2>5, <2>6 DEF SentAt, Follows
<1>9. QED
  BY <1>6, <1>7, <1>8 DEF StreamAt

LEMMA SentStream ==
  ASSUME IInv, NEW q \in Requests, FrameInv, OutAt(q), StreamAt(q),
         NEW d \in 1..MaxDeliver, Sent(q, d)
  PROVE  StreamAt(q)'
<1> SUFFICES ASSUME gw[q] \in Open, client[q] = "here", ~dropped'[q]
             PROVE  StreamAt(q)'
  BY DEF StreamAt, Sent
<1>1. ~dropped[q] /\ gw[q] = "reading"
  BY RunningDelivered, StreamTypes DEF Sent, Open, IInv
<1> DEFINE m == Len(chan[q])
           new == chan'[q][m + 1]
<1>2. /\ Len(chan'[q]) = m + 1
      /\ \A i \in 1..m : chan'[q][i] = chan[q][i]
      /\ new.from = d /\ new.seq = seq[<<q, d>>]
      /\ seq'[<<q, d>>] = seq[<<q, d>>] + 1
      /\ \A e \in 1..MaxDeliver : e # d => seq'[<<q, e>>] = seq[<<q, e>>]
      /\ UNCHANGED <<out, next>>
  BY <1>1 DEF Sent
<1>3. /\ m \in Nat
      /\ \A e \in 1..MaxDeliver : seq[<<q, e>>] \in Nat
      /\ \A i \in 1..m : chan[q][i].from \in 1..MaxDeliver
  BY StreamTypes DEF IInv
<1>4. /\ \A i \in 1..m : FollowsAt(q, i)
      /\ \A i, j \in 1..m : DistinctAt(q, i, j)
      /\ \A e \in 1..MaxDeliver : SentAt(q, e)
  BY <1>1 DEF StreamAt, Open
<1>5. \A i \in 1..m : chan[q][i].from = d => chan[q][i].seq < seq[<<q, d>>]
  BY DEF FrameInv, FrameAt
<1>6. \A e : Expected(q, e)' = Expected(q, e)
  BY <1>2 DEF Expected
<1>7. ASSUME NEW e \in 1..MaxDeliver, NEW n, NEW k \in 0..m,
             NEW l \in 0..(m + 1), k <= l,
             Follows(q, e, n, k)
      PROVE  Follows(q, e, n, l)'
  <2>1. CASE n = Expected(q, e)
    BY <1>6, <2>1 DEF Follows
  <2>2. ASSUME NEW j \in 1..k, chan[q][j].from = e, chan[q][j].seq = n - 1
        PROVE  Follows(q, e, n, l)'
    <3>1. j \in 1..m /\ j \in 1..l
      BY <1>3, <1>7
    <3>2. chan'[q][j] = chan[q][j]
      BY <1>2, <3>1
    <3>3. QED
      BY <2>2, <3>1, <3>2 DEF Follows
  <2>3. QED
    BY <1>7, <2>1, <2>2 DEF Follows
<1> HIDE DEF m
<1>8. ASSUME NEW i \in 1..Len(chan'[q])
      PROVE  FollowsAt(q, i)'
  <2>1. CASE i \in 1..m
    <3>1. PICK e \in 1..MaxDeliver :
            \E n : e = chan[q][i].from /\ n = chan[q][i].seq
      BY <1>3, <2>1
    <3> PICK n : e = chan[q][i].from /\ n = chan[q][i].seq
      BY <3>1
    <3>2. Follows(q, e, n, i - 1) /\ i - 1 \in 0..m
      BY <1>3, <1>4, <2>1 DEF FollowsAt
    <3>3. Follows(q, e, n, i - 1)'
      <4>1. i - 1 \in 0..(m + 1) /\ i - 1 <= i - 1
        BY <1>3, <3>2
      <4>2. QED
        BY <1>7, <3>2, <4>1
    <3>4. QED
      BY <1>2, <2>1, <3>3 DEF FollowsAt, Follows
  <2>2. CASE i = m + 1
    <3>1. PICK n \in Nat, k \in 0..m : n = seq[<<q, d>>] /\ k = m
      BY <1>3
    <3>2. Follows(q, d, n, k)
      BY <1>4, <3>1 DEF SentAt, m
    <3>3. Follows(q, d, n, k)'
      <4>1. k \in 0..(m + 1) /\ k <= k
        BY <1>3, <3>1
      <4>2. QED
        BY <1>7, <3>2, <4>1
    <3>4. k = i - 1
      BY <1>3, <2>2, <3>1
    <3>5. QED
      BY <1>2, <2>2, <3>1, <3>3, <3>4 DEF FollowsAt, Follows
  <2>3. QED
    BY <1>2, <1>3, <2>1, <2>2
<1>9. ASSUME NEW i \in 1..Len(chan'[q]), NEW j \in 1..Len(chan'[q])
      PROVE  DistinctAt(q, i, j)'
  <2>1. CASE i \in 1..m /\ j \in 1..m
    BY <1>2, <1>4, <2>1 DEF DistinctAt
  <2>2. CASE i \in 1..m /\ j = m + 1
    <3>1. chan'[q][i].from = d => chan'[q][i].seq < seq[<<q, d>>]
      BY <1>2, <1>5, <2>2 DEF m
    <3>2. QED
      BY <1>2, <1>3, <2>2, <3>1 DEF DistinctAt
  <2>3. CASE i = m + 1 /\ j \in 1..m
    <3>1. chan'[q][j].from = d => chan'[q][j].seq < seq[<<q, d>>]
      BY <1>2, <1>5, <2>3 DEF m
    <3>2. QED
      BY <1>2, <1>3, <2>3, <3>1 DEF DistinctAt
  <2>4. QED
    BY <1>2, <1>3, <2>1, <2>2, <2>3 DEF DistinctAt
<1>10. ASSUME NEW e \in 1..MaxDeliver
       PROVE  SentAt(q, e)'
  <2>1. CASE e = d
    <3>1. m + 1 \in 1..(m + 1) /\ chan'[q][m + 1].seq = seq'[<<q, d>>] - 1
      BY <1>2, <1>3
    <3>2. QED
      BY <1>2, <2>1, <3>1 DEF SentAt, Follows
  <2>2. CASE e # d
    <3>1. PICK n \in Nat, k \in 0..m : n = seq[<<q, e>>] /\ k = m
      BY <1>3
    <3>2. Follows(q, e, n, k)
      BY <1>4, <3>1 DEF SentAt, m
    <3>3. PICK l \in 0..(m + 1) : l = m + 1 /\ k <= l
      BY <1>3, <3>1
    <3>4. Follows(q, e, n, l)'
      BY <1>7, <3>2, <3>3
    <3>5. l = Len(chan'[q]) /\ n = seq'[<<q, e>>]
      BY <1>2, <2>2, <3>1, <3>3
    <3>6. QED
      BY <3>4, <3>5 DEF SentAt, Follows
  <2>3. QED
    BY <2>1, <2>2
<1>11. QED
  BY <1>8, <1>9, <1>10 DEF StreamAt

LEMMA StreamStep ==
  ASSUME IInv, FrameInv, OutInv, StreamInv, [Next]_vars
  PROVE  StreamInv'
<1> SUFFICES ASSUME NEW q \in Requests
             PROVE  StreamAt(q)'
  BY DEF StreamInv
<1>1. OutAt(q) /\ StreamAt(q) /\ TypeOK /\ TypeOK'
  BY TypeStep DEF OutInv, StreamInv, IInv
<1>2. CASE Still(q)
  <2> SUFFICES ASSUME gw'[q] \in Open, client'[q] = "here", ~dropped'[q]
               PROVE  StreamAt(q)'
    BY DEF StreamAt
  <2>1. /\ UNCHANGED <<out[q], next[q], chan[q]>>
        /\ \A d \in 1..MaxDeliver : seq'[<<q, d>>] = seq[<<q, d>>]
        /\ \A i \in 1..Len(chan[q]) : FollowsAt(q, i)
        /\ \A i, j \in 1..Len(chan[q]) : DistinctAt(q, i, j)
        /\ \A d \in 1..MaxDeliver : SentAt(q, d)
    BY <1>1, <1>2 DEF Still, StreamAt
  <2>2. QED
    BY <2>1 DEF StreamAt, FollowsAt, DistinctAt, SentAt, Follows, Expected
<1>3. CASE Read(q)
  BY <1>1, <1>3, ReadStream
<1>4. CASE Answered(q)
  BY <1>4 DEF Answered, StreamAt, Open
<1>5. ASSUME NEW d \in 1..MaxDeliver, Sent(q, d)
      PROVE  StreamAt(q)'
  BY <1>1, <1>5, SentStream
<1>6. QED
  BY <1>2, <1>3, <1>4, <1>5, StepKinds

-----------------------------------------------------------------------------
(***************************************************************************)
(* The attempt that answered.                                              *)
(***************************************************************************)

\* What is known of attempt d once its done frame was read.
AnsweredBy(r, d) ==
    /\ d <= deliveries[r]
    /\ DoneBy(r, d, Len(out[r]))
    /\ ~dropped[r] \/ deliveries[r] = 1 =>
          \A i \in 1..Len(out[r]) : out[r][i][1] = d

LEMMA AnswerStep ==
  ASSUME IInv, FrameInv, OutInv, StreamInv, AnswerInv, [Next]_vars
  PROVE  AnswerInv'
<1> SUFFICES ASSUME NEW q \in Requests, end'[q] = "done", client'[q] = "here"
             PROVE  /\ gw'[q] = "closed"
                    /\ \E d \in 1..MaxDeliver : AnsweredBy(q, d)'
  BY DEF AnswerInv, AnswerAt, AnsweredBy
<1>1. TypeOK /\ TypeOK' /\ OutAt(q) /\ StreamAt(q)
  BY TypeStep DEF IInv, OutInv, StreamInv
<1>2. /\ deliveries[q] \in Nat /\ deliveries'[q] \in Nat
      /\ dropped[q] \in BOOLEAN /\ dropped'[q] \in BOOLEAN
  BY <1>1, StreamTypes, RequestPathAssumption
  DEF TypeOK, QueueTypeOK, ListenerTypeOK
<1>3. ASSUME end[q] = "done", client[q] = "here"
      PROVE  gw[q] = "closed" /\ \E d \in 1..MaxDeliver : AnsweredBy(q, d)
  BY <1>3 DEF AnswerInv, AnswerAt, AnsweredBy
<1>4. CASE Still(q)
  <2>1. PICK d \in 1..MaxDeliver : AnsweredBy(q, d)
    BY <1>3, <1>4 DEF Still
  <2>2. gw'[q] = "closed"
    BY <1>3, <1>4 DEF Still
  <2>3. /\ UNCHANGED <<out[q], dropped[q]>>
        /\ deliveries'[q] >= deliveries[q]
        /\ DoneBy(q, d, Len(out[q]))'
    BY <1>4, <2>1 DEF Still, AnsweredBy, DoneBy
  <2>4. d <= deliveries'[q] /\ (deliveries'[q] = 1 => deliveries[q] = 1)
    BY <1>2, <2>1, <2>3, RequestPathAssumption DEF AnsweredBy
  <2>5. AnsweredBy(q, d)'
    BY <2>1, <2>3, <2>4 DEF AnsweredBy
  <2>6. QED
    BY <2>2, <2>5
<1>5. CASE Read(q)
  BY <1>3, <1>5 DEF Read
<1>6. CASE Answered(q)
  <2> DEFINE h == chan[q][1]
             n == Len(out[q])
  <2>1. /\ gw[q] = "reading" /\ h.seq = next[q] /\ h.kind = "done"
        /\ gw'[q] = "closed" /\ client[q] = "here"
        /\ UNCHANGED <<out, dropped, deliveries, pc, seq, outcome>>
        /\ 1 \in 1..Len(chan[q])
    BY <1>1, <1>6, StreamTypes DEF Answered
  <2>2. PICK d \in 1..MaxDeliver : d = h.from
    BY <1>1, <2>1, StreamTypes
  <2>3. n \in Nat /\ n = next[q]
    BY <1>1, <2>1, StreamTypes DEF OutAt, Open
  <2>4. d <= deliveries[q] /\ DoneBy(q, d, n)
    BY <2>1, <2>2, <2>3 DEF FrameInv, FrameAt
  <2>5. ASSUME NEW i \in 1..n, ~dropped[q]
        PROVE  out[q][i][1] = d
    <3>1. FollowsAt(q, 1)
      BY <1>1, <2>1, <2>5 DEF StreamAt, Open
    <3>2. h.seq = Expected(q, d)
      BY <2>2, <3>1 DEF FollowsAt, Follows
    <3>3. d = out[q][1][1]
      BY <2>1, <2>3, <2>5, <3>2 DEF Expected
    <3>4. QED
      BY <1>1, <2>5, <3>3 DEF OutAt
  <2>6. ASSUME NEW i \in 1..n, deliveries[q] = 1
        PROVE  out[q][i][1] = d
    <3>1. out[q][i][1] \in 1..MaxDeliver /\ out[q][i][1] <= 1
      BY <1>1, <2>6, StreamTypes DEF OutAt
    <3>2. QED
      BY <2>4, <2>6, <3>1, RequestPathAssumption
  <2>7. AnsweredBy(q, d)
    BY <2>4, <2>5, <2>6 DEF AnsweredBy
  <2>8. AnsweredBy(q, d)'
    BY <2>1, <2>7 DEF AnsweredBy, DoneBy
  <2>9. QED
    BY <2>1, <2>8
<1>7. ASSUME NEW e \in 1..MaxDeliver, Sent(q, e)
      PROVE  gw'[q] = "closed" /\ \E d \in 1..MaxDeliver : AnsweredBy(q, d)'
  <2>1. PICK d \in 1..MaxDeliver : AnsweredBy(q, d)
    BY <1>3, <1>7 DEF Sent
  <2>2. d # e
    BY <1>7, <2>1 DEF Sent, AnsweredBy, DoneBy, Past
  <2>3. ~dropped'[q] => ~dropped[q]
    BY <1>7 DEF Sent
  <2>4. AnsweredBy(q, d)'
    BY <1>7, <2>1, <2>2, <2>3 DEF Sent, AnsweredBy, DoneBy
  <2>5. QED
    BY <1>3, <1>7, <2>4 DEF Sent
<1>8. QED
  BY <1>4, <1>5, <1>6, <1>7, StepKinds

-----------------------------------------------------------------------------

ReaderInv == FrameInv /\ OutInv /\ StreamInv /\ AnswerInv

LEMMA ReaderInitInv == Init => ReaderInv
<1> SUFFICES ASSUME Init, NEW r \in Requests
             PROVE  /\ \A i \in 1..Len(chan[r]) : FrameAt(r, i)
                    /\ OutAt(r) /\ StreamAt(r) /\ AnswerAt(r)
  BY DEF ReaderInv, FrameInv, OutInv, StreamInv, AnswerInv
<1>1. /\ chan[r] = <<>> /\ out[r] = <<>> /\ next[r] = 0
      /\ Len(chan[r]) = 0 /\ Len(out[r]) = 0
      /\ end[r] = "none"
      /\ \A d \in 1..MaxDeliver : seq[<<r, d>>] = 0
  BY EmptySeq DEF Init, Attempts
<1>2. \A d : Expected(r, d) = 0
  BY <1>1 DEF Expected
<1>3. QED
  BY <1>1, <1>2 DEF OutAt, StreamAt, AnswerAt, SentAt, Follows

LEMMA ReaderInvariance == Spec => [](IInv /\ ReaderInv)
<1>1. Init => IInv /\ ReaderInv
  BY InitInv, ReaderInitInv
<1>2. (IInv /\ ReaderInv) /\ [Next]_vars => (IInv /\ ReaderInv)'
  BY NextInv, FrameStep, OutStep, StreamStep, AnswerStep DEF ReaderInv
<1>3. QED
  BY <1>1, <1>2, PTL DEF Spec

\* What a client has received is, while no frame was dropped, the first chunks
\* of one attempt: Listener.Next's comparison of sequence numbers is enough to
\* keep the frames of a redelivery out of a stream that has begun.
THEOREM StreamNeverSpliced == Spec => []StreamFromOneAttempt
<1>1. ASSUME IInv, ReaderInv, NEW r \in Requests, ~dropped[r],
             NEW i \in DOMAIN out[r]
      PROVE  out[r][i] = <<out[r][1][1], i - 1>>
  <2>1. DOMAIN out[r] = 1..Len(out[r])
    BY LenProperties DEF IInv, TypeOK, GatewayTypeOK
  <2>2. out[r][i] \in (1..MaxDeliver) \X Nat
    BY <1>1, <2>1, StreamTypes DEF IInv
  <2>3. out[r][i][1] = out[r][1][1] /\ out[r][i][2] = i - 1
    BY <1>1, <2>1 DEF ReaderInv, OutInv, OutAt
  <2>4. QED
    BY <2>2, <2>3
<1>2. IInv /\ ReaderInv => StreamFromOneAttempt
  BY <1>1 DEF StreamFromOneAttempt
<1>3. QED
  BY <1>2, ReaderInvariance, PTL

\* A client that reads [DONE] has every chunk of the attempt that sent it:
\* a lost frame always shows as a gap before the done frame is reached.
THEOREM DoneMeansComplete == Spec => []CompleteWhenDone
<1>1. ASSUME IInv, ReaderInv, NEW r \in Requests,
             end[r] = "done", client[r] = "here",
             ~dropped[r] \/ deliveries[r] = 1
      PROVE  \E d \in 1..MaxDeliver :
                /\ outcome[<<r, d>>] = "ok"
                /\ out[r] = [i \in 1..(seq[<<r, d>>] - 1) |-> <<d, i - 1>>]
  <2>1. PICK d \in 1..MaxDeliver : AnsweredBy(r, d)
    BY <1>1 DEF ReaderInv, AnswerInv, AnswerAt, AnsweredBy
  <2>2. /\ Len(out[r]) \in Nat
        /\ \A i \in 1..Len(out[r]) : out[r][i] \in (1..MaxDeliver) \X Nat
        /\ seq[<<r, d>>] = Len(out[r]) + 1
    BY <1>1, <2>1, StreamTypes DEF IInv, AnsweredBy, DoneBy
  <2>3. seq[<<r, d>>] - 1 = Len(out[r])
    BY <2>2
  <2>4. out[r] \in [1..Len(out[r]) -> (1..MaxDeliver) \X Nat]
    BY <1>1, LenProperties DEF IInv, TypeOK, GatewayTypeOK
  <2>5. \A i \in 1..Len(out[r]) : out[r][i] = <<d, i - 1>>
    <3>1. \A i \in 1..Len(out[r]) : out[r][i][1] = d /\ out[r][i][2] = i - 1
      BY <1>1, <2>1 DEF AnsweredBy, ReaderInv, OutInv, OutAt
    <3>2. QED
      BY <2>2, <3>1
  <2>6. out[r] = [i \in 1..Len(out[r]) |-> <<d, i - 1>>]
    BY <2>4, <2>5
  <2>7. QED
    BY <2>1, <2>3, <2>6 DEF AnsweredBy, DoneBy
<1>2. IInv /\ ReaderInv => CompleteWhenDone
  BY <1>1 DEF CompleteWhenDone
<1>3. QED
  BY <1>2, ReaderInvariance, PTL

=============================================================================
