----------------------------- MODULE RequestPath -----------------------------
(***************************************************************************)
(* The inference request path of inferbus, for one model: the gateway      *)
(* handler of each request (internal/gateway/gateway.go), the response     *)
(* listener (internal/relay/relay.go), the INFERENCE work queue with its   *)
(* durable consumer, and the workers' handlers (internal/worker/           *)
(* worker.go).                                                             *)
(*                                                                         *)
(* A request is delivered up to MaxDeliver times; the pair <<r, d>> names  *)
(* the handler goroutine of the d-th delivery of request r ("attempt").    *)
(* Requests on different models share nothing, so one model is enough.     *)
(***************************************************************************)
EXTENDS Naturals, Sequences, FiniteSets

CONSTANTS
    Requests,     \* the client requests
    Streaming,    \* those sent with "stream": true
    Workers,      \* the worker processes that serve the model
    NoWorker,     \* no worker
    MaxDeliver,   \* MaxDeliver of the consumer (2 in production)
    MaxInflight,  \* MaxAckPending of the consumer (max_inflight)
    ChanCap,      \* frames the listener's channel holds (256 in production)
    MaxChunks,    \* bound: chunks an engine emits in one attempt
    Faults        \* what the environment of this instance may do

ASSUME RequestPathAssumption ==
    /\ Streaming \subseteq Requests
    /\ NoWorker \notin Workers
    /\ MaxDeliver \in Nat \ {0}
    /\ MaxInflight \in Nat \ {0}
    /\ ChanCap \in Nat \ {0}
    /\ MaxChunks \in Nat
    /\ Faults \subseteq {"crash",      \* a worker process dies
                         "shutdown",   \* a worker is stopped by a signal
                         "stall",      \* a live attempt's heartbeats are lost
                         "ack",        \* an ack does not reach the queue
                         "hangup",     \* a client goes away
                         "publish",    \* the publish to INFERENCE fails
                         "transport"}  \* DeleteMsg, the cancel or its
                                       \* subscription, or the usage publish
                                       \* fails

VARIABLES
    gw,          \* where the handler of a request is
    client,      \* whether its client is still connected
    expired,     \* whether its deadline has passed
    out,         \* the chunks written to the client
    cut,         \* why the read loop was left before a terminal frame
    end,         \* how the response ended
    chan,        \* the frames in the listener's channel
    next,        \* the sequence number the listener expects
    dropped,     \* whether a frame met a full channel
    msg,         \* the request's message in the work queue
    deliveries,  \* how often the queue delivered it
    stalled,     \* whether it was redelivered over a live attempt
    lost,        \* the attempts whose ack did not reach the queue
    pc,          \* where an attempt's handler is
    on,          \* the worker it runs on, while it runs
    seq,         \* frames it has published
    cause,       \* context.Cause of its context
    outcome,     \* the status it will meter
    bill,        \* the status of the usage event it published
    wk           \* the state of a worker process

gatewayVars  == <<gw, client, expired, out, cut, end>>
listenerVars == <<chan, next, dropped>>
queueVars    == <<msg, deliveries, stalled, lost>>
attemptVars  == <<pc, on, seq, cause, outcome, bill>>
vars == <<gatewayVars, listenerVars, queueVars, attemptVars, wk>>

Attempts == Requests \X (1..MaxDeliver)

Frame == [kind : {"chunk", "done", "result", "error"},
          seq  : Nat,
          from : 1..MaxDeliver]

Live    == {"buffered", "running", "replied", "acked"}
InQueue == {"queued", "pending"}

GatewayTypeOK ==
    /\ gw \in [Requests -> {"idle", "listening", "reading", "cancel",
                            "delete", "closed"}]
    /\ client \in [Requests -> {"here", "gone"}]
    /\ expired \in [Requests -> BOOLEAN]
    /\ out \in [Requests -> Seq((1..MaxDeliver) \X Nat)]
    /\ cut \in [Requests -> {"none", "gap", "deadline", "hangup"}]
    /\ end \in [Requests -> {"none", "refused", "done", "result", "error",
                             "timeout", "silent", "hangup"}]

ListenerTypeOK ==
    /\ chan \in [Requests -> Seq(Frame)]
    /\ next \in [Requests -> Nat]
    /\ dropped \in [Requests -> BOOLEAN]

QueueTypeOK ==
    /\ msg \in [Requests -> InQueue \cup {"none", "acked", "removed",
                                          "exhausted"}]
    /\ deliveries \in [Requests -> 0..MaxDeliver]
    /\ stalled \in [Requests -> BOOLEAN]
    /\ lost \subseteq Attempts

AttemptTypeOK ==
    /\ pc \in [Attempts -> Live \cup {"none", "finished", "dropped", "dead"}]
    /\ on \in [Attempts -> Workers \cup {NoWorker}]
    /\ seq \in [Attempts -> Nat]
    /\ cause \in [Attempts -> {"none", "client", "deadline", "shutdown"}]
    /\ outcome \in [Attempts -> {"none", "ok", "error", "canceled"}]
    /\ bill \in [Attempts -> {"none", "ok", "error", "canceled"}]

TypeOK ==
    /\ GatewayTypeOK /\ ListenerTypeOK /\ QueueTypeOK /\ AttemptTypeOK
    /\ wk \in [Workers -> {"up", "draining", "stopped"}]

Init ==
    /\ gw = [r \in Requests |-> "idle"]
    /\ client = [r \in Requests |-> "here"]
    /\ expired = [r \in Requests |-> FALSE]
    /\ out = [r \in Requests |-> <<>>]
    /\ cut = [r \in Requests |-> "none"]
    /\ end = [r \in Requests |-> "none"]
    /\ chan = [r \in Requests |-> <<>>]
    /\ next = [r \in Requests |-> 0]
    /\ dropped = [r \in Requests |-> FALSE]
    /\ msg = [r \in Requests |-> "none"]
    /\ deliveries = [r \in Requests |-> 0]
    /\ stalled = [r \in Requests |-> FALSE]
    /\ lost = {}
    /\ pc = [a \in Attempts |-> "none"]
    /\ on = [a \in Attempts |-> NoWorker]
    /\ seq = [a \in Attempts |-> 0]
    /\ cause = [a \in Attempts |-> "none"]
    /\ outcome = [a \in Attempts |-> "none"]
    /\ bill = [a \in Attempts |-> "none"]
    /\ wk = [w \in Workers |-> "up"]

-----------------------------------------------------------------------------
(***************************************************************************)
(* The client and the clock.  Gateway and worker compare the same absolute *)
(* deadline with their own clocks; the clocks are taken to agree.          *)
(***************************************************************************)

ClientHangup(r) ==
    /\ "hangup" \in Faults
    /\ gw[r] \notin {"idle", "closed"}
    /\ client[r] = "here"
    /\ client' = [client EXCEPT ![r] = "gone"]
    /\ UNCHANGED <<gw, expired, out, cut, end, listenerVars, queueVars,
                   attemptVars, wk>>

Expire(r) ==
    /\ gw[r] # "idle"
    /\ ~expired[r]
    /\ expired' = [expired EXCEPT ![r] = TRUE]
    /\ UNCHANGED <<gw, client, out, cut, end, listenerVars, queueVars,
                   attemptVars, wk>>

-----------------------------------------------------------------------------
(***************************************************************************)
(* The gateway handler: subscribe, publish, relay frames, clean up.        *)
(***************************************************************************)

\* dispatch computes the deadline and subscribes before it publishes.
Listen(r) ==
    /\ gw[r] = "idle"
    /\ gw' = [gw EXCEPT ![r] = "listening"]
    /\ UNCHANGED <<client, expired, out, cut, end, listenerVars, queueVars,
                   attemptVars, wk>>

Publish(r) ==
    /\ gw[r] = "listening"
    /\ gw' = [gw EXCEPT ![r] = "reading"]
    /\ msg' = [msg EXCEPT ![r] = "queued"]
    /\ UNCHANGED <<client, expired, out, cut, end, listenerVars, deliveries,
                   stalled, lost, attemptVars, wk>>

\* The publish fails, or its context dies with the client before the stream's
\* ack arrives.  The message may have been stored all the same; the handler
\* answers 503 and does not clean up.
PublishFails(r) ==
    /\ gw[r] = "listening"
    /\ "publish" \in Faults \/ client[r] = "gone"
    /\ \E stored \in BOOLEAN :
          msg' = [msg EXCEPT ![r] = IF stored THEN "queued" ELSE @]
    /\ gw' = [gw EXCEPT ![r] = "closed"]
    /\ end' = [end EXCEPT ![r] = "refused"]
    /\ UNCHANGED <<client, expired, out, cut, listenerVars, deliveries,
                   stalled, lost, attemptVars, wk>>

\* Mutant: the listener does not compare sequence numbers.
InOrderUnchecked(r) == TRUE

\* What the listener makes of the oldest frame in its channel.
InOrder(r) == Head(chan[r]).seq = next[r]

Readable(r) == gw[r] = "reading" /\ chan[r] # <<>>

\* A chunk in order: written to the client, if it is still there.
ReadChunk(r) ==
    /\ Readable(r)
    /\ InOrder(r)
    /\ Head(chan[r]).kind = "chunk"
    /\ chan' = [chan EXCEPT ![r] = Tail(@)]
    /\ next' = [next EXCEPT ![r] = @ + 1]
    /\ out' = IF client[r] = "here"
              THEN [out EXCEPT ![r] =
                      Append(@, <<Head(chan[r]).from, Head(chan[r]).seq>>)]
              ELSE out
    /\ UNCHANGED <<gw, client, expired, cut, end, dropped, queueVars,
                   attemptVars, wk>>

\* A done, result or error frame in order: the handler answers and returns.
ReadTerminal(r) ==
    /\ Readable(r)
    /\ InOrder(r)
    /\ Head(chan[r]).kind # "chunk"
    /\ chan' = [chan EXCEPT ![r] = <<>>]
    /\ next' = [next EXCEPT ![r] = @ + 1]
    /\ gw' = [gw EXCEPT ![r] = "closed"]
    /\ end' = [end EXCEPT ![r] = Head(chan[r]).kind]
    /\ UNCHANGED <<client, expired, out, cut, dropped, queueVars,
                   attemptVars, wk>>

\* Leaving the read loop with an error that no worker reported: nothing is
\* read from the channel any more, so its content is forgotten here.
StopReading(r, why) ==
    /\ chan' = [chan EXCEPT ![r] = <<>>]
    /\ cut' = [cut EXCEPT ![r] = why]
    /\ gw' = [gw EXCEPT ![r] = "cancel"]
    /\ UNCHANGED <<client, expired, out, end, next, dropped, queueVars,
                   attemptVars, wk>>

ReadGap(r) ==
    /\ Readable(r)
    /\ ~InOrder(r)
    /\ StopReading(r, "gap")

\* Mutant: the read context carries no deadline.
ReadTimesOutNever(r) == FALSE

\* Next's select may pick ctx.Done even when a frame is ready.
ReadTimesOut(r) ==
    /\ gw[r] = "reading"
    /\ expired[r]
    /\ StopReading(r, "deadline")

ReadCanceled(r) ==
    /\ gw[r] = "reading"
    /\ client[r] = "gone"
    /\ StopReading(r, "hangup")

\* cleanupDisconnected, first call: core NATS, so only the attempts that have
\* subscribed to the cancel subject hear it; both the subscription and the
\* publish may fail, and neither side looks.  A context's first cause wins.
Cancel(r) ==
    /\ gw[r] = "cancel"
    /\ LET subscribed == {a \in Attempts : a[1] = r /\ pc[a] = "running"}
       IN  \E told \in SUBSET subscribed :
              /\ told = subscribed \/ "transport" \in Faults
              /\ cause' = [a \in Attempts |->
                             IF a \in told /\ cause[a] = "none"
                             THEN "client" ELSE cause[a]]
    /\ gw' = [gw EXCEPT ![r] = "delete"]
    /\ UNCHANGED <<client, expired, out, cut, end, listenerVars, queueVars,
                   pc, on, seq, outcome, bill, wk>>

\* cleanupDisconnected, second call, and the status written after it: a 504
\* only when the client is there and no header has been sent.  Deleting a
\* message that is no longer stored is not an error; a failed call is ignored.
DeleteQueued(r) ==
    /\ gw[r] = "delete"
    /\ \/ msg' = [msg EXCEPT ![r] = IF @ \in InQueue \cup {"exhausted"}
                                    THEN "removed" ELSE @]
       \/ "transport" \in Faults /\ UNCHANGED msg
    /\ gw' = [gw EXCEPT ![r] = "closed"]
    /\ end' = [end EXCEPT ![r] = IF client[r] = "gone" THEN "hangup"
                                 ELSE IF next[r] > 0 THEN "silent"
                                 ELSE "timeout"]
    /\ UNCHANGED <<client, expired, out, cut, listenerVars, deliveries,
                   stalled, lost, attemptVars, wk>>

-----------------------------------------------------------------------------
(***************************************************************************)
(* The INFERENCE stream and its consumer (JetStream): external, modelled   *)
(* from the configuration that wire/streams.go and worker.go give them.    *)
(***************************************************************************)

Pending == {r \in Requests : msg[r] = "pending"}

\* The queue hands a message to a worker's client library.
Deliver(r, w) ==
    /\ msg[r] = "queued"
    /\ Cardinality(Pending) < MaxInflight
    /\ wk[w] \in {"up", "draining"}
    /\ msg' = [msg EXCEPT ![r] = "pending"]
    /\ deliveries' = [deliveries EXCEPT ![r] = @ + 1]
    /\ pc' = [pc EXCEPT ![<<r, deliveries[r] + 1>>] = "buffered"]
    /\ on' = [on EXCEPT ![<<r, deliveries[r] + 1>>] = w]
    /\ UNCHANGED <<stalled, lost, gatewayVars, listenerVars, seq, cause,
                   outcome, bill, wk>>

\* Mutant: one delivery too many.
AckTimeoutOffByOne(r) ==
    /\ msg[r] = "pending"
    /\ pc[<<r, deliveries[r]>>] \notin Live
    /\ msg' = [msg EXCEPT ![r] = IF deliveries[r] <= MaxDeliver
                                 THEN "queued" ELSE "exhausted"]
    /\ UNCHANGED <<deliveries, stalled, lost, gatewayVars, listenerVars,
                   attemptVars, wk>>

\* AckWait runs out: the attempt is gone, or its ack is lost (it sends no more
\* heartbeats then) or, under "stall", its heartbeats did not get through.
\* After MaxDeliver deliveries the message stays stored.
AckTimeout(r) ==
    /\ msg[r] = "pending"
    /\ LET a    == <<r, deliveries[r]>>
           live == pc[a] \in Live /\ a \notin lost
       IN  /\ live => "stall" \in Faults
           /\ stalled' = [stalled EXCEPT ![r] = @ \/ live]
    /\ msg' = [msg EXCEPT ![r] = IF deliveries[r] < MaxDeliver
                                 THEN "queued" ELSE "exhausted"]
    /\ UNCHANGED <<deliveries, lost, gatewayVars, listenerVars, attemptVars,
                   wk>>

\* MaxAge (30 minutes) reaps what is still stored long after its deadline.
AgeOut(r) ==
    /\ expired[r]
    /\ msg[r] \in InQueue \cup {"exhausted"}
    /\ msg' = [msg EXCEPT ![r] = "removed"]
    /\ UNCHANGED <<deliveries, stalled, lost, gatewayVars, listenerVars,
                   attemptVars, wk>>

-----------------------------------------------------------------------------
(***************************************************************************)
(* The worker: one handler goroutine per delivered message.                *)
(***************************************************************************)

\* publish: the frame reaches the listener while it is subscribed, unless its
\* channel is full.  Frames of a request nobody reads are lost silently.
Send(r, d, kind) ==
    LET frame == [kind |-> kind, seq |-> seq[<<r, d>>], from |-> d]
        heard == gw[r] \in {"listening", "reading"}
        room  == Len(chan[r]) < ChanCap
    IN  /\ chan' = [chan EXCEPT ![r] = IF heard /\ room
                                       THEN Append(@, frame) ELSE @]
        /\ dropped' = [dropped EXCEPT ![r] = @ \/ (heard /\ ~room)]
        /\ seq' = [seq EXCEPT ![<<r, d>>] = @ + 1]
        /\ UNCHANGED next

\* handle starts: an expired request is settled at once (phase-1 backstop).
DiscardExpired(r, d) ==
    /\ pc[<<r, d>>] = "buffered"
    /\ expired[r]
    /\ pc' = [pc EXCEPT ![<<r, d>>] = "replied"]
    /\ outcome' = [outcome EXCEPT ![<<r, d>>] = "canceled"]
    /\ UNCHANGED <<on, seq, cause, bill, gatewayVars, listenerVars,
                   queueVars, wk>>

\* Mutant: the message is acked when it is picked up.
StartAcksFirst(r, d) ==
    /\ pc[<<r, d>>] = "buffered"
    /\ ~expired[r]
    /\ pc' = [pc EXCEPT ![<<r, d>>] = "running"]
    /\ msg' = [msg EXCEPT ![r] = IF @ \in InQueue THEN "acked" ELSE @]
    /\ UNCHANGED <<on, seq, cause, outcome, bill, deliveries, stalled,
                   lost, gatewayVars, listenerVars, wk>>

\* Otherwise it subscribes to the cancel subject and calls the engine; in a
\* process that is shutting down its context is canceled from the start.
Start(r, d) ==
    /\ pc[<<r, d>>] = "buffered"
    /\ ~expired[r]
    /\ pc' = [pc EXCEPT ![<<r, d>>] = "running"]
    /\ cause' = [cause EXCEPT ![<<r, d>>] = IF wk[on[<<r, d>>]] = "up"
                                        THEN "none" ELSE "shutdown"]
    /\ UNCHANGED <<on, seq, outcome, bill, gatewayVars, listenerVars,
                   queueVars, wk>>

\* Mutant: the deadline header is not applied to the engine's context.
DeadlineFiresNever(r, d) == FALSE

DeadlineFires(r, d) ==
    /\ pc[<<r, d>>] = "running"
    /\ expired[r]
    /\ cause[<<r, d>>] = "none"
    /\ cause' = [cause EXCEPT ![<<r, d>>] = "deadline"]
    /\ UNCHANGED <<pc, on, seq, outcome, bill, gatewayVars, listenerVars,
                   queueVars, wk>>

EmitChunk(r, d) ==
    /\ pc[<<r, d>>] = "running"
    /\ r \in Streaming
    /\ seq[<<r, d>>] < MaxChunks
    /\ Send(r, d, "chunk")
    /\ UNCHANGED <<pc, on, cause, outcome, bill, gatewayVars, queueVars, wk>>

\* The engine succeeds, perhaps although its context is already canceled.
EngineSucceeds(r, d) ==
    /\ pc[<<r, d>>] = "running"
    /\ Send(r, d, IF r \in Streaming THEN "done" ELSE "result")
    /\ pc' = [pc EXCEPT ![<<r, d>>] = "replied"]
    /\ outcome' = [outcome EXCEPT ![<<r, d>>] = "ok"]
    /\ UNCHANGED <<on, cause, bill, gatewayVars, queueVars, wk>>

\* Mutant: a worker's shutdown is not among the terminal outcomes.
EngineCanceledNotByShutdown(r, d) ==
    /\ pc[<<r, d>>] = "running"
    /\ cause[<<r, d>>] \in {"client", "deadline"}
    /\ pc' = [pc EXCEPT ![<<r, d>>] = "replied"]
    /\ outcome' = [outcome EXCEPT ![<<r, d>>] = "canceled"]
    /\ UNCHANGED <<on, seq, cause, bill, gatewayVars, listenerVars,
                   queueVars, wk>>

\* The engine returns an error under a canceled context: no terminal frame.
EngineCanceled(r, d) ==
    /\ pc[<<r, d>>] = "running"
    /\ cause[<<r, d>>] # "none"
    /\ pc' = [pc EXCEPT ![<<r, d>>] = "replied"]
    /\ outcome' = [outcome EXCEPT ![<<r, d>>] = "canceled"]
    /\ UNCHANGED <<on, seq, cause, bill, gatewayVars, listenerVars,
                   queueVars, wk>>

\* The engine fails on its own, or panics under any context.
EngineFails(r, d) ==
    /\ pc[<<r, d>>] = "running"
    /\ Send(r, d, "error")
    /\ pc' = [pc EXCEPT ![<<r, d>>] = "replied"]
    /\ outcome' = [outcome EXCEPT ![<<r, d>>] = "error"]
    /\ UNCHANGED <<on, cause, bill, gatewayVars, queueVars, wk>>

\* Mutant: errors are left to redelivery instead of being acked.
AckNotOnError(r, d) ==
    /\ pc[<<r, d>>] = "replied"
    /\ pc' = [pc EXCEPT ![<<r, d>>] = "acked"]
    /\ msg' = [msg EXCEPT ![r] =
                 IF @ \in InQueue /\ outcome[<<r, d>>] # "error"
                 THEN "acked" ELSE @]
    /\ UNCHANGED <<on, seq, cause, outcome, bill, deliveries, stalled,
                   lost, gatewayVars, listenerVars, wk>>

\* An ack settles the message whichever attempt it comes from, also while the
\* queue waits to redeliver it.  Nobody waits for it to arrive (the error of
\* msg.Ack is dropped): the handler goes on the same when it is lost.
Ack(r, d) ==
    /\ pc[<<r, d>>] = "replied"
    /\ pc' = [pc EXCEPT ![<<r, d>>] = "acked"]
    /\ \/ /\ msg' = [msg EXCEPT ![r] = IF @ \in InQueue THEN "acked" ELSE @]
          /\ UNCHANGED lost
       \/ /\ "ack" \in Faults
          /\ lost' = lost \cup {<<r, d>>}
          /\ UNCHANGED msg
    /\ UNCHANGED <<on, seq, cause, outcome, bill, deliveries, stalled,
                   gatewayVars, listenerVars, wk>>

\* Mutant: canceled work is not metered.
MeterNotCanceled(r, d) ==
    /\ pc[<<r, d>>] = "acked"
    /\ pc' = [pc EXCEPT ![<<r, d>>] = "finished"]
    /\ on' = [on EXCEPT ![<<r, d>>] = NoWorker]
    /\ cause' = [cause EXCEPT ![<<r, d>>] = "none"]
    /\ bill' = IF outcome[<<r, d>>] = "canceled" THEN bill
               ELSE [bill EXCEPT ![<<r, d>>] = outcome[<<r, d>>]]
    /\ UNCHANGED <<seq, outcome, gatewayVars, listenerVars, queueVars, wk>>

\* meter: a usage event that cannot be published is logged and lost.
Meter(r, d) ==
    /\ pc[<<r, d>>] = "acked"
    /\ pc' = [pc EXCEPT ![<<r, d>>] = "finished"]
    /\ on' = [on EXCEPT ![<<r, d>>] = NoWorker]
    /\ cause' = [cause EXCEPT ![<<r, d>>] = "none"]
    /\ \/ bill' = [bill EXCEPT ![<<r, d>>] = outcome[<<r, d>>]]
       \/ "transport" \in Faults /\ UNCHANGED bill
    /\ UNCHANGED <<seq, outcome, gatewayVars, listenerVars, queueVars, wk>>

LiveOn(w) == {a \in Attempts : on[a] = w}

\* The attempts in A end without having returned.
Lose(A, how) ==
    /\ pc' = [a \in Attempts |-> IF a \in A THEN how ELSE pc[a]]
    /\ on' = [a \in Attempts |-> IF a \in A THEN NoWorker ELSE on[a]]
    /\ cause' = [a \in Attempts |-> IF a \in A THEN "none" ELSE cause[a]]
    /\ UNCHANGED <<seq, outcome, bill>>

\* The process dies with every handler in it and is started again.
Crash(w) ==
    /\ "crash" \in Faults
    /\ LiveOn(w) # {}
    /\ Lose(LiveOn(w), "dead")
    /\ wk' = [wk EXCEPT ![w] = "up"]
    /\ UNCHANGED <<gatewayVars, listenerVars, queueVars>>

\* RunReady's context is canceled, and with it every handler's.
Shutdown(w) ==
    /\ "shutdown" \in Faults
    /\ wk[w] = "up"
    /\ wk' = [wk EXCEPT ![w] = "draining"]
    /\ cause' = [a \in Attempts |->
                   IF a \in LiveOn(w) /\ pc[a] = "running"
                      /\ cause[a] = "none"
                   THEN "shutdown" ELSE cause[a]]
    /\ UNCHANGED <<pc, on, seq, outcome, bill, gatewayVars, listenerVars,
                   queueVars>>

\* cc.Stop and <-cc.Closed: messages the library holds are not handled.
StopConsumer(w) ==
    /\ wk[w] = "draining"
    /\ wk' = [wk EXCEPT ![w] = "stopped"]
    /\ Lose({a \in LiveOn(w) : pc[a] = "buffered"}, "dropped")
    /\ UNCHANGED <<gatewayVars, listenerVars, queueVars>>

\* wg.Wait returns, the process exits and is started again.
Restart(w) ==
    /\ wk[w] = "stopped"
    /\ LiveOn(w) = {}
    /\ wk' = [wk EXCEPT ![w] = "up"]
    /\ UNCHANGED <<gatewayVars, listenerVars, queueVars, attemptVars>>

-----------------------------------------------------------------------------

GatewayStep(r) ==
    \/ Publish(r) \/ PublishFails(r)
    \/ ReadChunk(r) \/ ReadTerminal(r) \/ ReadGap(r)
    \/ ReadTimesOut(r) \/ ReadCanceled(r)
    \/ Cancel(r) \/ DeleteQueued(r)

\* Steps a handler takes unless its process dies.  Engines return once their
\* context is canceled; they need not return by themselves.
HandlerStep(r, d) ==
    \/ DiscardExpired(r, d) \/ Start(r, d) \/ DeadlineFires(r, d)
    \/ EngineCanceled(r, d) \/ Ack(r, d) \/ Meter(r, d)

EngineStep(r, d) ==
    EmitChunk(r, d) \/ EngineSucceeds(r, d) \/ EngineFails(r, d)

Next ==
    \/ \E r \in Requests :
          \/ ClientHangup(r) \/ Expire(r) \/ Listen(r) \/ GatewayStep(r)
          \/ AckTimeout(r) \/ AgeOut(r)
          \/ \E w \in Workers : Deliver(r, w)
          \/ \E d \in 1..MaxDeliver : HandlerStep(r, d) \/ EngineStep(r, d)
    \/ \E w \in Workers :
          Crash(w) \/ Shutdown(w) \/ StopConsumer(w) \/ Restart(w)

Spec == Init /\ [][Next]_vars

(***************************************************************************)
(* Fairness: gateway handlers and worker handlers are goroutines that run; *)
(* time passes; JetStream redelivers, reaps and, as long as a worker keeps *)
(* coming back to pull, delivers (strong fairness: a restarting worker     *)
(* disables Deliver again and again).  Clients, engines that have not been *)
(* canceled, crashes and signals owe nothing.                              *)
(***************************************************************************)
Fairness ==
    /\ \A r \in Requests :
          /\ WF_vars(GatewayStep(r))
          /\ WF_vars(Expire(r))
          /\ WF_vars(AckTimeout(r))
          /\ WF_vars(AgeOut(r))
          /\ SF_vars(\E w \in Workers : Deliver(r, w))
          /\ \A d \in 1..MaxDeliver : WF_vars(HandlerStep(r, d))
    /\ \A w \in Workers : WF_vars(StopConsumer(w)) /\ WF_vars(Restart(w))

FairSpec == Spec /\ Fairness

-----------------------------------------------------------------------------
(***************************************************************************)
(* Safety.                                                                 *)
(***************************************************************************)

\* The chunks a client receives are consecutive chunks, from the first, of one
\* attempt: a redelivered request restarts at sequence number 0 and is never
\* spliced into the stream of the attempt that died (Listener.Next's check),
\* as long as no frame met a full channel.
StreamFromOneAttempt ==
    \A r \in Requests : ~dropped[r] =>
        \A i \in DOMAIN out[r] : out[r][i] = <<out[r][1][1], i - 1>>

\* A client that is still there when it reads [DONE] holds every chunk of the
\* attempt that sent the done frame, even when the channel overflowed, unless
\* an overflow and a redelivery come together.
CompleteWhenDone ==
    \A r \in Requests :
        (end[r] = "done" /\ client[r] = "here"
            /\ (~dropped[r] \/ deliveries[r] = 1)) =>
        \E d \in 1..MaxDeliver :
            /\ outcome[<<r, d>>] = "ok"
            /\ out[r] = [i \in 1..(seq[<<r, d>>] - 1) |-> <<d, i - 1>>]

\* Redelivery happens only over an attempt that died, was dropped unhandled by
\* a stopping consumer, or whose ack was lost, unless a live attempt's
\* heartbeats failed to reach the queue.  (The ack invariant of design.md 7.1
\* names death alone.)
RedeliveryNeedsALoss ==
    \A r \in Requests : ~stalled[r] =>
        \A d \in 1..MaxDeliver : d < deliveries[r] =>
            pc[<<r, d>>] \in {"dead", "dropped"} \/ <<r, d>> \in lost

\* A request that was billed is billed again only if the ack that went before
\* the first bill was lost, or heartbeats were: meter follows the ack, and an
\* ack that arrives ends redelivery.
RebilledOnlyAfterLostAck ==
    \A r \in Requests : ~stalled[r] =>
        \A d, e \in 1..MaxDeliver :
            (d < e /\ bill[<<r, d>>] # "none" /\ bill[<<r, e>>] # "none")
                => <<r, d>> \in lost

\* Work that took its message out of the queue is billed, with its own outcome
\* (meter, called on every path that acks): what gets lost is a usage event
\* that could not be published, or whose process died after the engine.
SettledIsBilled ==
    "transport" \notin Faults =>
        \A r \in Requests : msg[r] = "acked" =>
            \E d \in 1..MaxDeliver :
                /\ outcome[<<r, d>>] # "none"
                /\ \/ pc[<<r, d>>] \in {"acked", "dead"}
                   \/ bill[<<r, d>>] = outcome[<<r, d>>]

\* Engines working on messages that are still stored never outnumber
\* max_inflight: a handler acks only when it is fully done (worker.go's comment
\* on MaxAckPending).
EngineConcurrency ==
    Cardinality({r \in Requests :
                    /\ msg[r] # "removed" /\ ~stalled[r]
                    /\ \E d \in 1..MaxDeliver : pc[<<r, d>>] = "running"})
        <= MaxInflight

\* Once an attempt's ack has reached the queue, whatever the outcome, the
\* request is never handed to a worker again, also when it was being redelivered
\* over that attempt: canceled work does not come back.
SettledNeverRedelivered ==
    [][\A r \in Requests :
          (\E d \in 1..MaxDeliver : /\ pc[<<r, d>>] \in {"acked", "finished"}
                                    /\ <<r, d>> \notin lost)
              => deliveries'[r] = deliveries[r]]_vars

(***************************************************************************)
(* Liveness, under FairSpec.                                               *)
(***************************************************************************)

\* Every handler returns: a result, an error, or the deadline ends it.
EveryHandlerReturns ==
    \A r \in Requests : gw[r] = "listening" ~> gw[r] = "closed"

\* After the handler has returned, whatever races the cleanup lost, the
\* deadline ends the work: from some point on no engine runs for the request.
AbandonedWorkStops ==
    \A r \in Requests : gw[r] = "closed" ~>
        [](msg[r] \notin InQueue
           /\ \A d \in 1..MaxDeliver : pc[<<r, d>>] # "running")

\* A request an engine has worked on is settled and its usage event published
\* (or its publish tried), also when its worker is told to stop in the middle;
\* only a crash prevents it.
StartedIsMetered ==
    \A a \in Attempts : pc[a] = "running" ~> pc[a] \in {"finished", "dead"}

(***************************************************************************)
(* What the repository says and the code does not do.                      *)
(***************************************************************************)

\* relay.go: losing the delete's race with a worker's pickup is fine, the
\* cancel message covers it.  So once cleanup is over, no engine goes on
\* without having been canceled.
CancelCoversPickup ==
    \A r \in Requests, d \in 1..MaxDeliver :
        (gw[r] = "closed" /\ cut[r] = "hangup" /\ pc[<<r, d>>] = "running")
            => cause[<<r, d>>] # "none"

=============================================================================
