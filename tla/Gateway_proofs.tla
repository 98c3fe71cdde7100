---------------------------- MODULE Gateway_proofs ----------------------------
(***************************************************************************)
(* That a watch loop of the gateway cannot stay blind for its bucket, that *)
(* admission decides on no reading older than its cache and a fetch allow, *)
(* that an entry that stays as it is decides every request, and that the   *)
(* state keeps its types: for any deployments, limits, targets and         *)
(* handlers, and any number of edits, destroyed buckets, lost watches and  *)
(* failed readings.                                                        *)
(***************************************************************************)
EXTENDS Gateway, TLAPS, FiniteSetTheorems, SequenceTheorems,
        WellFoundedInduction

\* What a watch loop knows of its bucket's incarnations.
seen == <<made, link, base, on>>

\* The Created a probe compares with is that of the bucket watched, or older:
\* it is read first.  Neither is ahead of the incarnation there is.
Ordered(b) ==
    /\ made[b] \in Nat /\ base[b] \in Nat /\ on[b] \in Nat
    /\ base[b] <= made[b] /\ on[b] <= made[b]
    /\ link[b] \in {"scan", "synced"} => base[b] <= on[b]

SeenInv ==
    /\ made \in [Buckets -> Nat] /\ base \in [Buckets -> Nat]
    /\ on \in [Buckets -> Nat]
    /\ DOMAIN link = Buckets
    /\ \A b \in Buckets : Ordered(b)

\* A loop that moves on without a look at its bucket keeps the order, unless
\* it begins to read.
LEMMA GotoKeepsOrder ==
    ASSUME SeenInv, NEW b \in Buckets, NEW from, NEW to,
           to \in {"scan", "synced"} => from \subseteq {"scan", "synced"},
           Goto(b, from, to), UNCHANGED <<made, base, on>>
    PROVE  SeenInv'
BY DEF SeenInv, Ordered, Goto

\* No step of a handler or of admission concerns a watch loop.
LEMMA RequestsLeaveTables ==
    ASSUME NEW r \in Requests, Handle(r) \/ Served(r)
    PROVE  UNCHANGED <<config, store, watchers>>
BY DEF Handle, Served, Authenticate, Resolve, CheckBudget, Admit,
       BeginFetch, Fetch, StoreReading, Publish

\* The clock does not concern the tables either.
LEMMA TimeLeavesTables ==
    ASSUME Tick
    PROVE  UNCHANGED <<config, store, watchers>>
BY DEF Tick

\* No table is unlearned, and no entry becomes steady.
LEMMA LoopsLearn ==
    ASSUME NEW b \in Buckets,
           \/ Watch(b) \/ Probe(b) \/ WatchEnds(b) \/ Destroy(b) \/ Create(b)
           \/ \E s \in Slots[b] : \E v \in Values(b, s) : Edit(b, s, v)
    PROVE  /\ scanned' = scanned \/ scanned' = scanned \union {b}
           /\ steady' \subseteq steady
           /\ UNCHANGED config
<1>1. CASE ResolveBucket(b) \/ WatchBucket(b) \/ WatchFails(b)
  BY <1>1 DEF ResolveBucket, WatchBucket, WatchFails, store
<1>2. CASE Deliver(b) \/ Sync(b)
  BY <1>2 DEF Deliver, Sync, store
<1>3. CASE Probe(b) \/ WatchEnds(b)
  BY <1>3 DEF Probe, WatchEnds, Reconnect, store
<1>4. CASE Destroy(b)
  BY <1>4 DEF Destroy, watchers
<1>5. CASE Create(b)
  BY <1>5 DEF Create, watchers
<1>6. ASSUME NEW s, NEW v, Edit(b, s, v)
      PROVE  UNCHANGED <<config, scanned>> /\ steady' \subseteq steady
  BY <1>6 DEF Edit
<1> QED
  BY <1>1, <1>2, <1>3, <1>4, <1>5, <1>6 DEF Watch

LEMMA SeenInduction == Init => SeenInv
BY DEF Init, SeenInv, Ordered, Buckets

LEMMA SeenStep == SeenInv /\ [Next]_vars => SeenInv'
<1> SUFFICES ASSUME SeenInv, [Next]_vars PROVE SeenInv'
  OBVIOUS
<1> USE DEF seen
<1>1. ASSUME UNCHANGED seen PROVE SeenInv'
  BY <1>1 DEF SeenInv, Ordered
<1>2. ASSUME NEW b \in Buckets, ResolveBucket(b) PROVE SeenInv'
  BY <1>2 DEF ResolveBucket, Goto, store, SeenInv, Ordered
<1>3. ASSUME NEW b \in Buckets, WatchBucket(b) PROVE SeenInv'
  BY <1>3 DEF WatchBucket, Goto, store, SeenInv, Ordered
<1>4. ASSUME NEW b \in Buckets, WatchFails(b) PROVE SeenInv'
  BY <1>4, GotoKeepsOrder DEF WatchFails, store
<1>5. ASSUME NEW b \in Buckets, Deliver(b) PROVE SeenInv'
  BY <1>5, <1>1 DEF Deliver, store
<1>6. ASSUME NEW b \in Buckets, Sync(b) PROVE SeenInv'
  BY <1>6, GotoKeepsOrder DEF Sync, store
<1>7. ASSUME NEW b \in Buckets, Probe(b) \/ WatchEnds(b) PROVE SeenInv'
  BY <1>7, GotoKeepsOrder DEF Probe, WatchEnds, Reconnect, store
<1>8. ASSUME NEW b \in Buckets, Destroy(b) PROVE SeenInv'
  BY <1>8, <1>1 DEF Destroy, watchers
<1>9. ASSUME NEW b \in Buckets, Create(b) PROVE SeenInv'
  BY <1>9 DEF Create, watchers, SeenInv, Ordered
<1>10. ASSUME NEW b \in Buckets, NEW s \in Slots[b], NEW v \in Values(b, s),
              Edit(b, s, v)
       PROVE SeenInv'
  BY <1>10, <1>1 DEF Edit
<1>11. ASSUME NEW r \in Requests, Handle(r) \/ Served(r) PROVE SeenInv'
  BY <1>11, <1>1, RequestsLeaveTables DEF store, watchers
<1>12. CASE Tick
  BY <1>12, <1>1 DEF Tick, store, watchers
<1>13. CASE UNCHANGED vars
  BY <1>13, <1>1 DEF vars, store, watchers
<1> QED
  BY <1>2, <1>3, <1>4, <1>5, <1>6, <1>7, <1>8, <1>9, <1>10, <1>11, <1>12,
     <1>13
  DEF Next, Watch

\* A watcher whose bucket was destroyed and created again is noticed by its
\* probe (probeBucketIdentity), since watchKV reads Created before WatchAll.
THEOREM BlindnessIsNoticed == Spec => []BlindWatcherIsNoticed
<1>1. SeenInv => BlindWatcherIsNoticed
  BY DEF SeenInv, Ordered, BlindWatcherIsNoticed
<1>2. QED
  BY <1>1, SeenInduction, SeenStep, PTL DEF Spec

-----------------------------------------------------------------------------
(* Admission.                                                              *)

Stages == {"idle", "body", "budget", "admit", "fetch", "fetched", "publish",
           "queued"}

AdmissionTypes ==
    /\ config \in Configs
    /\ stage \in [Requests -> Stages]
    /\ cache \in [known : BOOLEAN, backlog : Nat, age : 0..CacheTTL]
    /\ reading \in [Requests -> Nat]
    /\ wait \in [Requests -> 0..FetchTimeout]
    /\ clear \in Ages /\ full \in Ages

\* A queue that is below its limit has been so just now; and one that is not.
ClocksRun ==
    config.limit > 0 =>
        /\ Backlog < config.limit => clear = 0
        /\ Backlog >= config.limit => full = 0

\* A reading tells how the queue was no longer ago than the fetch has taken,
\* and the cache no longer ago than its age and a fetch.
ReadingsHold ==
    config.limit > 0 =>
        \A r \in Requests : stage[r] = "fetched" =>
            /\ reading[r] < config.limit => clear <= wait[r]
            /\ reading[r] >= config.limit => full <= wait[r]

CacheHolds ==
    config.limit > 0 /\ cache.known =>
        /\ cache.backlog < config.limit => clear <= cache.age + FetchTimeout
        /\ cache.backlog >= config.limit => full <= cache.age + FetchTimeout

AdmissionInv == AdmissionTypes /\ ClocksRun /\ ReadingsHold /\ CacheHolds

USE GatewayAssumption DEF CacheTTL, FetchTimeout, Ages

LEMMA BacklogIsNat ==
    /\ Backlog \in Nat
    /\ Cardinality({r \in Requests : stage'[r] = "queued"}) \in Nat
<1>1. ASSUME NEW S, S \subseteq Requests PROVE Cardinality(S) \in Nat
  BY <1>1, FS_Subset, FS_CardinalityType
<1> QED
  BY <1>1 DEF Backlog

\* A handler that moves between gates before the queue does not change it.
LEMMA QueueKept ==
    ASSUME stage \in [Requests -> Stages], NEW r \in Requests,
           NEW to \in Stages \ {"queued"}, stage[r] # "queued",
           stage' = [stage EXCEPT ![r] = to]
    PROVE  Backlog' = Backlog /\ stage' \in [Requests -> Stages]
<1>1. {q \in Requests : stage'[q] = "queued"} =
          {q \in Requests : stage[q] = "queued"}
  OBVIOUS
<1> QED
  BY <1>1 DEF Backlog

LEMMA AdmissionInit == Init => AdmissionInv
<1> SUFFICES ASSUME Init PROVE AdmissionInv
  OBVIOUS
<1>1. AdmissionTypes
  BY DEF Init, AdmissionTypes, NoReading, Stages
<1>2. Backlog = 0
  <2>1. {r \in Requests : stage[r] = "queued"} = {}
    BY DEF Init
  <2> QED BY <2>1, FS_EmptySet DEF Backlog
<1>3. config.limit \in Nat
  BY DEF Init
<1>4. ClocksRun
  BY <1>2, <1>3 DEF Init, ClocksRun
<1> QED
  BY <1>1, <1>4 DEF Init, AdmissionInv, ReadingsHold, CacheHolds, NoReading

\* A gate that neither reads the queue nor is the queue.
LEMMA GateKept ==
    ASSUME AdmissionInv, UNCHANGED <<config, cache, reading, wait>>,
           UNCHANGED <<clear, full>>,
           NEW r \in Requests, NEW to \in Stages \ {"queued", "fetched"},
           stage[r] # "queued", stage' = [stage EXCEPT ![r] = to]
    PROVE  AdmissionInv'
<1>1. Backlog' = Backlog /\ stage' \in [Requests -> Stages]
  BY QueueKept DEF AdmissionInv, AdmissionTypes
<1>2. ReadingsHold'
  BY <1>1 DEF AdmissionInv, AdmissionTypes, ReadingsHold
<1> QED
  BY <1>1, <1>2 DEF AdmissionInv, AdmissionTypes, ClocksRun, CacheHolds

LEMMA EarlyGates ==
    ASSUME AdmissionInv, NEW r \in Requests,
           Authenticate(r) \/ Resolve(r) \/ CheckBudget(r) \/ Admit(r)
    PROVE  AdmissionInv'
<1>1. UNCHANGED <<config, cache, reading, wait, clear, full>>
  BY DEF Authenticate, Resolve, CheckBudget, Admit, admission, clocks
<1>2. stage[r] \in {"idle", "body", "budget", "admit"}
  BY DEF Authenticate, Resolve, CheckBudget, Admit, Verdict, Pass, Answer
<1>3. \E to \in {"idle", "body", "budget", "admit", "publish"} :
         stage' = [stage EXCEPT ![r] = to]
  BY DEF Authenticate, Resolve, CheckBudget, Admit, Verdict, Pass, Answer
<1> QED
  BY <1>1, <1>2, <1>3, GateKept DEF Stages

LEMMA FetchBegins ==
    ASSUME AdmissionInv, NEW r \in Requests, BeginFetch(r)
    PROVE  AdmissionInv'
<1>1. /\ stage[r] = "admit" /\ stage' = [stage EXCEPT ![r] = "fetch"]
      /\ wait' = [wait EXCEPT ![r] = 0]
      /\ UNCHANGED <<config, cache, reading, clear, full>>
  BY DEF BeginFetch, Pass, clocks
<1>2. Backlog' = Backlog /\ stage' \in [Requests -> Stages]
  BY <1>1, QueueKept DEF AdmissionInv, AdmissionTypes, Stages
<1>3. ReadingsHold'
  BY <1>1, <1>2 DEF AdmissionInv, AdmissionTypes, ReadingsHold
<1> QED
  BY <1>1, <1>2, <1>3 DEF AdmissionInv, AdmissionTypes, ClocksRun, CacheHolds

\* A clock starts again or goes on as it was.
LEMMA ObserveKeeps ==
    ASSUME AdmissionInv, NEW known \in BOOLEAN, Observe(known),
           UNCHANGED config
    PROVE  /\ clear' \in {0, clear} /\ full' \in {0, full}
           /\ clear' \in Ages /\ full' \in Ages
           /\ ~known => clear' = 0
           /\ ClocksRun'
<1>1. config.limit \in Nat
  BY DEF AdmissionInv, AdmissionTypes
<1>2. Backlog' = Cardinality({q \in Requests : stage'[q] = "queued"})
  BY DEF Backlog
<1>3. Backlog' \in Nat
  BY <1>2, BacklogIsNat
<1>4. /\ clear' = IF Backlog' < config.limit \/ ~known THEN 0 ELSE clear
      /\ full' = IF Backlog' >= config.limit THEN 0 ELSE full
  BY <1>2 DEF Observe
<1>5. clear \in Ages /\ full \in Ages
  BY DEF AdmissionInv, AdmissionTypes
<1> HIDE DEF Backlog
<1> QED
  BY <1>1, <1>3, <1>4, <1>5 DEF ClocksRun

LEMMA FetchReads ==
    ASSUME AdmissionInv, NEW r \in Requests, Fetch(r)
    PROVE  AdmissionInv'
<1>1. /\ stage[r] = "fetch" /\ stage' = [stage EXCEPT ![r] = "fetched"]
      /\ UNCHANGED <<config, cache, wait>>
  BY DEF Fetch, Pass
<1>2. Backlog' = Backlog /\ stage' \in [Requests -> Stages]
  BY <1>1, QueueKept DEF AdmissionInv, AdmissionTypes, Stages
<1>3. /\ config.limit \in Nat /\ Backlog \in Nat
      /\ wait \in [Requests -> 0..FetchTimeout]
      /\ reading \in [Requests -> Nat]
  BY BacklogIsNat DEF AdmissionInv, AdmissionTypes
<1>4. CASE reading' = [reading EXCEPT ![r] = Backlog] /\ UNCHANGED clocks
  <2>1. ReadingsHold'
    BY <1>1, <1>2, <1>3, <1>4
    DEF AdmissionInv, AdmissionTypes, ReadingsHold, ClocksRun, clocks
  <2> QED BY <1>1, <1>2, <1>3, <1>4, <2>1
          DEF AdmissionInv, AdmissionTypes, ClocksRun, CacheHolds, clocks
<1>5. CASE reading' = [reading EXCEPT ![r] = 0] /\ Observe(FALSE)
  <2>1. /\ clear' = 0 /\ full' \in {0, full}
        /\ clear' \in Ages /\ full' \in Ages /\ ClocksRun'
    BY <1>1, <1>5, ObserveKeeps
  <2>2. ReadingsHold'
    BY <1>1, <1>2, <1>3, <1>5, <2>1
    DEF AdmissionInv, AdmissionTypes, ReadingsHold
  <2>3. CacheHolds'
    BY <1>1, <1>3, <2>1 DEF AdmissionInv, AdmissionTypes, CacheHolds
  <2> QED BY <1>1, <1>2, <1>3, <1>5, <2>1, <2>2, <2>3
          DEF AdmissionInv, AdmissionTypes
<1> QED
  BY <1>4, <1>5 DEF Fetch

LEMMA ReadingStored ==
    ASSUME AdmissionInv, NEW r \in Requests, StoreReading(r)
    PROVE  AdmissionInv'
<1>1. /\ stage[r] = "fetched"
      /\ cache' = [known |-> TRUE, backlog |-> reading[r], age |-> 0]
      /\ reading' = [reading EXCEPT ![r] = 0]
      /\ wait' = [wait EXCEPT ![r] = 0]
      /\ UNCHANGED <<config, clear, full>>
  BY DEF StoreReading, Verdict, Pass, Answer, clocks
<1>2. \E to \in {"idle", "publish"} : stage' = [stage EXCEPT ![r] = to]
  BY DEF StoreReading, Verdict, Pass, Answer
<1>3. Backlog' = Backlog /\ stage' \in [Requests -> Stages]
  BY <1>1, <1>2, QueueKept DEF AdmissionInv, AdmissionTypes, Stages
<1>4. CacheHolds'
  BY <1>1 DEF AdmissionInv, AdmissionTypes, ReadingsHold, CacheHolds
<1>5. ReadingsHold'
  BY <1>1, <1>2 DEF AdmissionInv, AdmissionTypes, ReadingsHold
<1>6. AdmissionTypes'
  <2>1. reading[r] \in Nat
    BY DEF AdmissionInv, AdmissionTypes
  <2>2. cache' \in [known : BOOLEAN, backlog : Nat, age : 0..CacheTTL]
    BY <1>1, <2>1
  <2>3. /\ reading' \in [Requests -> Nat]
        /\ wait' \in [Requests -> 0..FetchTimeout]
    BY <1>1 DEF AdmissionInv, AdmissionTypes
  <2> QED BY <1>1, <1>3, <2>2, <2>3 DEF AdmissionInv, AdmissionTypes
<1>7. ClocksRun'
  BY <1>1, <1>3 DEF AdmissionInv, ClocksRun
<1> QED
  BY <1>4, <1>5, <1>6, <1>7 DEF AdmissionInv

LEMMA QueueObserved ==
    ASSUME AdmissionInv, NEW r \in Requests, Publish(r) \/ Served(r)
    PROVE  AdmissionInv'
<1>1. /\ stage[r] \in {"publish", "queued"} /\ Observe(TRUE)
      /\ UNCHANGED <<config, cache, reading, wait>>
  BY DEF Publish, Served, Pass, Answer, admission
<1>2. \E to \in {"idle", "queued"} : stage' = [stage EXCEPT ![r] = to]
  BY DEF Publish, Served, Pass, Answer
<1>3. stage' \in [Requests -> Stages]
  BY <1>2 DEF AdmissionInv, AdmissionTypes, Stages
<1>4. /\ clear' \in {0, clear} /\ full' \in {0, full}
      /\ clear' \in Ages /\ full' \in Ages /\ ClocksRun'
  BY <1>1, ObserveKeeps
<1>5. ReadingsHold'
  BY <1>1, <1>2, <1>4 DEF AdmissionInv, AdmissionTypes, ReadingsHold
<1>6. CacheHolds'
  BY <1>1, <1>4 DEF AdmissionInv, AdmissionTypes, CacheHolds
<1> QED
  BY <1>1, <1>3, <1>4, <1>5, <1>6 DEF AdmissionInv, AdmissionTypes

LEMMA TimePasses ==
    ASSUME AdmissionInv, Tick
    PROVE  AdmissionInv'
<1> DEFINE Aged == IF cache.age < CacheTTL THEN cache.age + 1 ELSE cache.age
<1>1. /\ UNCHANGED <<config, stage, reading>>
      /\ cache' = [cache EXCEPT !.age = Aged]
      /\ wait' = [q \in Requests |-> IF stage[q] \in {"fetch", "fetched"}
                                     THEN wait[q] + 1 ELSE wait[q]]
      /\ \A q \in Requests : stage[q] \in {"fetch", "fetched"} =>
                                  wait[q] < FetchTimeout
  BY DEF Tick, requests
<1>2. /\ clear' = IF Backlog < config.limit THEN 0 ELSE Older(clear)
      /\ full' = IF Backlog >= config.limit THEN 0 ELSE Older(full)
  BY DEF Tick
<1>3. Backlog' = Backlog /\ Backlog \in Nat /\ config.limit \in Nat
  BY <1>1, BacklogIsNat DEF Backlog, AdmissionInv, AdmissionTypes
<1>4. /\ clear \in Ages /\ full \in Ages
      /\ \A age \in Ages : Older(age) \in Ages /\ Older(age) <= age + 1
  BY DEF Older, AdmissionInv, AdmissionTypes
<1>5. /\ clear' \in Ages /\ full' \in Ages
      /\ clear' <= clear + 1 /\ full' <= full + 1
  <2> HIDE DEF Backlog
  <2> QED BY <1>2, <1>4
<1>6. wait' \in [Requests -> 0..FetchTimeout]
  BY <1>1 DEF AdmissionInv, AdmissionTypes
<1>7. /\ cache' \in [known : BOOLEAN, backlog : Nat, age : 0..CacheTTL]
      /\ cache'.known = cache.known /\ cache'.backlog = cache.backlog
      /\ cache'.age = Aged
  <2>1. Aged \in 0..CacheTTL
    BY DEF AdmissionInv, AdmissionTypes
  <2> HIDE DEF Aged
  <2> QED BY <1>1, <2>1 DEF AdmissionInv, AdmissionTypes
<1>8. ReadingsHold'
  BY <1>1, <1>5, <1>6, <1>3 DEF AdmissionInv, AdmissionTypes, ReadingsHold
<1>9. CacheHolds'
  BY <1>1, <1>3, <1>4, <1>5, <1>7 DEF AdmissionInv, AdmissionTypes, CacheHolds
<1>10. ClocksRun'
  BY <1>1, <1>2, <1>3 DEF ClocksRun
<1> QED
  BY <1>1, <1>5, <1>6, <1>7, <1>8, <1>9, <1>10
  DEF AdmissionInv, AdmissionTypes

\* Nothing the watch loops and the buckets do concerns admission.
LEMMA WatchingAdmitsNothing ==
    ASSUME NEW b \in Buckets,
           \/ Watch(b) \/ Probe(b) \/ WatchEnds(b) \/ Destroy(b) \/ Create(b)
           \/ \E s \in Slots[b] : \E v \in Values(b, s) : Edit(b, s, v)
    PROVE  UNCHANGED <<config, requests, admission, clocks>>
BY DEF Watch, Probe, WatchEnds, Destroy, Create, Edit, ResolveBucket,
       WatchBucket, WatchFails, Deliver, Sync, Reconnect

LEMMA AdmissionStep == AdmissionInv /\ [Next]_vars => AdmissionInv'
<1> SUFFICES ASSUME AdmissionInv, [Next]_vars PROVE AdmissionInv'
  OBVIOUS
<1>1. ASSUME UNCHANGED <<config, requests, admission, clocks>>
      PROVE  AdmissionInv'
  BY <1>1
  DEF AdmissionInv, AdmissionTypes, ClocksRun, ReadingsHold, CacheHolds,
      Backlog, requests, admission, clocks
<1>2. CASE \E b \in Buckets :
              \/ Watch(b) \/ Probe(b) \/ WatchEnds(b)
              \/ Destroy(b) \/ Create(b)
              \/ \E s \in Slots[b] : \E v \in Values(b, s) : Edit(b, s, v)
  BY <1>1, <1>2, WatchingAdmitsNothing
<1>3. ASSUME NEW r \in Requests, Handle(r) \/ Served(r) PROVE AdmissionInv'
  BY <1>3, EarlyGates, FetchBegins, FetchReads, ReadingStored, QueueObserved
  DEF Handle
<1>4. CASE UNCHANGED vars
  BY <1>4, <1>1 DEF vars
<1> QED
  BY <1>2, <1>3, <1>4, TimePasses DEF Next

\* The step of one handler moves no other.
LEMMA VerdictsAreOwn ==
    ASSUME AdmissionInv, [Next]_vars, NEW r \in Requests,
           stage[r] \in {"admit", "fetched"},
           stage'[r] \in {"publish", "idle"}
    PROVE  Admit(r) \/ StoreReading(r)
<1>1. stage \in [Requests -> Stages]
  BY DEF AdmissionInv, AdmissionTypes
<1>2. stage' # stage
  OBVIOUS
<1>3. PICK q \in Requests : Handle(q) \/ Served(q)
  BY <1>2, WatchingAdmitsNothing DEF Next, vars, requests, Tick
<1>4. \E to \in Stages : stage' = [stage EXCEPT ![q] = to]
  BY <1>3 DEF Handle, Served, Authenticate, Resolve, CheckBudget, Admit,
     BeginFetch, Fetch, StoreReading, Publish, Verdict, Pass, Answer, Stages
<1>5. q = r
  BY <1>1, <1>4
<1> QED
  BY <1>1, <1>3, <1>5
  DEF Handle, Served, Authenticate, Resolve, CheckBudget, BeginFetch, Fetch,
      Publish, Pass, Answer

\* allow admits on a backlog that was below the limit, and refuses on one
\* that was not, within the cache's second and the fetch's half: whatever
\* the handlers do meanwhile.
THEOREM AdmissionIsTimely == Spec => AdmissionFollowsBacklog
<1> DEFINE Timely ==
        \A r \in Requests :
            config.limit > 0 /\ stage[r] \in {"admit", "fetched"} =>
                /\ stage'[r] = "publish" => clear < CacheTTL + FetchTimeout
                /\ stage'[r] = "idle" => full < CacheTTL + FetchTimeout
<1>1. AdmissionInv /\ [Next]_vars => [Timely]_vars
  <2> SUFFICES ASSUME AdmissionInv, [Next]_vars, NEW r \in Requests,
                      config.limit > 0, stage[r] \in {"admit", "fetched"},
                      stage'[r] \in {"publish", "idle"}
               PROVE  /\ stage'[r] = "publish" =>
                            clear < CacheTTL + FetchTimeout
                      /\ stage'[r] = "idle" =>
                            full < CacheTTL + FetchTimeout
    OBVIOUS
  <2>1. /\ config.limit \in Nat /\ reading[r] \in Nat
        /\ cache \in [known : BOOLEAN, backlog : Nat, age : 0..CacheTTL]
        /\ wait[r] \in 0..FetchTimeout
        /\ clear \in Ages /\ full \in Ages
        /\ stage \in [Requests -> Stages]
    BY DEF AdmissionInv, AdmissionTypes
  <2>2. ASSUME NEW backlog \in Nat, Verdict(r, stage[r], backlog)
        PROVE  /\ stage'[r] = "publish" => backlog < config.limit
               /\ stage'[r] = "idle" => backlog >= config.limit
    BY <2>1, <2>2 DEF Verdict, Pass, Answer
  <2>3. CASE Admit(r)
    <3>1. Fresh /\ Verdict(r, stage[r], cache.backlog)
      BY <2>1, <2>3 DEF Admit, Verdict, Pass, Answer
    <3> QED BY <2>1, <2>2, <3>1 DEF AdmissionInv, CacheHolds, Fresh
  <2>4. CASE StoreReading(r)
    <3>1. stage[r] = "fetched" /\ Verdict(r, stage[r], reading[r])
      BY <2>4 DEF StoreReading, Verdict, Pass, Answer
    <3> QED BY <2>1, <2>2, <3>1 DEF AdmissionInv, ReadingsHold
  <2> QED BY <2>3, <2>4, VerdictsAreOwn
<1>2. Spec => [][Timely]_vars
  BY <1>1, AdmissionInit, AdmissionStep, PTL DEF Spec
<1> QED
  BY <1>2 DEF AdmissionFollowsBacklog

-----------------------------------------------------------------------------
(* The tables.                                                             *)

\* Buckets, tables and scans are functions.
TablesInv ==
    /\ kv = [b \in Buckets |-> kv[b]]
    /\ working = [b \in Buckets |-> working[b]]
    /\ snap = [b \in Buckets |-> snap[b]]
    /\ scan = [b \in Buckets |-> scan[b]]
    /\ due = [b \in Buckets |-> due[b]]
    /\ link = [b \in Buckets |-> link[b]]
    /\ \A b \in Buckets :
          /\ kv[b] # NoBucket => kv[b] \in Contents(b)
          /\ working[b] = [s \in Slots[b] |-> working[b][s]]

\* The tables a request may look into.
Filled(b) == b \in scanned \/ (config.iam = "static" /\ b # "BUDGETS")

\* An entry that has always been as it is is in the snapshot once there is
\* one, in what a synced loop works on, and in what a scanning loop works on
\* once the replay has come to it.
SteadyEntry(b, s) ==
    /\ kv[b] # NoBucket
    /\ Filled(b) => snap[b][s] = kv[b][s]
    /\ link[b] = "synced" => Filled(b) /\ working[b][s] = kv[b][s]
    /\ link[b] = "scan" /\ s \notin scan[b] => working[b][s] = kv[b][s]

SteadyInv ==
    \A b \in Buckets : \A s \in Slots[b] :
        <<b, s>> \in steady => SteadyEntry(b, s)

\* Only a gateway with its tables reads a body.
GatesInv == /\ stage = [r \in Requests |-> stage[r]]
            /\ resp = [r \in Requests |-> resp[r]]
            /\ route = [r \in Requests |-> route[r]]
            /\ \A r \in Requests : stage[r] = "body" => Ready

LookupInv == TablesInv /\ SteadyInv /\ GatesInv /\ SteadyEntriesDecide

\* A listing of a finite set has each of its elements.
LEMMA ListingIsComplete ==
    ASSUME NEW S, IsFiniteSet(S), NEW order \in SetToSeqs(S)
    PROVE  Range(order) = S
<1> DEFINE D == 1..Cardinality(S)
<1>1. Cardinality(S) \in Nat
  BY FS_CardinalityType
<1>2. IsFiniteSet(D) /\ Cardinality(D) = Cardinality(S)
  BY <1>1, FS_Interval
<1>3. order \in [D -> S] /\ \A i, j \in D : i # j => order[i] # order[j]
  BY DEF SetToSeqs
<1>4. order \in Injection(D, S)
  BY <1>3 DEF Injection, IsInjective
<1>5. order \in Surjection(D, S)
  BY <1>2, <1>4, FS_Injection
<1> QED
  BY <1>3, <1>5 DEF Surjection, Range

LEMMA SlotsAreFinite == \A b \in Buckets : IsFiniteSet(Slots[b])
<1>1. {"org", "_global"} = {"org"} \union {"_global"}
  OBVIOUS
<1>2. IsFiniteSet({"key"}) /\ IsFiniteSet({"org"} \union {"_global"})
  BY FS_Singleton, FS_AddElement
<1> QED
  BY <1>1, <1>2 DEF Slots, Buckets

LEMMA ContentsAreFunctions ==
    \A b \in Buckets :
        /\ Empty[b] \in Contents(b)
        /\ \A c \in Contents(b) : c = [s \in Slots[b] |-> c[s]]
<1>1. \A b \in Buckets : \A s \in Slots[b] : None \in Values(b, s)
  BY DEF Values
<1> QED
  BY <1>1 DEF Empty, Contents

\* An entry takes any of its values.
LEMMA EditedContents ==
    ASSUME NEW b \in Buckets, NEW s \in Slots[b], NEW v \in Values(b, s),
           NEW c \in Contents(b)
    PROVE  [c EXCEPT ![s] = v] \in Contents(b)
BY DEF Contents

\* The buckets all exist at first, or none does.
LEMMA FirstBuckets ==
    ASSUME Init
    PROVE  \E keys \in Contents("KEYS"), aliases \in Contents("ALIASES"),
              absent \in {{}, Buckets} :
              kv = [b \in Buckets |->
                      CASE b \in absent -> NoBucket
                        [] b = "KEYS" /\ b \notin absent -> keys
                        [] b = "ALIASES" /\ b \notin absent -> aliases
                        [] b = "BUDGETS" /\ b \notin absent -> Empty[b]]
BY ZenonT(30) DEF Init

LEMMA LookupInit == Init => LookupInv
<1> SUFFICES ASSUME Init PROVE LookupInv
  OBVIOUS
<1>1. PICK keys \in Contents("KEYS"), aliases \in Contents("ALIASES"),
           absent \in {{}, Buckets} :
         kv = [b \in Buckets |->
                 CASE b \in absent -> NoBucket
                   [] b = "KEYS" /\ b \notin absent -> keys
                   [] b = "ALIASES" /\ b \notin absent -> aliases
                   [] b = "BUDGETS" /\ b \notin absent -> Empty[b]]
  BY FirstBuckets
<1>2. /\ kv["KEYS"] \in {NoBucket, keys}
      /\ kv["ALIASES"] \in {NoBucket, aliases}
      /\ kv["BUDGETS"] \in {NoBucket, Empty["BUDGETS"]}
      /\ kv = [b \in Buckets |-> kv[b]]
  BY <1>1 DEF Buckets
<1>3. ASSUME NEW b \in Buckets, kv[b] # NoBucket
      PROVE  kv[b] \in Contents(b)
  BY <1>2, <1>3, ContentsAreFunctions DEF Buckets
<1>4. TablesInv
  <2>1. /\ working = Empty
        /\ link = [b \in Buckets |-> IF config.iam = "kv" THEN "resolve"
                                                          ELSE "off"]
        /\ scan = [b \in Buckets |-> {}] /\ due = [b \in Buckets |-> << >>]
        /\ snap = [b \in Buckets |->
                     IF config.iam = "static" /\ b # "BUDGETS" THEN kv[b]
                                                               ELSE Empty[b]]
    BY DEF Init
  <2>2. /\ link = [b \in Buckets |-> link[b]]
        /\ scan = [b \in Buckets |-> scan[b]]
        /\ due = [b \in Buckets |-> due[b]]
        /\ snap = [b \in Buckets |-> snap[b]]
    BY <2>1
  <2>3. /\ working = [b \in Buckets |-> working[b]]
        /\ \A b \in Buckets : working[b] = [s \in Slots[b] |-> working[b][s]]
    BY <2>1 DEF Empty
  <2> QED BY <1>2, <1>3, <2>2, <2>3 DEF TablesInv
<1>5. SteadyInv
  BY DEF Init, SteadyInv, SteadyEntry, Filled
<1>6. GatesInv /\ SteadyEntriesDecide
  BY DEF Init, GatesInv, SteadyEntriesDecide
<1> QED
  BY <1>4, <1>5, <1>6 DEF LookupInv

LEMMA TablesStep == TablesInv /\ [Next]_vars => TablesInv'
<1> SUFFICES ASSUME TablesInv, [Next]_vars PROVE TablesInv'
  OBVIOUS
<1>1. ASSUME UNCHANGED <<kv, watchers>> PROVE TablesInv'
  BY <1>1 DEF TablesInv, watchers
<1>2. CASE (\E r \in Requests : Handle(r) \/ Served(r)) \/ Tick
           \/ UNCHANGED vars
  BY <1>2, <1>1
  DEF Handle, Served, Tick, Authenticate, Resolve, CheckBudget, Admit,
      BeginFetch, Fetch, StoreReading, Publish, store, vars
<1>3. ASSUME NEW b \in Buckets, ResolveBucket(b) \/ WatchFails(b)
      PROVE  TablesInv'
  BY <1>3 DEF ResolveBucket, WatchFails, Goto, store, TablesInv
<1>4. ASSUME NEW b \in Buckets, WatchBucket(b) PROVE TablesInv'
  <2>1. /\ working' = [working EXCEPT ![b] = Empty[b]]
        /\ link' = [link EXCEPT ![b] = "scan"]
        /\ scan' = [scan EXCEPT ![b] = Range(due'[b])]
        /\ \E order : due' = [due EXCEPT ![b] = order]
        /\ UNCHANGED <<kv, snap>>
    BY <1>4 DEF WatchBucket, Goto, store
  <2> QED BY <2>1 DEF TablesInv, Empty
<1>5. ASSUME NEW b \in Buckets, Deliver(b) PROVE TablesInv'
  <2>1. PICK s : /\ working' = [working EXCEPT ![b][s] = kv[b][s]]
                 /\ scan' = [scan EXCEPT ![b] = @ \ {s}]
    BY <1>5 DEF Deliver
  <2>2. /\ snap' \in {snap, [snap EXCEPT ![b] = working'[b]]}
        /\ due' = [due EXCEPT ![b] = Tail(@)]
        /\ UNCHANGED <<kv, link>>
    BY <1>5 DEF Deliver, store
  <2> QED BY <2>1, <2>2 DEF TablesInv
<1>6. ASSUME NEW b \in Buckets, Sync(b) PROVE TablesInv'
  BY <1>6 DEF Sync, Goto, store, TablesInv
<1>7. ASSUME NEW b \in Buckets, Probe(b) \/ WatchEnds(b) PROVE TablesInv'
  <2>1. /\ working' = [working EXCEPT ![b] = Empty[b]]
        /\ link' = [link EXCEPT ![b] = "resolve"]
        /\ scan' = [scan EXCEPT ![b] = {}]
        /\ due' = [due EXCEPT ![b] = << >>]
        /\ UNCHANGED <<kv, snap>>
    BY <1>7 DEF Probe, WatchEnds, Reconnect, Goto, store
  <2> QED BY <2>1 DEF TablesInv, Empty
<1>8. ASSUME NEW b \in Buckets, Destroy(b) \/ Create(b) PROVE TablesInv'
  <2>1. /\ kv' \in {[kv EXCEPT ![b] = NoBucket], [kv EXCEPT ![b] = Empty[b]]}
        /\ UNCHANGED <<working, snap, scan, due, link>>
    BY <1>8 DEF Destroy, Create, watchers
  <2>2. kv'[b] # NoBucket => kv'[b] \in Contents(b)
    BY <2>1, ContentsAreFunctions DEF TablesInv
  <2>3. /\ kv' = [c \in Buckets |-> kv'[c]]
        /\ \A c \in Buckets \ {b} : kv'[c] = kv[c]
    BY <2>1 DEF TablesInv
  <2> QED BY <2>1, <2>2, <2>3 DEF TablesInv
<1>9. ASSUME NEW b \in Buckets, NEW s \in Slots[b], NEW v \in Values(b, s),
             Edit(b, s, v)
      PROVE  TablesInv'
  <2>1. /\ kv[b] # NoBucket /\ kv' = [kv EXCEPT ![b][s] = v]
        /\ due' \in {due, [due EXCEPT ![b] = Append(RemoveFirst(due[b], s), s)]}
        /\ UNCHANGED <<working, snap, scan, link>>
    BY <1>9 DEF Edit, Exists, watchers
  <2>2. kv[b] \in Contents(b)
    BY <2>1 DEF TablesInv
  <2>3. kv'[b] = [kv[b] EXCEPT ![s] = v]
    BY <2>1 DEF TablesInv
  <2>4. kv'[b] \in Contents(b)
    BY <2>2, <2>3, EditedContents
  <2>5. \A c \in Buckets \ {b} : kv'[c] = kv[c]
    BY <2>1 DEF TablesInv
  <2>6. kv' = [c \in Buckets |-> kv'[c]]
    BY <2>1 DEF TablesInv
  <2> QED BY <2>1, <2>4, <2>5, <2>6 DEF TablesInv
<1> QED
  BY <1>2, <1>3, <1>4, <1>5, <1>6, <1>7, <1>8, <1>9 DEF Next, Watch

\* What is steady after a step was so before it, with the same value.
LEMMA SteadyEntriesKeep ==
    ASSUME TablesInv, SteadyInv, [Next]_vars,
           NEW c \in Buckets, NEW t \in Slots[c], <<c, t>> \in steady'
    PROVE  <<c, t>> \in steady /\ kv'[c][t] = kv[c][t]
<1>1. <<c, t>> \in steady
  BY LoopsLearn, RequestsLeaveTables, TimeLeavesTables DEF Next, store, vars
<1>2. kv[c] # NoBucket
  BY <1>1 DEF SteadyInv, SteadyEntry
<1>3. ASSUME UNCHANGED kv PROVE kv'[c][t] = kv[c][t]
  BY <1>3
<1>4. ASSUME NEW b \in Buckets, Destroy(b) \/ Create(b)
      PROVE  kv'[c][t] = kv[c][t]
  <2>1. /\ kv' \in {[kv EXCEPT ![b] = NoBucket], [kv EXCEPT ![b] = Empty[b]]}
        /\ c # b
    BY <1>2, <1>4 DEF Destroy, Create, Exists
  <2> QED BY <2>1 DEF TablesInv
<1>5. ASSUME NEW b \in Buckets, NEW s \in Slots[b], NEW v \in Values(b, s),
             Edit(b, s, v)
      PROVE  kv'[c][t] = kv[c][t]
  <2>1. /\ kv[b] # NoBucket /\ kv' = [kv EXCEPT ![b][s] = v]
        /\ c # b \/ t # s
    BY <1>5 DEF Edit, Exists
  <2>2. kv[b] \in Contents(b)
    BY <2>1 DEF TablesInv
  <2> QED BY <2>1, <2>2, ContentsAreFunctions DEF TablesInv
<1>6. CASE UNCHANGED vars
  BY <1>6 DEF vars, store
<1>7. CASE (\E r \in Requests : Handle(r) \/ Served(r)) \/ Tick
           \/ \E b \in Buckets : Watch(b) \/ Probe(b) \/ WatchEnds(b)
  BY <1>3, <1>7
  DEF Watch, Handle, Served, Tick, Authenticate, Resolve, CheckBudget, Admit,
      BeginFetch, Fetch, StoreReading, Publish, ResolveBucket, WatchBucket,
      WatchFails, Deliver, Sync, Probe, WatchEnds, Reconnect, store
<1> QED
  BY <1>1, <1>4, <1>5, <1>6, <1>7 DEF Next

LEMMA SteadyStep == TablesInv /\ SteadyInv /\ [Next]_vars => SteadyInv'
<1> SUFFICES ASSUME TablesInv, SteadyInv, [Next]_vars,
                    NEW c \in Buckets, NEW t \in Slots[c], <<c, t>> \in steady'
             PROVE  SteadyEntry(c, t)'
  BY DEF SteadyInv
<1>1. <<c, t>> \in steady /\ kv'[c][t] = kv[c][t]
  BY SteadyEntriesKeep
<1>2. SteadyEntry(c, t)
  BY <1>1 DEF SteadyInv
<1>3. ASSUME UNCHANGED <<config, kv, watchers>> PROVE SteadyEntry(c, t)'
  BY <1>2, <1>3 DEF SteadyEntry, Filled, watchers
<1>4. CASE (\E r \in Requests : Handle(r) \/ Served(r)) \/ Tick
           \/ UNCHANGED vars
  BY <1>4, <1>3
  DEF Handle, Served, Tick, Authenticate, Resolve, CheckBudget, Admit,
      BeginFetch, Fetch, StoreReading, Publish, store, vars
<1>5. ASSUME NEW b \in Buckets, ResolveBucket(b) \/ WatchFails(b)
      PROVE  SteadyEntry(c, t)'
  <2>1. /\ \E to \in {"watch", "resolve"} : link' = [link EXCEPT ![b] = to]
        /\ UNCHANGED <<config, kv, scan, working, snap, scanned>>
    BY <1>5 DEF ResolveBucket, WatchFails, Goto, store
  <2> QED BY <1>2, <2>1 DEF SteadyEntry, Filled, TablesInv
<1>6. ASSUME NEW b \in Buckets, WatchBucket(b) PROVE SteadyEntry(c, t)'
  <2>1. /\ working' = [working EXCEPT ![b] = Empty[b]]
        /\ link' = [link EXCEPT ![b] = "scan"]
        /\ scan' = [scan EXCEPT ![b] = Range(due'[b])]
        /\ UNCHANGED <<config, kv, snap, scanned>>
    BY <1>6 DEF WatchBucket, Goto, store
  <2>2. CASE c = b
    <3> DEFINE there == {s \in Slots[b] : kv[b][s] # None}
    <3>1. PICK order \in SetToSeqs(there) : due' = [due EXCEPT ![b] = order]
      BY <1>6 DEF WatchBucket
    <3>2. IsFiniteSet(there)
      BY SlotsAreFinite, FS_Subset
    <3>3. Range(order) = there
      BY <3>2, ListingIsComplete
    <3>4. scan'[b] = there
      BY <2>1, <3>1, <3>3 DEF TablesInv
    <3>5. working'[b][t] = None /\ link'[b] = "scan"
      BY <2>1, <2>2 DEF TablesInv, Empty
    <3> QED BY <1>2, <2>1, <2>2, <3>4, <3>5 DEF SteadyEntry, Filled
  <2>3. CASE c # b
    BY <1>2, <2>1, <2>3 DEF SteadyEntry, Filled, TablesInv
  <2> QED BY <2>2, <2>3
<1>7. ASSUME NEW b \in Buckets, Deliver(b) PROVE SteadyEntry(c, t)'
  <2>1. PICK s : /\ working' = [working EXCEPT ![b][s] = kv[b][s]]
                 /\ scan' = [scan EXCEPT ![b] = @ \ {s}]
    BY <1>7 DEF Deliver
  <2>2. /\ snap' = IF link[b] = "synced"
                   THEN [snap EXCEPT ![b] = working'[b]] ELSE snap
        /\ UNCHANGED <<config, kv, link, scanned>>
    BY <1>7 DEF Deliver, store
  <2>3. CASE c = b
    <3>1. working'[c][t] = IF t = s THEN kv[c][t] ELSE working[c][t]
      BY <2>1, <2>3 DEF TablesInv
    <3>2. t \notin scan'[c] => t = s \/ t \notin scan[c]
      BY <2>1, <2>3 DEF TablesInv
    <3>3. snap'[c] = IF link[c] = "synced" THEN working'[c] ELSE snap[c]
      BY <2>2, <2>3 DEF TablesInv
    <3> QED BY <1>2, <2>2, <3>1, <3>2, <3>3 DEF SteadyEntry, Filled
  <2>4. CASE c # b
    BY <1>2, <2>1, <2>2, <2>4 DEF SteadyEntry, Filled, TablesInv
  <2> QED BY <2>3, <2>4
<1>8. ASSUME NEW b \in Buckets, Sync(b) PROVE SteadyEntry(c, t)'
  <2>1. /\ link[b] = "scan" /\ scan[b] = {}
        /\ link' = [link EXCEPT ![b] = "synced"]
        /\ snap' = [snap EXCEPT ![b] = working[b]]
        /\ scanned' = scanned \union {b}
        /\ UNCHANGED <<config, kv, scan, working>>
    BY <1>8 DEF Sync, Goto, store
  <2> QED BY <1>2, <2>1 DEF SteadyEntry, Filled, TablesInv
<1>9. ASSUME NEW b \in Buckets, Probe(b) \/ WatchEnds(b)
      PROVE  SteadyEntry(c, t)'
  <2>1. /\ working' = [working EXCEPT ![b] = Empty[b]]
        /\ link' = [link EXCEPT ![b] = "resolve"]
        /\ scan' = [scan EXCEPT ![b] = {}]
        /\ UNCHANGED <<config, kv, snap, scanned>>
    BY <1>9 DEF Probe, WatchEnds, Reconnect, Goto, store
  <2> QED BY <1>2, <2>1 DEF SteadyEntry, Filled, TablesInv
<1>10. ASSUME NEW b \in Buckets, Destroy(b) PROVE SteadyEntry(c, t)'
  <2>1. /\ kv' = [kv EXCEPT ![b] = NoBucket]
        /\ steady' = {e \in steady : e[1] # b}
        /\ UNCHANGED <<config, watchers>>
    BY <1>10 DEF Destroy
  <2>2. c # b
    BY <2>1
  <2> QED BY <1>2, <2>1, <2>2 DEF SteadyEntry, Filled, TablesInv, watchers
<1>11. ASSUME NEW b \in Buckets, Create(b) PROVE SteadyEntry(c, t)'
  <2>1. /\ kv[b] = NoBucket /\ kv' = [kv EXCEPT ![b] = Empty[b]]
        /\ UNCHANGED <<config, watchers>>
    BY <1>11 DEF Create, Exists
  <2>2. c # b
    BY <1>2, <2>1 DEF SteadyEntry
  <2> QED BY <1>2, <2>1, <2>2 DEF SteadyEntry, Filled, TablesInv, watchers
<1>12. ASSUME NEW b \in Buckets, NEW s \in Slots[b], NEW v \in Values(b, s),
              Edit(b, s, v)
       PROVE  SteadyEntry(c, t)'
  <2>1. /\ kv[b] # NoBucket /\ kv' = [kv EXCEPT ![b][s] = v]
        /\ steady' = steady \ {<<b, s>>}
        /\ UNCHANGED <<config, working, snap, scan, link, scanned>>
    BY <1>12 DEF Edit, Exists, watchers
  <2>2. kv'[c] # NoBucket
    <3>1. CASE c = b
      <4>1. kv[b] \in Contents(b) /\ kv'[b] = [kv[b] EXCEPT ![s] = v]
        BY <2>1 DEF TablesInv
      <4> QED BY <3>1, <4>1, EditedContents, NoBucketAssumption
    <3>2. CASE c # b
      BY <1>2, <2>1, <3>2 DEF SteadyEntry, TablesInv
    <3> QED BY <3>1, <3>2
  <2> QED BY <1>1, <1>2, <2>1, <2>2 DEF SteadyEntry, Filled
<1> QED
  BY <1>4, <1>5, <1>6, <1>7, <1>8, <1>9, <1>10, <1>11, <1>12 DEF Next, Watch

\* What passing a gate and answering do to one request, and not to another.
LEMMA PassMoves ==
    ASSUME GatesInv, NEW r \in Requests, NEW from, NEW to, Pass(r, from, to)
    PROVE  /\ stage' = [q \in Requests |-> stage'[q]]
           /\ resp' = [q \in Requests |-> resp'[q]]
           /\ stage'[r] = to /\ resp'[r] = 0
           /\ \A q \in Requests \ {r} :
                 stage'[q] = stage[q] /\ resp'[q] = resp[q]
BY DEF Pass, GatesInv

LEMMA AnswerMoves ==
    ASSUME GatesInv, NEW r \in Requests, NEW from, NEW status,
           Answer(r, from, status)
    PROVE  /\ stage' = [q \in Requests |-> stage'[q]]
           /\ resp' = [q \in Requests |-> resp'[q]]
           /\ route' = [q \in Requests |-> route'[q]]
           /\ stage'[r] = "idle" /\ resp'[r] = status /\ route'[r] = None
           /\ \A q \in Requests \ {r} :
                 /\ stage'[q] = stage[q] /\ resp'[q] = resp[q]
                 /\ route'[q] = route[q]
BY DEF Answer, GatesInv

\* A gateway that has its tables keeps them, and only then takes a request in.
LEMMA GatesStep == GatesInv /\ [Next]_vars => GatesInv'
<1> SUFFICES ASSUME GatesInv, [Next]_vars PROVE GatesInv'
  OBVIOUS
<1>1. Ready => Ready'
  <2>1. config' = config /\ scanned \subseteq scanned'
    BY LoopsLearn, RequestsLeaveTables, TimeLeavesTables
    DEF Next, watchers, vars
  <2> QED
    BY <2>1 DEF Ready
<1>2. ASSUME UNCHANGED requests PROVE GatesInv'
  BY <1>1, <1>2 DEF GatesInv, requests
<1>3. ASSUME NEW r \in Requests, Handle(r) \/ Served(r) PROVE GatesInv'
  <2> DEFINE Moved ==
          /\ stage' = [q \in Requests |-> stage'[q]]
          /\ resp' = [q \in Requests |-> resp'[q]]
          /\ route' = [q \in Requests |-> route'[q]]
          /\ \A q \in Requests :
                stage'[q] = "body" => stage[q] = "body" \/ Ready
  <2>1. ASSUME Authenticate(r) \/ Resolve(r) \/ CheckBudget(r) PROVE Moved
    BY <2>1, PassMoves, AnswerMoves
    DEF Authenticate, Resolve, CheckBudget, GatesInv
  <2>2. ASSUME Admit(r) \/ BeginFetch(r) PROVE Moved
    BY <2>2, PassMoves, AnswerMoves DEF Admit, BeginFetch, Verdict, GatesInv
  <2>3. ASSUME Fetch(r) PROVE Moved
    BY <2>3, PassMoves, AnswerMoves DEF Fetch, GatesInv
  <2>4. ASSUME StoreReading(r) PROVE Moved
    BY <2>4, PassMoves, AnswerMoves DEF StoreReading, Verdict, GatesInv
  <2>5. ASSUME Publish(r) PROVE Moved
    BY <2>5, PassMoves, AnswerMoves DEF Publish, GatesInv
  <2>6. ASSUME Served(r) PROVE Moved
    BY <2>6, PassMoves, AnswerMoves DEF Served, GatesInv
  <2>7. Moved
    BY <1>3, <2>1, <2>2, <2>3, <2>4, <2>5, <2>6 DEF Handle
  <2> QED BY <1>1, <2>7 DEF GatesInv
<1>4. CASE \E b \in Buckets :
              \/ Watch(b) \/ Probe(b) \/ WatchEnds(b)
              \/ Destroy(b) \/ Create(b)
              \/ \E s \in Slots[b] : \E v \in Values(b, s) : Edit(b, s, v)
  BY <1>2, <1>4, WatchingAdmitsNothing
<1>5. CASE Tick \/ UNCHANGED vars
  BY <1>2, <1>5 DEF Tick, vars
<1> QED
  BY <1>3, <1>4, <1>5 DEF Next

\* What a handler answers, and where it sends a request, agrees with the
\* steady entries of the tables it reads.
LEMMA HandlersFollowSteadyEntries ==
    ASSUME SteadyInv, GatesInv, NEW r \in Requests, Handle(r) \/ Served(r)
    PROVE  /\ \A q \in Requests \ {r} :
                 resp'[q] = resp[q] /\ route'[q] = route[q]
           /\ <<"KEYS", "key">> \in steady /\ kv["KEYS"]["key"] # None
                 => resp'[r] # 401
           /\ \A s \in Slots["ALIASES"] :
                 <<"ALIASES", s>> \in steady /\ kv["ALIASES"][s] # None
                     => resp'[r] # 404
           /\ <<"ALIASES", "org">> \in steady /\ kv["ALIASES"]["org"] # None
                 => route'[r] \in {None, route[r], kv["ALIASES"]["org"]}
<1>1. /\ "key" \in Slots["KEYS"] /\ Slots["ALIASES"] = {"org", "_global"}
      /\ {"KEYS", "ALIASES"} \subseteq Buckets
  BY DEF Slots, Buckets
<1>2. Ready => Filled("KEYS") /\ Filled("ALIASES")
  BY DEF Ready, Filled
<1>3. ASSUME NEW b \in {"KEYS", "ALIASES"}, NEW s \in Slots[b],
             <<b, s>> \in steady, Ready
      PROVE  snap[b][s] = kv[b][s]
  BY <1>1, <1>2, <1>3 DEF SteadyInv, SteadyEntry
<1>4. CASE Authenticate(r)
  BY <1>1, <1>3, <1>4 DEF Authenticate, Answer, Pass, GatesInv
<1>5. CASE Resolve(r)
  <2>1. Ready
    BY <1>5 DEF Resolve, Answer, Pass, GatesInv
  <2> QED
    BY <1>1, <1>3, <1>5, <2>1
    DEF Resolve, Answer, Pass, ResolveAlias, GatesInv
<1>6. CASE CheckBudget(r) \/ Admit(r) \/ BeginFetch(r)
  BY <1>6, PassMoves, AnswerMoves DEF CheckBudget, Admit, BeginFetch, Verdict
<1>7. CASE Fetch(r)
  BY <1>7, PassMoves, AnswerMoves DEF Fetch
<1>8. CASE StoreReading(r)
  BY <1>8, PassMoves, AnswerMoves DEF StoreReading, Verdict
<1>9. CASE Publish(r)
  BY <1>9, PassMoves, AnswerMoves DEF Publish
<1>10. CASE Served(r)
  BY <1>10, PassMoves, AnswerMoves DEF Served
<1> QED
  BY <1>4, <1>5, <1>6, <1>7, <1>8, <1>9, <1>10 DEF Handle

LEMMA LookupStep == LookupInv /\ [Next]_vars => LookupInv'
<1> SUFFICES ASSUME TablesInv, SteadyInv, GatesInv, SteadyEntriesDecide,
                    [Next]_vars
             PROVE  SteadyEntriesDecide'
  BY TablesStep, SteadyStep, GatesStep DEF LookupInv
<1>1. /\ "key" \in Slots["KEYS"] /\ Slots["ALIASES"] = {"org", "_global"}
      /\ {"KEYS", "ALIASES"} \subseteq Buckets
  BY DEF Slots, Buckets
<1>2. \A c \in Buckets : \A t \in Slots[c] :
          <<c, t>> \in steady' =>
              <<c, t>> \in steady /\ kv'[c][t] = kv[c][t]
  BY SteadyEntriesKeep
<1>3. ASSUME UNCHANGED <<resp, route>> PROVE SteadyEntriesDecide'
  BY <1>1, <1>2, <1>3 DEF SteadyEntriesDecide
<1>4. ASSUME NEW r \in Requests, Handle(r) \/ Served(r)
      PROVE  SteadyEntriesDecide'
  BY <1>1, <1>2, <1>4, HandlersFollowSteadyEntries DEF SteadyEntriesDecide
<1>5. CASE \E b \in Buckets :
              \/ Watch(b) \/ Probe(b) \/ WatchEnds(b)
              \/ Destroy(b) \/ Create(b)
              \/ \E s \in Slots[b] : \E v \in Values(b, s) : Edit(b, s, v)
  BY <1>3, <1>5, WatchingAdmitsNothing DEF requests
<1>6. CASE Tick \/ UNCHANGED vars
  BY <1>3, <1>6 DEF Tick, vars, requests
<1> QED
  BY <1>4, <1>5, <1>6 DEF Next

\* A key and an alias that stay as they are decide every request, whatever is
\* replayed, lost and reconnected meanwhile: watchKV replaces a snapshot only
\* by a complete one.
THEOREM SteadyDecides == Spec => []SteadyEntriesDecide
<1>1. LookupInv => SteadyEntriesDecide
  BY DEF LookupInv
<1> QED
  BY <1>1, LookupInit, LookupStep, PTL DEF Spec

-----------------------------------------------------------------------------
(* Type correctness.                                                       *)

\* A set of indices has the least one, which RemoveFirst looks for.
LEMMA LeastIndex ==
    ASSUME NEW I \in SUBSET Nat, I # {}
    PROVE  Min(I) \in I
<1>1. PICK j \in I : \A k \in I : ~(<<k, j>> \in OpToRel(<, Nat))
  BY NatLessThanWellFounded, WFMin
<1>2. ASSUME NEW k \in I PROVE j <= k
  <2>1. j \in Nat /\ k \in Nat
    OBVIOUS
  <2>2. ~(k < j)
    BY <1>1, <2>1 DEF OpToRel
  <2> QED
    BY <2>1, <2>2
<1> QED
  BY <1>2 DEF Min

\* A sequence without the first e has everything else the sequence has.
LEMMA AllButOne ==
    ASSUME NEW S, NEW s \in Seq(S), NEW e
    PROVE  /\ RemoveFirst(s, e) \in Seq(S)
           /\ Range(s) \ {e} \subseteq Range(RemoveFirst(s, e))
<1>1. CASE ~ \E i \in 1..Len(s) : s[i] = e
  BY <1>1 DEF RemoveFirst
<1>2. CASE \E i \in 1..Len(s) : s[i] = e
  <2>1. PICK k \in 1..Len(s) : s[k] = e /\ RemoveFirst(s, e) = RemoveAt(s, k)
    <3> DEFINE I == {i \in 1..Len(s) : s[i] = e}
    <3>1. I # {} /\ I \in SUBSET Nat
      BY <1>2
    <3>2. Min(I) \in I
      <4> HIDE DEF I
      <4> QED BY <3>1, LeastIndex
    <3>3. SelectInSeq(s, LAMBDA v : v = e) = Min(I)
      BY <3>1 DEF SelectInSeq
    <3>4. RemoveFirst(s, e) = RemoveAt(s, Min(I))
      BY <1>2, <3>3 DEF RemoveFirst
    <3> QED
      BY <3>2, <3>4
  <2> DEFINE u == SubSeq(s, 1, k - 1)
             w == SubSeq(s, k + 1, Len(s))
  <2>2. Len(s) \in Nat /\ \A i \in 1..Len(s) : s[i] \in S
    OBVIOUS
  <2>3. /\ u \in Seq(S) /\ Len(u) = k - 1
        /\ \A i \in 1..k - 1 : u[i] = s[i]
    <3>1. \A i \in 1..k - 1 : s[i] \in S
      BY <2>2
    <3>2. /\ SubSeq(s, 1, k - 1) \in Seq(S)
          /\ Len(SubSeq(s, 1, k - 1)) =
                IF 1 <= k - 1 THEN (k - 1) - 1 + 1 ELSE 0
          /\ \A i \in 1..(k - 1) - 1 + 1 :
                SubSeq(s, 1, k - 1)[i] = s[1 + i - 1]
      BY <3>1, SubSeqProperties
    <3> QED
      BY <3>2
  <2>4. /\ w \in Seq(S) /\ Len(w) = Len(s) - k
        /\ \A i \in 1..Len(s) - k : w[i] = s[k + i]
    <3>1. \A i \in k + 1..Len(s) : s[i] \in S
      BY <2>2
    <3>2. /\ SubSeq(s, k + 1, Len(s)) \in Seq(S)
          /\ Len(SubSeq(s, k + 1, Len(s))) =
                IF k + 1 <= Len(s) THEN Len(s) - (k + 1) + 1 ELSE 0
          /\ \A i \in 1..Len(s) - (k + 1) + 1 :
                SubSeq(s, k + 1, Len(s))[i] = s[(k + 1) + i - 1]
      BY <3>1, SubSeqProperties
    <3> QED
      BY <2>2, <3>2
  <2> DEFINE t == u \o w
  <2>5. RemoveFirst(s, e) = t
    BY <2>1 DEF RemoveAt
  <2> HIDE DEF u, w
  <2>6. /\ t \in Seq(S) /\ Len(t) = Len(u) + Len(w)
        /\ \A i \in 1..Len(u) + Len(w) :
              t[i] = IF i <= Len(u) THEN u[i] ELSE w[i - Len(u)]
    <3>1. u \in Seq(S) /\ w \in Seq(S)
      BY <2>3, <2>4
    <3> QED
      BY <3>1, ConcatProperties
  <2>7. ASSUME NEW i \in 1..Len(s), i # k
        PROVE  \E j \in 1..Len(t) : t[j] = s[i]
    <3>1. CASE i < k
      <4>1. i \in 1..Len(u) + Len(w) /\ i <= Len(u) /\ u[i] = s[i]
        BY <2>2, <2>3, <2>4, <3>1
      <4> QED
        BY <2>6, <4>1
    <3>2. CASE i > k
      <4>1. /\ i - 1 \in 1..Len(u) + Len(w) /\ ~(i - 1 <= Len(u))
            /\ (i - 1) - Len(u) = i - k
        BY <2>2, <2>3, <2>4, <3>2
      <4>2. w[i - k] = s[i]
        <5>1. i - k \in 1..Len(s) - k /\ k + (i - k) = i
          BY <2>2, <3>2
        <5> QED
          BY <2>4, <5>1
      <4> QED
        BY <2>6, <4>1, <4>2
    <3> QED
      BY <2>2, <2>7, <3>1, <3>2
  <2>8. Range(s) \ {e} \subseteq Range(t)
    <3> SUFFICES ASSUME NEW x \in Range(s), x # e PROVE x \in Range(t)
      OBVIOUS
    <3>1. PICK i \in 1..Len(s) : s[i] = x
      BY DEF Range
    <3>2. i # k
      BY <2>1, <3>1
    <3>3. PICK j \in 1..Len(t) : t[j] = x
      BY <2>7, <3>1, <3>2
    <3>4. DOMAIN t = 1..Len(t)
      BY <2>6
    <3> QED
      BY <3>3, <3>4 DEF Range
  <2> QED
    BY <2>5, <2>6, <2>8
<1> QED
  BY <1>1, <1>2

\* A watch loop delivers entries of its bucket, those of the initial replay
\* first, and works on tables of it.
WatchTypes(b) ==
    /\ working[b] \in Contents(b) /\ snap[b] \in Contents(b)
    /\ due[b] \in Seq(Slots[b]) /\ scan[b] \subseteq Range(due[b])
    /\ link[b] \in {"off", "resolve", "watch", "scan", "synced"}

WatchInv == \A b \in Buckets : WatchTypes(b)

LEMMA WatchInit == Init => WatchInv
<1> SUFFICES ASSUME Init, NEW b \in Buckets PROVE WatchTypes(b)
  BY DEF WatchInv
<1>1. TablesInv
  BY LookupInit DEF LookupInv
<1>2. /\ working[b] = Empty[b] /\ due[b] = << >> /\ scan[b] = {}
      /\ link[b] \in {"off", "resolve"}
      /\ snap[b] = Empty[b]
            \/ (config.iam = "static" /\ b # "BUDGETS" /\ snap[b] = kv[b])
  BY DEF Init
<1>3. ASSUME config.iam = "static", b # "BUDGETS" PROVE kv[b] # NoBucket
  <2>1. kv["ALIASES"] # NoBucket
    BY <1>3 DEF Init
  <2>2. PICK keys \in Contents("KEYS"), aliases \in Contents("ALIASES"),
             absent \in {{}, Buckets} :
           kv = [c \in Buckets |->
                   CASE c \in absent -> NoBucket
                     [] c = "KEYS" /\ c \notin absent -> keys
                     [] c = "ALIASES" /\ c \notin absent -> aliases
                     [] c = "BUDGETS" /\ c \notin absent -> Empty[c]]
    BY FirstBuckets
  <2>3. absent = {}
    BY <2>1, <2>2 DEF Buckets
  <2>4. kv[b] \in {keys, aliases}
    BY <1>3, <2>2, <2>3 DEF Buckets
  <2> QED
    BY <1>3, <2>2, <2>3, NoBucketAssumption DEF Buckets
<1>4. snap[b] \in Contents(b)
  BY <1>1, <1>2, <1>3, ContentsAreFunctions DEF TablesInv
<1> QED
  BY <1>2, <1>4, ContentsAreFunctions DEF WatchTypes

\* A step of one watch loop leaves the others as they are.
LEMMA OneLoop ==
    ASSUME WatchInv, NEW b \in Buckets, WatchTypes(b)',
           \A c \in Buckets \ {b} :
              /\ working'[c] = working[c] /\ snap'[c] = snap[c]
              /\ due'[c] = due[c] /\ scan'[c] = scan[c]
              /\ link'[c] = link[c]
    PROVE  WatchInv'
<1> SUFFICES ASSUME NEW c \in Buckets, c # b PROVE WatchTypes(c)'
  BY DEF WatchInv
<1>1. WatchTypes(c)
  BY DEF WatchInv
<1> QED
  BY <1>1 DEF WatchTypes

LEMMA LoopMoves ==
    ASSUME TablesInv, WatchInv, NEW b \in Buckets,
           ResolveBucket(b) \/ WatchFails(b)
    PROVE  WatchInv'
<1>1. /\ UNCHANGED <<working, snap, due, scan>>
      /\ link' \in {[link EXCEPT ![b] = "watch"],
                    [link EXCEPT ![b] = "resolve"]}
  BY DEF ResolveBucket, WatchFails, Goto
<1>2. /\ link'[b] \in {"watch", "resolve"}
      /\ \A c \in Buckets \ {b} : link'[c] = link[c]
  BY <1>1 DEF TablesInv
<1> QED
  BY <1>1, <1>2, OneLoop DEF WatchTypes, WatchInv

LEMMA LoopWatches ==
    ASSUME TablesInv, WatchInv, NEW b \in Buckets, WatchBucket(b)
    PROVE  WatchInv'
<1> DEFINE S == {s \in Slots[b] : kv[b][s] # None}
<1>1. PICK order \in SetToSeqs(S) :
         /\ due' = [due EXCEPT ![b] = order]
         /\ scan' = [scan EXCEPT ![b] = Range(due'[b])]
         /\ working' = [working EXCEPT ![b] = Empty[b]]
         /\ link' = [link EXCEPT ![b] = "scan"]
         /\ UNCHANGED snap
  BY DEF WatchBucket, Goto
<1>2. order \in Seq(Slots[b])
  <2>1. IsFiniteSet(S)
    BY SlotsAreFinite, FS_Subset
  <2>2. Cardinality(S) \in Nat
    BY <2>1, FS_CardinalityType
  <2>3. order \in [1..Cardinality(S) -> Slots[b]]
    BY DEF SetToSeqs
  <2> HIDE DEF S
  <2> QED
    BY <2>2, <2>3
<1> HIDE DEF S
<1>3. /\ due'[b] = order /\ scan'[b] = Range(due'[b])
      /\ working'[b] = Empty[b] /\ link'[b] = "scan"
  BY <1>1 DEF TablesInv
<1>4. \A c \in Buckets \ {b} :
         /\ working'[c] = working[c] /\ snap'[c] = snap[c]
         /\ due'[c] = due[c] /\ scan'[c] = scan[c] /\ link'[c] = link[c]
  BY <1>1 DEF TablesInv
<1>5. WatchTypes(b)'
  <2>1. snap'[b] \in Contents(b)
    BY <1>1 DEF WatchInv, WatchTypes
  <2>2. Contents(b)' = Contents(b)
    BY DEF Contents, Slots, Values
  <2> QED
    BY <1>2, <1>3, <2>1, ContentsAreFunctions DEF WatchTypes
<1> QED
  BY <1>4, <1>5, OneLoop

LEMMA LoopDelivers ==
    ASSUME TablesInv, WatchInv, NEW b \in Buckets, Deliver(b)
    PROVE  WatchInv'
<1>1. /\ due[b] \in Seq(Slots[b]) /\ due[b] # << >>
      /\ scan[b] \subseteq Range(due[b])
      /\ working[b] \in Contents(b) /\ snap[b] \in Contents(b)
      /\ kv[b] \in Contents(b)
  BY DEF Deliver, Attached, Exists, TablesInv, WatchInv, WatchTypes
<1>2. PICK s \in Slots[b] : s = Head(due[b])
  BY <1>1, HeadTailProperties
<1>3. /\ working' = [working EXCEPT ![b][s] = kv[b][s]]
      /\ scan' = [scan EXCEPT ![b] = @ \ {s}]
      /\ due' = [due EXCEPT ![b] = Tail(@)]
      /\ snap' \in {snap, [snap EXCEPT ![b] = working'[b]]}
      /\ UNCHANGED link
  BY <1>2 DEF Deliver
<1>4. /\ working'[b] = [working[b] EXCEPT ![s] = kv[b][s]]
      /\ scan'[b] = scan[b] \ {s} /\ due'[b] = Tail(due[b])
      /\ snap'[b] \in {snap[b], working'[b]}
  BY <1>3 DEF TablesInv
<1>5. \A c \in Buckets \ {b} :
         /\ working'[c] = working[c] /\ snap'[c] = snap[c]
         /\ due'[c] = due[c] /\ scan'[c] = scan[c] /\ link'[c] = link[c]
  BY <1>3 DEF TablesInv
<1>6. working'[b] \in Contents(b)
  <2>1. kv[b][s] \in Values(b, s)
    BY <1>1 DEF Contents
  <2> QED
    BY <1>1, <1>4, <2>1, EditedContents
<1>7. due'[b] \in Seq(Slots[b]) /\ scan'[b] \subseteq Range(due'[b])
  <2>1. /\ Tail(due[b]) \in Seq(Slots[b])
        /\ Len(Tail(due[b])) = Len(due[b]) - 1
        /\ \A i \in 1..Len(Tail(due[b])) : Tail(due[b])[i] = due[b][i + 1]
    BY <1>1, HeadTailProperties
  <2>2. ASSUME NEW x \in Range(due[b]), x # s PROVE x \in Range(Tail(due[b]))
    <3>1. PICK i \in 1..Len(due[b]) : due[b][i] = x
      BY <1>1 DEF Range
    <3>2. i # 1
      BY <1>1, <1>2, <2>2, <3>1
    <3>3. i - 1 \in 1..Len(Tail(due[b])) /\ (i - 1) + 1 = i
      BY <1>1, <2>1, <3>2
    <3>4. Tail(due[b])[i - 1] = x
      BY <2>1, <3>1, <3>3
    <3>5. DOMAIN Tail(due[b]) = 1..Len(Tail(due[b]))
      BY <2>1
    <3> QED
      BY <3>3, <3>4, <3>5 DEF Range
  <2> QED
    BY <1>1, <1>4, <2>1, <2>2
<1>8. link'[b] \in {"off", "resolve", "watch", "scan", "synced"}
  BY <1>3 DEF WatchInv, WatchTypes
<1>9. WatchTypes(b)'
  BY <1>1, <1>4, <1>6, <1>7, <1>8 DEF WatchTypes
<1> QED
  BY <1>5, <1>9, OneLoop

LEMMA LoopSyncs ==
    ASSUME TablesInv, WatchInv, NEW b \in Buckets, Sync(b)
    PROVE  WatchInv'
<1>1. /\ link' = [link EXCEPT ![b] = "synced"]
      /\ snap' = [snap EXCEPT ![b] = working[b]]
      /\ UNCHANGED <<working, due, scan>>
  BY DEF Sync, Goto
<1>2. link'[b] = "synced" /\ snap'[b] = working[b]
  BY <1>1 DEF TablesInv
<1>3. \A c \in Buckets \ {b} : link'[c] = link[c] /\ snap'[c] = snap[c]
  BY <1>1 DEF TablesInv
<1>4. WatchTypes(b)'
  BY <1>1, <1>2 DEF WatchInv, WatchTypes
<1> QED
  BY <1>1, <1>3, <1>4, OneLoop

LEMMA LoopReconnects ==
    ASSUME TablesInv, WatchInv, NEW b \in Buckets, Reconnect(b)
    PROVE  WatchInv'
<1>1. /\ link' = [link EXCEPT ![b] = "resolve"]
      /\ due' = [due EXCEPT ![b] = << >>]
      /\ scan' = [scan EXCEPT ![b] = {}]
      /\ working' = [working EXCEPT ![b] = Empty[b]]
      /\ UNCHANGED snap
  BY DEF Reconnect, Goto
<1>2. /\ link'[b] = "resolve" /\ due'[b] = << >> /\ scan'[b] = {}
      /\ working'[b] = Empty[b]
  BY <1>1 DEF TablesInv
<1>3. \A c \in Buckets \ {b} :
         /\ working'[c] = working[c] /\ snap'[c] = snap[c]
         /\ due'[c] = due[c] /\ scan'[c] = scan[c] /\ link'[c] = link[c]
  BY <1>1 DEF TablesInv
<1>4. WatchTypes(b)'
  <2>1. snap'[b] \in Contents(b)
    BY <1>1 DEF WatchInv, WatchTypes
  <2> QED
    BY <1>2, <2>1, ContentsAreFunctions DEF WatchTypes
<1> QED
  BY <1>3, <1>4, OneLoop

\* An entry that changes moves to the end of what is due.
LEMMA LoopHears ==
    ASSUME TablesInv, WatchInv, NEW b \in Buckets, NEW s \in Slots[b],
           NEW v, Edit(b, s, v)
    PROVE  WatchInv'
<1>1. /\ UNCHANGED <<link, scan, working, snap>>
      /\ \/ due' = due
         \/ due' = [due EXCEPT ![b] = Append(RemoveFirst(due[b], s), s)]
  BY DEF Edit
<1>2. CASE due' = due
  BY <1>1, <1>2 DEF WatchInv, WatchTypes
<1>3. CASE due' = [due EXCEPT ![b] = Append(RemoveFirst(due[b], s), s)]
  <2> DEFINE d == RemoveFirst(due[b], s)
  <2>1. due[b] \in Seq(Slots[b]) /\ scan[b] \subseteq Range(due[b])
    BY DEF WatchInv, WatchTypes
  <2>2. d \in Seq(Slots[b]) /\ Range(due[b]) \ {s} \subseteq Range(d)
    BY <2>1, AllButOne
  <2>3. due'[b] = Append(d, s) /\ \A c \in Buckets \ {b} : due'[c] = due[c]
    BY <1>3 DEF TablesInv
  <2> HIDE DEF d
  <2>4. /\ Append(d, s) \in Seq(Slots[b])
        /\ Len(Append(d, s)) = Len(d) + 1
        /\ \A i \in 1..Len(d) : Append(d, s)[i] = d[i]
        /\ Append(d, s)[Len(d) + 1] = s
    BY <2>2, AppendProperties
  <2>5. Range(d) \union {s} \subseteq Range(Append(d, s))
    <3>1. /\ DOMAIN d = 1..Len(d) /\ Len(d) \in Nat
          /\ DOMAIN Append(d, s) = 1..Len(d) + 1
      BY <2>2, <2>4
    <3> QED
      BY <2>4, <3>1 DEF Range
  <2>6. scan[b] \subseteq Range(Append(d, s))
    BY <2>1, <2>2, <2>5
  <2>7. WatchTypes(b)'
    BY <1>1, <2>3, <2>4, <2>6 DEF WatchInv, WatchTypes
  <2> QED
    BY <1>1, <2>3, <2>7, OneLoop
<1> QED
  BY <1>1, <1>2, <1>3

LEMMA WatchStep == TablesInv /\ WatchInv /\ [Next]_vars => WatchInv'
<1> SUFFICES ASSUME TablesInv, WatchInv, [Next]_vars PROVE WatchInv'
  OBVIOUS
<1>1. ASSUME UNCHANGED watchers PROVE WatchInv'
  BY <1>1 DEF WatchInv, WatchTypes, watchers
<1>2. ASSUME NEW b \in Buckets, Watch(b) PROVE WatchInv'
  BY <1>2, LoopMoves, LoopWatches, LoopDelivers, LoopSyncs DEF Watch
<1>3. ASSUME NEW b \in Buckets, Probe(b) \/ WatchEnds(b) PROVE WatchInv'
  BY <1>3, LoopReconnects DEF Probe, WatchEnds
<1>4. ASSUME NEW b \in Buckets, Destroy(b) \/ Create(b) PROVE WatchInv'
  BY <1>4, <1>1 DEF Destroy, Create
<1>5. ASSUME NEW b \in Buckets, NEW s \in Slots[b], NEW v \in Values(b, s),
             Edit(b, s, v)
      PROVE  WatchInv'
  BY <1>5, LoopHears
<1>6. ASSUME NEW r \in Requests, Handle(r) \/ Served(r) PROVE WatchInv'
  BY <1>6, <1>1
  DEF Handle, Served, Authenticate, Resolve, CheckBudget, Admit, BeginFetch,
      Fetch, StoreReading, Publish
<1>7. CASE Tick \/ UNCHANGED vars
  BY <1>7, <1>1 DEF Tick, vars
<1> QED
  BY <1>2, <1>3, <1>4, <1>5, <1>6, <1>7 DEF Next

\* What a request holds comes from the tables, and its answer from a gate.
Statuses == {0, 200, 400, 401, 402, 403, 404, 429, 503}
Target(t) == \E s \in Slots["ALIASES"] : t \in Values("ALIASES", s)

RequestsInv ==
    /\ may \in [Requests -> Values("KEYS", "key")]
    /\ \A r \in Requests : Target(route[r])
    /\ resp \in [Requests -> Statuses]

LEMMA TablesHoldValues ==
    ASSUME WatchInv
    PROVE  /\ snap["KEYS"]["key"] \in Values("KEYS", "key")
           /\ None \in Values("KEYS", "key")
           /\ Target(ResolveAlias) /\ Target(None)
<1>1. /\ "KEYS" \in Buckets /\ "ALIASES" \in Buckets
      /\ Slots["KEYS"] = {"key"} /\ Slots["ALIASES"] = {"org", "_global"}
  BY DEF Buckets, Slots
<1>2. /\ snap["KEYS"] \in Contents("KEYS")
      /\ snap["ALIASES"] \in Contents("ALIASES")
  BY <1>1 DEF WatchInv, WatchTypes
<1>3. /\ snap["KEYS"]["key"] \in Values("KEYS", "key")
      /\ \A s \in Slots["ALIASES"] :
            snap["ALIASES"][s] \in Values("ALIASES", s)
  BY <1>1, <1>2 DEF Contents
<1>4. \A b \in Buckets : \A s \in Slots[b] : None \in Values(b, s)
  BY DEF Values
<1>5. Target(ResolveAlias) /\ Target(None)
  BY <1>1, <1>3, <1>4 DEF Target, ResolveAlias
<1> QED
  BY <1>1, <1>3, <1>4, <1>5

\* One request is answered or passes, with a route it had or has just got.
LEMMA OneRequest ==
    ASSUME RequestsInv, GatesInv, NEW r \in Requests,
           NEW m \in Values("KEYS", "key"), NEW t, Target(t),
           NEW status \in Statuses,
           may' \in {may, [may EXCEPT ![r] = m]},
           route' \in {route, [route EXCEPT ![r] = t]},
           resp' = [resp EXCEPT ![r] = status]
    PROVE  RequestsInv'
<1>1. may' \in [Requests -> Values("KEYS", "key")]
  BY DEF RequestsInv
<1>2. resp' \in [Requests -> Statuses]
  BY DEF RequestsInv
<1>3. \A q \in Requests : route'[q] \in {route[q], t}
  BY DEF GatesInv
<1>4. \A q \in Requests : Target(route'[q])
  BY <1>3 DEF RequestsInv
<1> QED
  BY <1>1, <1>2, <1>4 DEF RequestsInv, Target, Values, Slots

LEMMA AnswersTyped ==
    ASSUME WatchInv, RequestsInv, GatesInv, NEW r \in Requests, NEW from,
           NEW status \in Statuses, Answer(r, from, status)
    PROVE  RequestsInv'
BY TablesHoldValues, OneRequest DEF Answer

LEMMA PassesTyped ==
    ASSUME WatchInv, RequestsInv, GatesInv, NEW r \in Requests, NEW from,
           NEW to, Pass(r, from, to), UNCHANGED <<may, route>>
    PROVE  RequestsInv'
<1>1. 0 \in Statuses
  BY DEF Statuses
<1> QED
  BY <1>1, TablesHoldValues, OneRequest DEF Pass

LEMMA RequestsStep ==
    WatchInv /\ RequestsInv /\ GatesInv /\ [Next]_vars => RequestsInv'
<1> SUFFICES ASSUME WatchInv, RequestsInv, GatesInv, [Next]_vars
             PROVE  RequestsInv'
  OBVIOUS
<1>1. {0, 200, 400, 401, 402, 403, 404, 429, 503} = Statuses
  BY DEF Statuses
<1>2. ASSUME UNCHANGED requests PROVE RequestsInv'
  BY <1>2 DEF RequestsInv, requests, Target, Values, Slots
<1>3. ASSUME NEW r \in Requests, Authenticate(r) PROVE RequestsInv'
  <2>1. CASE \/ Answer(r, "idle", 503) \/ Answer(r, "idle", 401)
    BY <1>1, <2>1, AnswersTyped
  <2>2. CASE /\ Pass(r, "idle", "body") /\ UNCHANGED route
             /\ may' = [may EXCEPT ![r] = snap["KEYS"]["key"]]
    <3>1. PICK m \in Values("KEYS", "key") : m = snap["KEYS"]["key"]
      BY TablesHoldValues
    <3>2. /\ may' = [may EXCEPT ![r] = m] /\ route' = route
          /\ resp' = [resp EXCEPT ![r] = 0]
      BY <2>2, <3>1 DEF Pass
    <3>3. 0 \in Statuses /\ Target(None)
      BY <1>1, TablesHoldValues
    <3> QED
      BY <3>2, <3>3, OneRequest
  <2> QED
    BY <1>3, <2>1, <2>2 DEF Authenticate
<1>4. ASSUME NEW r \in Requests, Resolve(r) PROVE RequestsInv'
  <2>1. CASE \/ Answer(r, "body", 400) \/ Answer(r, "body", 404)
             \/ Answer(r, "body", 403)
    BY <1>1, <2>1, AnswersTyped
  <2>2. CASE /\ Pass(r, "body", "budget")
             /\ route' = [route EXCEPT ![r] = ResolveAlias]
             /\ may' = [may EXCEPT ![r] = None]
    <3>1. PICK t : t = ResolveAlias /\ Target(t)
      BY TablesHoldValues
    <3>2. /\ may' = [may EXCEPT ![r] = None]
          /\ route' = [route EXCEPT ![r] = t]
          /\ resp' = [resp EXCEPT ![r] = 0]
      BY <2>2, <3>1 DEF Pass
    <3>3. 0 \in Statuses /\ None \in Values("KEYS", "key")
      BY <1>1, TablesHoldValues
    <3> QED
      BY <3>1, <3>2, <3>3, OneRequest
  <2> QED
    BY <1>4, <2>1, <2>2 DEF Resolve
<1>5. ASSUME NEW r \in Requests, CheckBudget(r) PROVE RequestsInv'
  BY <1>1, <1>5, AnswersTyped, PassesTyped DEF CheckBudget
<1>6. ASSUME NEW r \in Requests, Admit(r) \/ StoreReading(r)
      PROVE  RequestsInv'
  BY <1>1, <1>6, AnswersTyped, PassesTyped DEF Admit, StoreReading, Verdict
<1>7. ASSUME NEW r \in Requests, BeginFetch(r) \/ Fetch(r) PROVE RequestsInv'
  BY <1>7, PassesTyped DEF BeginFetch, Fetch
<1>8. ASSUME NEW r \in Requests, Publish(r) \/ Served(r) PROVE RequestsInv'
  <2>1. CASE Answer(r, "publish", 503) \/ Answer(r, "queued", 200)
    BY <1>1, <2>1, AnswersTyped
  <2>2. CASE Pass(r, "publish", "queued") /\ UNCHANGED <<may, route>>
    BY <2>2, PassesTyped
  <2> QED
    BY <1>8, <2>1, <2>2 DEF Publish, Served
<1>9. CASE \E b \in Buckets :
              \/ Watch(b) \/ Probe(b) \/ WatchEnds(b)
              \/ Destroy(b) \/ Create(b)
              \/ \E s \in Slots[b] : \E v \in Values(b, s) : Edit(b, s, v)
  BY <1>2, <1>9, WatchingAdmitsNothing
<1>10. CASE Tick \/ UNCHANGED vars
  BY <1>2, <1>10 DEF Tick, vars
<1> QED
  BY <1>3, <1>4, <1>5, <1>6, <1>7, <1>8, <1>9, <1>10 DEF Next, Handle

\* Only buckets are scanned, only entries are steady, and no more faults
\* happen than may.
LedgerInv ==
    /\ scanned \subseteq Buckets /\ steady \subseteq Entries
    /\ left \in 0..MaxFaults

LEMMA LedgerStep == LedgerInv /\ [Next]_vars => LedgerInv'
<1> SUFFICES ASSUME LedgerInv, [Next]_vars PROVE LedgerInv'
  OBVIOUS
<1>1. scanned' = scanned \/ \E b \in Buckets : scanned' = scanned \union {b}
  BY LoopsLearn, RequestsLeaveTables, TimeLeavesTables DEF Next, watchers, vars
<1>2. steady' \subseteq steady
  BY LoopsLearn, RequestsLeaveTables, TimeLeavesTables DEF Next, store, vars
<1>3. left' = left \/ (left > 0 /\ left' = left - 1)
  <2>1. ASSUME NEW b \in Buckets, Watch(b) PROVE left' = left
    BY <2>1 DEF Watch, ResolveBucket, WatchBucket, WatchFails, Deliver, Sync
  <2>2. ASSUME NEW b \in Buckets,
               Probe(b) \/ WatchEnds(b) \/ Destroy(b) \/ Create(b)
        PROVE  left' = left \/ Spend("watch") \/ Spend("destroy")
    BY <2>2 DEF Probe, WatchEnds, Destroy, Create
  <2>3. ASSUME NEW b \in Buckets, NEW s, NEW v, Edit(b, s, v)
        PROVE  Spend("edit")
    BY <2>3 DEF Edit
  <2>4. ASSUME NEW r \in Requests, Handle(r) \/ Served(r)
        PROVE  left' = left \/ Spend("fetch")
    BY <2>4 DEF Handle, Served, Authenticate, Resolve, CheckBudget, Admit,
                BeginFetch, Fetch, StoreReading, Publish
  <2>5. CASE Tick \/ UNCHANGED vars
    BY <2>5 DEF Tick, vars
  <2> QED
    BY <2>1, <2>2, <2>3, <2>4, <2>5 DEF Next, Spend
<1>4. left' \in 0..MaxFaults
  BY <1>3 DEF LedgerInv
<1> QED
  BY <1>1, <1>2, <1>4 DEF LedgerInv, Entries, Slots

\* Each table, due entry, allowlist, route and answer is one there is: what
\* consumeKV decodes and dispatch looks up.
THEOREM GatewayTyped == Spec => []TypeOK
<1> DEFINE Typed == /\ SeenInv /\ AdmissionInv /\ LookupInv
                    /\ WatchInv /\ RequestsInv /\ LedgerInv
<1>1. Init => RequestsInv /\ LedgerInv
  <2> SUFFICES ASSUME Init PROVE RequestsInv /\ LedgerInv
    OBVIOUS
  <2>1. RequestsInv
    <3>1. /\ may = [r \in Requests |-> None]
          /\ route = [r \in Requests |-> None]
          /\ resp = [r \in Requests |-> 0]
      BY DEF Init
    <3> QED
      BY <3>1, WatchInit, TablesHoldValues DEF RequestsInv, Statuses
  <2>2. LedgerInv
    BY DEF Init, LedgerInv
  <2> QED
    BY <2>1, <2>2
<1>2. Init => Typed
  BY <1>1, SeenInduction, AdmissionInit, LookupInit, WatchInit
<1>3. Typed /\ [Next]_vars => Typed'
  BY SeenStep, AdmissionStep, LookupStep, WatchStep, RequestsStep, LedgerStep
  DEF LookupInv
<1>4. Typed => TypeOK
  <2> SUFFICES ASSUME Typed PROVE TypeOK
    OBVIOUS
  <2>1. \A b \in Buckets :
           /\ kv[b] \in Contents(b) \union {NoBucket}
           /\ working[b] \in Contents(b)
           /\ snap[b] \in Contents(b)
           /\ due[b] \in Seq(Slots[b])
           /\ scan[b] \subseteq Range(due[b])
    BY DEF LookupInv, TablesInv, WatchInv, WatchTypes
  <2>2. link \in [Buckets -> {"off", "resolve", "watch", "scan", "synced"}]
    BY DEF LookupInv, TablesInv, WatchInv, WatchTypes
  <2>3. /\ made \in [Buckets -> Nat]
        /\ base \in [Buckets -> Nat] /\ on \in [Buckets -> Nat]
    BY DEF SeenInv
  <2>4. /\ may \in [Requests -> Values("KEYS", "key")]
        /\ \A r \in Requests : \E s \in Slots["ALIASES"] :
              route[r] \in Values("ALIASES", s)
        /\ resp \in [Requests -> {0, 200, 400, 401, 402, 403, 404, 429, 503}]
    BY DEF RequestsInv, Target, Statuses
  <2>5. AdmissionTypes /\ LedgerInv
    BY DEF AdmissionInv
  <2> QED
    BY <2>1, <2>2, <2>3, <2>4, <2>5
    DEF TypeOK, AdmissionTypes, LedgerInv, Stages
<1>5. QED
  BY <1>2, <1>3, <1>4, PTL DEF Spec

=============================================================================
