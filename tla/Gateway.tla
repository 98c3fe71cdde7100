-------------------------------- MODULE Gateway --------------------------------
(***************************************************************************)
(* The gateway in front of the queue: the snapshots of KEYS, ALIASES and   *)
(* BUDGETS kept by a watch loop each (internal/gateway/kviam.go), the      *)
(* gates a request passes one after the other (dispatch in gateway.go) and *)
(* admission control on a cached backlog (admission.go).                   *)
(*                                                                         *)
(* There is one key, one alias that may be defined for its org and         *)
(* globally, and one model.  A tick of the clock is half a second.         *)
(***************************************************************************)
EXTENDS Naturals, Sequences, FiniteSets, SequencesExt

CONSTANTS
    None,      \* no entry
    NoBucket,  \* a bucket that does not exist
    Targets,   \* what the alias may resolve to, for the org and globally
    Requests,  \* the handlers that may run concurrently
    Configs,   \* the deployments: iam "static" or "kv", admission's limit
               \* for the model (0 when off), and how many handlers are busy
    Faults,    \* what may happen in this instance
    MaxFaults  \* bound: how often

Buckets == {"KEYS", "ALIASES", "BUDGETS"}
CacheTTL == 2      \* ticks in admissionCacheTTL
FetchTimeout == 1  \* ticks in admissionFetchTimeout

ASSUME GatewayAssumption ==
    /\ IsFiniteSet(Requests)
    /\ \A c \in Configs : /\ c.iam \in {"static", "kv"}
                          /\ c.limit \in Nat
                          /\ c.busy \in SUBSET Requests
    /\ MaxFaults \in Nat
    /\ Faults \subseteq {"edit",     \* an entry is put or deleted
                         "destroy",  \* a bucket is destroyed
                         "watch",    \* a watch or a probe fails
                         "fetch"}    \* a backlog reading fails

VARIABLES
    config,   \* the deployment
    kv,       \* the content of a bucket
    made,     \* which incarnation of a bucket exists: its Created
    link,     \* where a watch loop is
    base,     \* the Created its probe compares with
    on,       \* the incarnation its watcher reads
    due,      \* the entries its watcher has yet to deliver, oldest first
    scan,     \* those of them that belong to the initial replay
    working,  \* consumeKV's working
    snap,     \* k.keys, k.aliases, k.budgets
    scanned,  \* the buckets whose ready channel is closed
    stage,    \* how far a request has come
    may,      \* the allowlist of its key, when it authenticated
    route,    \* the target it resolved to
    resp,     \* the status of the last answer
    cache,    \* the cached backlog and its age
    reading,  \* the backlog a fetch has read
    wait,     \* ticks a fetch has taken
    clear,    \* history: ticks since the backlog was below the limit, or
              \* could not be read
    full,     \* history: ticks since it was not below the limit
    steady,   \* history: the entries that have always been as they are
    left      \* bound: the faults that may still happen

store == <<kv, made, steady>>
watchers == <<link, base, on, due, scan, working, snap, scanned>>
requests == <<stage, may, route, resp>>
admission == <<cache, reading, wait>>
clocks == <<clear, full>>
vars == <<config, store, watchers, requests, admission, clocks, left>>

Slots == [b \in Buckets |-> IF b = "ALIASES" THEN {"org", "_global"}
                                             ELSE {"key"}]
Values(b, s) == {None} \union CASE b = "KEYS"    -> {"allowed", "denied"}
                                [] b = "ALIASES" -> Targets[s]
                                [] b = "BUDGETS" -> {"exceeded"}
Contents(b) == {c \in [Slots[b] -> UNION {Values(b, s) : s \in Slots[b]}] :
                   \A s \in Slots[b] : c[s] \in Values(b, s)}
ASSUME NoBucketAssumption == \A b \in Buckets : NoBucket \notin Contents(b)

Empty == [b \in Buckets |-> [s \in Slots[b] |-> None]]
Entries == UNION {{b} \X Slots[b] : b \in Buckets}

Ages == 0..CacheTTL + FetchTimeout
NoReading == [known |-> FALSE, backlog |-> 0, age |-> 0]

TypeOK ==
    /\ config \in Configs
    /\ \A b \in Buckets :
          /\ kv[b] \in Contents(b) \union {NoBucket}
          /\ working[b] \in Contents(b)
          /\ snap[b] \in Contents(b)
          /\ due[b] \in Seq(Slots[b])
          /\ scan[b] \subseteq Range(due[b])
    /\ made \in [Buckets -> Nat]
    /\ link \in [Buckets -> {"off", "resolve", "watch", "scan", "synced"}]
    /\ base \in [Buckets -> Nat] /\ on \in [Buckets -> Nat]
    /\ scanned \subseteq Buckets
    /\ steady \subseteq Entries
    /\ stage \in [Requests -> {"idle", "body", "budget", "admit", "fetch",
                               "fetched", "publish", "queued"}]
    /\ may \in [Requests -> Values("KEYS", "key")]
    /\ \A r \in Requests : \E s \in Slots["ALIASES"] :
          route[r] \in Values("ALIASES", s)
    /\ resp \in [Requests -> {0, 200, 400, 401, 402, 403, 404, 429, 503}]
    /\ cache \in [known : BOOLEAN, backlog : Nat, age : 0..CacheTTL]
    /\ reading \in [Requests -> Nat]
    /\ wait \in [Requests -> 0..FetchTimeout]
    /\ clear \in Ages /\ full \in Ages
    /\ left \in 0..MaxFaults

\* A static gateway has its tables from the start; one in kv mode starts
\* beside buckets that all exist or before any does.
Init ==
    /\ config \in Configs
    /\ \E keys \in Contents("KEYS"), aliases \in Contents("ALIASES"),
          absent \in {{}, Buckets} :
          /\ keys["key"] # "denied"
          /\ kv = [b \in Buckets |->
                     CASE b \in absent -> NoBucket
                       [] b = "KEYS" /\ b \notin absent -> keys
                       [] b = "ALIASES" /\ b \notin absent -> aliases
                       [] b = "BUDGETS" /\ b \notin absent -> Empty[b]]
    /\ made = [b \in Buckets |-> 1]
    /\ link = [b \in Buckets |-> IF config.iam = "kv" THEN "resolve"
                                                      ELSE "off"]
    /\ config.iam = "static" =>
          kv["ALIASES"] # NoBucket /\ kv["ALIASES"]["org"] = None
    /\ base = [b \in Buckets |-> 0] /\ on = [b \in Buckets |-> 0]
    /\ due = [b \in Buckets |-> << >>] /\ scan = [b \in Buckets |-> {}]
    /\ working = Empty
    /\ snap = [b \in Buckets |->
                 IF config.iam = "static" /\ b # "BUDGETS" THEN kv[b]
                                                           ELSE Empty[b]]
    /\ scanned = {}
    /\ stage = [r \in Requests |-> "idle"]
    /\ may = [r \in Requests |-> None] /\ route = [r \in Requests |-> None]
    /\ resp = [r \in Requests |-> 0]
    /\ cache = NoReading
    /\ reading = [r \in Requests |-> 0] /\ wait = [r \in Requests |-> 0]
    /\ clear = 0 /\ full = CacheTTL + FetchTimeout
    /\ steady = {e \in Entries : kv[e[1]] # NoBucket}
    /\ left = MaxFaults

Spend(kind) ==
    /\ kind \in Faults
    /\ left > 0
    /\ left' = left - 1

-----------------------------------------------------------------------------
(* The buckets, written by the control plane and the budget ledger.        *)

Exists(b) == kv[b] # NoBucket
Attached(b) == link[b] \in {"scan", "synced"} /\ on[b] = made[b] /\ Exists(b)

\* A bucket keeps the last value of an entry, so that is what a watcher
\* delivers, once, in the place of the entry's last change.
Edit(b, s, v) ==
    /\ config.iam = "kv"
    /\ Exists(b)
    /\ kv[b][s] # v
    /\ Spend("edit")
    /\ kv' = [kv EXCEPT ![b][s] = v]
    /\ steady' = steady \ {<<b, s>>}
    /\ due' = IF Attached(b)
              THEN [due EXCEPT ![b] = Append(RemoveFirst(due[b], s), s)]
              ELSE due
    /\ UNCHANGED <<config, made, link, base, on, scan, working, snap,
                   scanned, requests, admission, clocks>>

Destroy(b) ==
    /\ config.iam = "kv"
    /\ Exists(b)
    /\ Spend("destroy")
    /\ kv' = [kv EXCEPT ![b] = NoBucket]
    /\ steady' = {e \in steady : e[1] # b}
    /\ UNCHANGED <<config, made, watchers, requests, admission, clocks>>

Create(b) ==
    /\ config.iam = "kv"
    /\ ~Exists(b)
    /\ kv' = [kv EXCEPT ![b] = Empty[b]]
    /\ made' = [made EXCEPT ![b] = @ + 1]
    /\ UNCHANGED <<config, steady, watchers, requests, admission, clocks,
                   left>>

-----------------------------------------------------------------------------
(* A watch loop.  Its backoff only takes time.                             *)

Goto(b, from, to) ==
    /\ link[b] \in from
    /\ link' = [link EXCEPT ![b] = to]

\* KeyValue and the stream's Created; neither is there without a bucket.
ResolveBucket(b) ==
    /\ Goto(b, {"resolve"}, "watch")
    /\ Exists(b)
    /\ base' = [base EXCEPT ![b] = made[b]]
    /\ UNCHANGED <<config, store, on, due, scan, working, snap, scanned,
                   requests, admission, clocks, left>>

\* WatchAll replays the entries there are, oldest first.
WatchBucket(b) ==
    /\ Exists(b)
    /\ Goto(b, {"watch"}, "scan")
    /\ on' = [on EXCEPT ![b] = made[b]]
    /\ \E order \in SetToSeqs({s \in Slots[b] : kv[b][s] # None}) :
          due' = [due EXCEPT ![b] = order]
    /\ scan' = [scan EXCEPT ![b] = Range(due'[b])]
    /\ working' = [working EXCEPT ![b] = Empty[b]]
    /\ UNCHANGED <<config, store, base, snap, scanned, requests, admission,
                   clocks, left>>

WatchFails(b) ==
    /\ Goto(b, {"watch"}, "resolve")
    /\ ~Exists(b)
    /\ UNCHANGED <<config, store, base, on, due, scan, working, snap,
                   scanned, requests, admission, clocks, left>>

\* Mutant: the snapshot is built up while the replay is under way.
DeliverAtOnce(b) ==
    /\ Attached(b)
    /\ due[b] # << >>
    /\ LET s == Head(due[b])
       IN  /\ working' = [working EXCEPT ![b][s] = kv[b][s]]
           /\ scan' = [scan EXCEPT ![b] = @ \ {s}]
    /\ due' = [due EXCEPT ![b] = Tail(@)]
    /\ snap' = [snap EXCEPT ![b] = working'[b]]
    /\ UNCHANGED <<config, store, link, base, on, scanned, requests,
                   admission, clocks, left>>

\* An update changes working, and the snapshot once the replay is over.
Deliver(b) ==
    /\ Attached(b)
    /\ due[b] # << >>
    /\ LET s == Head(due[b])
       IN  /\ working' = [working EXCEPT ![b][s] = kv[b][s]]
           /\ scan' = [scan EXCEPT ![b] = @ \ {s}]
    /\ due' = [due EXCEPT ![b] = Tail(@)]
    /\ snap' = IF link[b] = "synced" THEN [snap EXCEPT ![b] = working'[b]]
                                     ELSE snap
    /\ UNCHANGED <<config, store, link, base, on, scanned, requests,
                   admission, clocks, left>>

\* Mutant: the bucket's Created is read after WatchAll.
SyncReadsCreated(b) ==
    /\ Goto(b, {"scan"}, "synced")
    /\ scan[b] = {}
    /\ snap' = [snap EXCEPT ![b] = working[b]]
    /\ scanned' = scanned \union {b}
    /\ base' = [base EXCEPT ![b] = made[b]]
    /\ UNCHANGED <<config, store, on, due, scan, working, requests,
                   admission, clocks, left>>

\* The nil entry that ends the replay.
Sync(b) ==
    /\ Goto(b, {"scan"}, "synced")
    /\ scan[b] = {}
    /\ snap' = [snap EXCEPT ![b] = working[b]]
    /\ scanned' = scanned \union {b}
    /\ UNCHANGED <<config, store, base, on, due, scan, working, requests,
                   admission, clocks, left>>

Reconnect(b) ==
    /\ Goto(b, {"scan", "synced"}, "resolve")
    /\ due' = [due EXCEPT ![b] = << >>]
    /\ scan' = [scan EXCEPT ![b] = {}]
    /\ working' = [working EXCEPT ![b] = Empty[b]]
    /\ UNCHANGED <<config, store, base, on, snap, scanned, requests,
                   admission, clocks>>

\* Mutant: the probe only looks whether there is a bucket.
ProbeExistence(b) ==
    /\ ~Exists(b)
    /\ Reconnect(b)
    /\ UNCHANGED left

\* The probe finds no bucket or another one.
Probe(b) ==
    /\ ~Exists(b) \/ made[b] # base[b]
    /\ Reconnect(b)
    /\ UNCHANGED left

\* The updates channel closes, because the bucket is not the one it was
\* opened on or for another reason, or a probe fails.
WatchEnds(b) ==
    /\ Reconnect(b)
    /\ IF Exists(b) /\ on[b] = made[b] THEN Spend("watch") ELSE UNCHANGED left

-----------------------------------------------------------------------------
(* The gates of dispatch, in their order.                                  *)

Ready == config.iam = "static" \/ {"KEYS", "ALIASES"} \subseteq scanned

Pass(r, from, to) ==
    /\ stage[r] = from
    /\ stage' = [stage EXCEPT ![r] = to]
    /\ resp' = [resp EXCEPT ![r] = 0]

Answer(r, from, status) ==
    /\ stage[r] = from
    /\ stage' = [stage EXCEPT ![r] = "idle"]
    /\ resp' = [resp EXCEPT ![r] = status]
    /\ may' = [may EXCEPT ![r] = None]
    /\ route' = [route EXCEPT ![r] = None]

\* checkReady and authenticate.
Authenticate(r) ==
    /\ r \in config.busy
    /\ \/ ~Ready /\ Answer(r, "idle", 503)
       \/ Ready /\ snap["KEYS"]["key"] = None /\ Answer(r, "idle", 401)
       \/ /\ Ready /\ snap["KEYS"]["key"] # None
          /\ Pass(r, "idle", "body")
          /\ may' = [may EXCEPT ![r] = snap["KEYS"]["key"]]
          /\ UNCHANGED route
    /\ UNCHANGED <<config, store, watchers, admission, clocks, left>>

\* The key's org first, then the global scope.
ResolveAlias == IF snap["ALIASES"]["org"] # None THEN snap["ALIASES"]["org"]
                                                 ELSE snap["ALIASES"]["_global"]

\* The body has arrived, however long that took.
Resolve(r) ==
    /\ \/ Answer(r, "body", 400)  \* unreadable, or streaming an embedding
       \/ ResolveAlias = None /\ Answer(r, "body", 404)
       \/ /\ ResolveAlias # None /\ may[r] = "denied"
          /\ Answer(r, "body", 403)
       \/ /\ ResolveAlias # None /\ may[r] = "allowed"
          /\ Pass(r, "body", "budget")
          /\ route' = [route EXCEPT ![r] = ResolveAlias]
          /\ may' = [may EXCEPT ![r] = None]
    /\ UNCHANGED <<config, store, watchers, admission, clocks, left>>

CheckBudget(r) ==
    /\ IF snap["BUDGETS"]["key"] = "exceeded"
       THEN Answer(r, "budget", 402)
       ELSE Pass(r, "budget", "admit") /\ UNCHANGED <<may, route>>
    /\ UNCHANGED <<config, store, watchers, admission, clocks, left>>

-----------------------------------------------------------------------------
(* admissionChecker.allow.                                                 *)

Backlog == Cardinality({r \in Requests : stage[r] = "queued"})

\* What the backlog has just become, or that it could not be read.
Observe(known) ==
    LET n == Cardinality({r \in Requests : stage'[r] = "queued"})
    IN  /\ clear' = IF n < config.limit \/ ~known THEN 0 ELSE clear
        /\ full' = IF n >= config.limit THEN 0 ELSE full

Verdict(r, from, backlog) ==
    \/ /\ config.limit = 0 \/ backlog < config.limit
       /\ Pass(r, from, "publish")
       /\ UNCHANGED <<may, route>>
    \/ /\ config.limit > 0 /\ backlog >= config.limit
       /\ Answer(r, from, 429)

\* Mutant: a cached backlog never expires.
FreshForEver == cache.known

Fresh == cache.known /\ cache.age < CacheTTL

Admit(r) ==
    /\ config.limit = 0 \/ Fresh
    /\ Verdict(r, "admit", cache.backlog)
    /\ UNCHANGED <<config, store, watchers, admission, clocks, left>>

BeginFetch(r) ==
    /\ config.limit > 0 /\ ~Fresh
    /\ Pass(r, "admit", "fetch")
    /\ wait' = [wait EXCEPT ![r] = 0]
    /\ UNCHANGED <<config, store, watchers, may, route, cache, reading,
                   clocks, left>>

\* The consumer's info; an error, a timeout and the hangup of the client
\* who asks all count as an empty queue.
Fetch(r) ==
    /\ Pass(r, "fetch", "fetched")
    /\ \/ /\ reading' = [reading EXCEPT ![r] = Backlog]
          /\ UNCHANGED <<clocks, left>>
       \/ /\ Spend("fetch")
          /\ reading' = [reading EXCEPT ![r] = 0]
          /\ Observe(FALSE)
    /\ UNCHANGED <<config, store, watchers, may, route, cache, wait>>

StoreReading(r) ==
    /\ cache' = [known |-> TRUE, backlog |-> reading[r], age |-> 0]
    /\ Verdict(r, "fetched", reading[r])
    /\ reading' = [reading EXCEPT ![r] = 0]
    /\ wait' = [wait EXCEPT ![r] = 0]
    /\ UNCHANGED <<config, store, watchers, clocks, left>>

\* The params are merged, the listener opened, the message published; each
\* may fail, which is answered with 400, 500 and 503.
Publish(r) ==
    /\ \/ Answer(r, "publish", 503)
       \/ Pass(r, "publish", "queued") /\ UNCHANGED <<may, route>>
    /\ Observe(TRUE)
    /\ UNCHANGED <<config, store, watchers, admission, left>>

\* The worker's ack, and the answer; or the gateway deletes the message.
Served(r) ==
    /\ Answer(r, "queued", 200)
    /\ Observe(TRUE)
    /\ UNCHANGED <<config, store, watchers, admission, left>>

-----------------------------------------------------------------------------
Older(age) == IF age < CacheTTL + FetchTimeout THEN age + 1 ELSE age

\* Mutant: a fetch has no timeout.
TickThroughFetch ==
    /\ config.limit > 0
    /\ cache' = [cache EXCEPT !.age = IF @ < CacheTTL THEN @ + 1 ELSE @]
    /\ wait' = [r \in Requests |-> IF stage[r] \in {"fetch", "fetched"}
                                   THEN wait[r] + 1 ELSE wait[r]]
    /\ UNCHANGED <<config, store, watchers, requests, reading, clocks, left>>

\* Half a second passes; a fetch does not outlast its timeout.
Tick ==
    /\ config.limit > 0
    /\ \A r \in Requests : stage[r] \in {"fetch", "fetched"} =>
                              wait[r] < FetchTimeout
    /\ cache' = [cache EXCEPT !.age = IF @ < CacheTTL THEN @ + 1 ELSE @]
    /\ wait' = [r \in Requests |-> IF stage[r] \in {"fetch", "fetched"}
                                   THEN wait[r] + 1 ELSE wait[r]]
    /\ clear' = IF Backlog < config.limit THEN 0 ELSE Older(clear)
    /\ full' = IF Backlog >= config.limit THEN 0 ELSE Older(full)
    /\ UNCHANGED <<config, store, watchers, requests, reading, left>>

Watch(b) == \/ ResolveBucket(b) \/ WatchBucket(b) \/ WatchFails(b)
            \/ Deliver(b) \/ Sync(b)

Handle(r) == \/ Authenticate(r) \/ Resolve(r) \/ CheckBudget(r) \/ Admit(r)
             \/ BeginFetch(r) \/ Fetch(r) \/ StoreReading(r) \/ Publish(r)

Next ==
    \/ \E b \in Buckets :
          \/ Watch(b) \/ Probe(b) \/ WatchEnds(b) \/ Destroy(b) \/ Create(b)
          \/ \E s \in Slots[b] : \E v \in Values(b, s) : Edit(b, s, v)
    \/ \E r \in Requests : Handle(r) \/ Served(r)
    \/ Tick

\* The watch loops run and each probe comes around.
Fairness == \A b \in Buckets : WF_vars(Watch(b)) /\ WF_vars(Probe(b))

Spec == Init /\ [][Next]_vars
FairSpec == Spec /\ Fairness

-----------------------------------------------------------------------------
(* Properties.                                                             *)

\* A watcher whose bucket was destroyed and created again never hears of it,
\* so its probe must: the Created it compares with is not that of a bucket
\* the watcher does not read.  Holds because watchKV reads Created before it
\* calls WatchAll.
BlindWatcherIsNoticed ==
    \A b \in Buckets :
        link[b] \in {"scan", "synced"} /\ Exists(b) /\ on[b] # made[b]
            => base[b] # made[b]

\* A key or an alias that has been in its bucket all the time decides every
\* request: none is refused for a scan that is not over, neither the first
\* nor one after a reconnection, and an org's alias is not bypassed.
SteadyEntriesDecide ==
    \A r \in Requests :
        /\ <<"KEYS", "key">> \in steady /\ kv["KEYS"]["key"] # None
              => resp[r] # 401
        /\ \A s \in Slots["ALIASES"] :
              <<"ALIASES", s>> \in steady /\ kv["ALIASES"][s] # None
                  => resp[r] # 404
        /\ <<"ALIASES", "org">> \in steady /\ kv["ALIASES"]["org"] # None
              => route[r] \in {None, kv["ALIASES"]["org"]}

\* A request is admitted only if, less than the cache's second and a fetch's
\* half ago, the queue was below the limit or could not be read; it is
\* refused only if within that time the queue was full.
AdmissionFollowsBacklog ==
    [][\A r \in Requests :
          config.limit > 0 /\ stage[r] \in {"admit", "fetched"} =>
              /\ stage'[r] = "publish" =>
                    clear < CacheTTL + FetchTimeout
              /\ stage'[r] = "idle" => full < CacheTTL + FetchTimeout]_vars

\* However often buckets are destroyed and watches fail, each snapshot ends
\* as the content of its bucket: a key that was revoked is refused.
TablesFollowBuckets ==
    config.iam = "kv" =>
        <>[](\A b \in Buckets : Exists(b) => snap[b] = kv[b])

=============================================================================
