----------------------------- MODULE KVProjection -----------------------------
(***************************************************************************)
(* The KV projections of the control plane (internal/controlplane/         *)
(* kvproj.go, relay.go and the projector half of runner.go): the event log *)
(* relayed to CONTROL_EVENTS, the projectors that fold it into the ALIASES *)
(* and KEYS buckets behind a persistent marker each, their warmup, replay  *)
(* and live phases, fail-stop, the restart of the process and ResyncKV.    *)
(*                                                                         *)
(* A key's hash is random in the code; here it is the position of the      *)
(* event that introduces it, which is as unique.                           *)
(***************************************************************************)
EXTENDS ControlEvents

CONSTANTS
    KeyIds,     \* the api key ids
    AliasNames, \* the aliases, each a scope and a name
    Targets,    \* what an alias may point to
    Vals,       \* the allowlists and limits set later; a new key has none
    MaxLog,     \* bound: events in the log
    Faults,     \* what may go wrong in this instance
    MaxFaults   \* bound: how often

Projectors == {"aliases", "keys"}

ASSUME KVProjectionAssumption ==
    /\ MaxLog \in Nat
    /\ MaxFaults \in Nat
    /\ Faults \subseteq {"crash",   \* the process ends
                         "error",   \* a KV call fails or is cancelled
                         "resync",  \* an operator asks for a resync
                         "repeat"}  \* a publish or a delivery is repeated

VARIABLES
    log,      \* the event log
    relayed,  \* the relay's checkpoint
    stream,   \* CONTROL_EVENTS: the positions published, in order
    next,     \* a durable consumer's next message
    mark,     \* CP_MARKERS
    aliasKV,  \* the ALIASES bucket
    keysKV,   \* the KEYS bucket
    torn,     \* a bucket has been reset and its marker not yet
    phase,    \* what the goroutine that owns the projectors does
    job,      \* whether it does so for RunKVProjectors or for ResyncKV
    pos,      \* a projector's pos
    stage,    \* how far a projector is with the event it applies
    hashById, \* the keys projector's hashByID
    latch,    \* a projector's failed
    left      \* bound: the faults that may still happen

bus == <<relayed, stream>>
memory == <<pos, stage, hashById, latch>>
buckets == <<aliasKV, keysKV, torn>>
vars == <<log, bus, next, mark, buckets, phase, job, memory, left>>

Hashes == 1..MaxLog
TypeFor == [aliases |-> "alias", keys |-> "apikey"]
Each(v) == [p \in Projectors |-> v]
EmptyAliases == [a \in AliasNames |-> None]
EmptyKeys == [h \in Hashes |-> None]
NoHashes == [k \in KeyIds |-> None]
Entries == [id : KeyIds, allow : Vals \union {None},
            limits : Vals \union {None}]

\* No entry is the absence of one.
ASSUME EntryAssumption == None \notin Entries

TypeOK ==
    /\ relayed \in 0..Len(log)
    /\ Len(log) <= MaxLog
    /\ \A i \in 1..Len(stream) : stream[i] \in 1..Len(log)
    /\ next \in [Projectors -> 1..Len(stream) + 1]
    /\ mark \in [Projectors -> 0..Len(log)]
    /\ aliasKV \in [AliasNames -> Targets \union {None}]
    /\ keysKV \in [Hashes -> Entries \union {None}]
    /\ torn \in [Projectors -> BOOLEAN]
    /\ phase \in {"down", "resetAliases", "resetKeys", "zeroAliases",
                  "zeroKeys", "start", "replayAliases", "replayKeys", "live",
                  "failed"}
    /\ job \in {"run", "resync"}
    /\ pos \in [Projectors -> 0..Len(log)]
    /\ stage \in [Projectors -> {"idle", "put", "written"}]
    /\ hashById \in [KeyIds -> Hashes \union {None}]
    /\ latch \in [Projectors -> {"none", "error", "missing"}]
    /\ left \in 0..MaxFaults

Init ==
    /\ log = << >> /\ relayed = 0 /\ stream = << >>
    /\ next = Each(1) /\ mark = Each(0)
    /\ aliasKV = EmptyAliases /\ keysKV = EmptyKeys /\ torn = Each(FALSE)
    /\ phase = "start" /\ job = "run"
    /\ pos = Each(0) /\ stage = Each("idle") /\ hashById = NoHashes
    /\ latch = Each("none")
    /\ left = MaxFaults

Spend(kind) ==
    /\ kind \in Faults
    /\ left > 0
    /\ left' = left - 1

-----------------------------------------------------------------------------
(* The log and its relay.                                                  *)

KeyCommands ==
    [kind : {"create"}, hash : {Len(log) + 1}, home : {None}, val : {None}]
        \union [kind : {"rotate"}, hash : {Len(log) + 1}]
        \union [kind : {"disable"}]
        \union [kind : {"allowlist", "limits"}, val : Vals]

AliasCommands ==
    [kind : {"set"}, target : Targets, reserved : {FALSE}]
        \union [kind : {"delete"}]

Record(type, id, c) ==
    /\ Len(log) < MaxLog
    /\ log' = log \o Envelopes(type, id, Decide(type, Load(log, type, id), c))
    /\ log' # log
    /\ UNCHANGED <<bus, next, mark, buckets, phase, job, memory, left>>

AppendKey == \E k \in KeyIds, c \in KeyCommands : Record("apikey", k, c)
AppendAlias == \E a \in AliasNames, c \in AliasCommands :
                  Record("alias", a, c)

RelayPublish ==
    /\ phase # "down"
    /\ relayed < Len(log)
    /\ stream' = stream \o <<relayed + 1>>
    /\ relayed' = relayed + 1
    /\ UNCHANGED <<log, next, mark, buckets, phase, job, memory, left>>

\* The relay stopped after a publish and before its checkpoint: it will
\* publish again, after the two minutes in which the stream would notice.
RelayRepeat ==
    /\ Spend("repeat")
    /\ relayed > 0
    /\ relayed' = relayed - 1
    /\ UNCHANGED <<log, stream, next, mark, buckets, phase, job, memory>>

\* The process has been down for longer than CONTROL_EVENTS keeps events.
Expire ==
    /\ phase = "down"
    /\ next # Each(Len(stream) + 1)
    /\ next' = Each(Len(stream) + 1)
    /\ UNCHANGED <<log, bus, mark, buckets, phase, job, memory, left>>

-----------------------------------------------------------------------------
(* apply: one event at a time, from the log while replaying and from the   *)
(* durable consumer when live.                                             *)

Replaying(p) == phase = IF p = "aliases" THEN "replayAliases"
                                         ELSE "replayKeys"
Active(p) == phase = "live" \/ Replaying(p)

\* Mutant: the replay ends one event early.
HasEventButLast(p) == IF phase = "live" THEN next[p] <= Len(stream)
                                        ELSE pos[p] + 1 < Len(log)

HasEvent(p) == IF phase = "live" THEN next[p] <= Len(stream)
                                 ELSE pos[p] < Len(log)
At(p) == IF phase = "live" THEN stream[next[p]] ELSE pos[p] + 1
Mine(p) == log[At(p)].type = TypeFor[p]
Event(p) == log[At(p)].event
Id(p) == log[At(p)].id

\* A handler's error cancels both consumers, but not an apply under way.
Running(p) ==
    /\ Active(p)
    /\ latch[p] = "none"
    /\ (\A q \in Projectors : latch[q] = "none") \/ stage[p] # "idle"

Applying(p) ==
    /\ Running(p)
    /\ HasEvent(p)
    /\ Mine(p)
    /\ At(p) > pos[p]

\* Mutant: of two writes the second comes first.
StepSwapped(p, from, to) ==
    IF from = "idle" /\ to = "put"
    THEN stage[p] = "put" /\ stage' = [stage EXCEPT ![p] = "written"]
    ELSE IF from = "put"
         THEN stage[p] = "idle" /\ stage' = [stage EXCEPT ![p] = "put"]
         ELSE stage[p] = from /\ stage' = [stage EXCEPT ![p] = to]

Step(p, from, to) ==
    /\ stage[p] = from
    /\ stage' = [stage EXCEPT ![p] = to]

ApplyAlias ==
    /\ Applying("aliases")
    /\ Step("aliases", "idle", "written")
    /\ aliasKV' = [aliasKV EXCEPT ![Id("aliases")] =
                     IF Event("aliases").kind = "set"
                     THEN Event("aliases").target ELSE None]
    /\ UNCHANGED <<log, bus, next, mark, keysKV, torn, phase, job, pos,
                   hashById, latch, left>>

\* The entry an event reads before it writes: none for the others.
Reads(e, id) ==
    CASE e.kind = "rotated" -> {e.prev}
      [] e.kind \in {"allowlist", "limits"} -> {hashById[id]}
      [] OTHER -> {}

Missing ==
    /\ Applying("keys")
    /\ stage["keys"] = "idle"
    /\ \E h \in Reads(Event("keys"), Id("keys")) :
          h = None \/ keysKV[h] = None

KeyWritten == Step("keys", "idle", "written")

\* Mutant: a hash that warmup found is left alone.
RememberIfNew(id, h) ==
    hashById' = IF hashById[id] = None THEN [hashById EXCEPT ![id] = h]
                                       ELSE hashById

Remember(id, h) == hashById' = [hashById EXCEPT ![id] = h]

ApplyKeyPut ==
    /\ Applying("keys")
    /\ ~Missing
    /\ LET e == Event("keys")
           id == Id("keys")
       IN  \/ /\ e.kind = "created"
              /\ KeyWritten
              /\ keysKV' = [keysKV EXCEPT ![e.new] =
                              [id |-> id, allow |-> e.val, limits |-> e.val]]
              /\ Remember(id, e.new)
           \/ /\ e.kind = "rotated"
              /\ Step("keys", "idle", "put")
              /\ keysKV' = [keysKV EXCEPT ![e.new] =
                              [keysKV[e.prev] EXCEPT !.id = id]]
              /\ UNCHANGED hashById
           \/ /\ e.kind = "allowlist"
              /\ KeyWritten
              /\ keysKV' = [keysKV EXCEPT ![hashById[id]] =
                              [@ EXCEPT !.id = id, !.allow = e.val]]
              /\ UNCHANGED hashById
           \/ /\ e.kind = "limits"
              /\ KeyWritten
              /\ keysKV' = [keysKV EXCEPT ![hashById[id]] =
                              [@ EXCEPT !.id = id, !.limits = e.val]]
              /\ UNCHANGED hashById
    /\ UNCHANGED <<log, bus, next, mark, aliasKV, torn, phase, job, pos,
                   latch, left>>

ApplyKeyDelete ==
    /\ Applying("keys")
    /\ LET e == Event("keys")
       IN  \/ /\ e.kind = "rotated"
              /\ Step("keys", "put", "written")
              /\ keysKV' = [keysKV EXCEPT ![e.prev] = None]
              /\ Remember(Id("keys"), e.new)
           \/ /\ e.kind = "disabled"
              /\ KeyWritten
              /\ keysKV' = [keysKV EXCEPT ![e.prev] = None]
              /\ UNCHANGED hashById
    /\ UNCHANGED <<log, bus, next, mark, aliasKV, torn, phase, job, pos,
                   latch, left>>

\* Mutant: a replay moves the durable consumer.
ConsumedAlways(p) == next' = [next EXCEPT ![p] = @ + 1]

Consumed(p) == IF phase = "live" THEN next' = [next EXCEPT ![p] = @ + 1]
                                 ELSE UNCHANGED next

\* Mutant: the marker is saved before the write.
AppliedBlindly(p) == stage[p] # "put"

Applied(p) == stage[p] = "written" \/ (Replaying(p) /\ ~Mine(p))

\* pos and marker follow the event, which the consumer then acknowledges.
Save(p) ==
    /\ Running(p)
    /\ HasEvent(p)
    /\ At(p) > pos[p]
    /\ Applied(p)
    /\ pos' = [pos EXCEPT ![p] = At(p)]
    /\ mark' = [mark EXCEPT ![p] = At(p)]
    /\ stage' = [stage EXCEPT ![p] = "idle"]
    /\ Consumed(p)
    /\ UNCHANGED <<log, bus, buckets, phase, job, hashById, latch, left>>

\* Not in the consumer's filter, or applied before.
Skip(p) ==
    /\ phase = "live" /\ Running(p)
    /\ HasEvent(p)
    /\ ~Mine(p) \/ At(p) <= pos[p]
    /\ Consumed(p)
    /\ UNCHANGED <<log, bus, mark, buckets, phase, job, memory, left>>

\* The acknowledgement of the last message was lost.
Redeliver(p) ==
    /\ phase = "live" /\ Running(p)
    /\ stage[p] = "idle"
    /\ next[p] > 1
    /\ Spend("repeat")
    /\ next' = [next EXCEPT ![p] = @ - 1]
    /\ UNCHANGED <<log, bus, mark, buckets, phase, job, memory>>

-----------------------------------------------------------------------------
(* The generations of projectors: warmup, replay, live, fail-stop.         *)

Forget ==
    /\ pos' = Each(0)
    /\ stage' = Each("idle")
    /\ hashById' = NoHashes

\* The hash the last Created or Rotated of a key carries, in the whole log.
Warm(k) == Load(log, "apikey", k).hash

Start ==
    /\ phase = "start"
    /\ phase' = "replayAliases"
    /\ pos' = mark
    /\ hashById' = [k \in KeyIds |-> Warm(k)]
    /\ latch' = Each("none")
    /\ UNCHANGED <<log, bus, next, mark, buckets, job, stage, left>>

AliasesReplayed ==
    /\ phase = "replayAliases"
    /\ ~HasEvent("aliases")
    /\ phase' = "replayKeys"
    /\ UNCHANGED <<log, bus, next, mark, buckets, job, memory, left>>

\* RunKVProjectors goes live; ResyncKV returns and RunKVProjectors is called.
KeysReplayed ==
    /\ phase = "replayKeys"
    /\ ~HasEvent("keys")
    /\ \/ /\ job = "run"
          /\ phase' = "live"
          /\ UNCHANGED <<memory, job>>
       \/ /\ job = "resync"
          /\ phase' = "start" /\ job' = "run"
          /\ Forget /\ UNCHANGED latch
    /\ UNCHANGED <<log, bus, next, mark, buckets, left>>

\* apply latches an error.  A live consumer then stops the other one; a
\* replay returns, and after a ResyncKV the projectors are run anyway.
Fail(p, why) ==
    /\ Running(p)
    /\ latch' = [latch EXCEPT ![p] = why]
    /\ IF phase = "live"
       THEN UNCHANGED <<phase, job, pos, stage, hashById>>
       ELSE /\ phase' = IF job = "run" THEN "failed" ELSE "start"
            /\ job' = "run"
            /\ Forget
    /\ UNCHANGED <<log, bus, next, mark, buckets>>

FailMissing == Missing /\ Fail("keys", "missing") /\ UNCHANGED left

\* A write fails, or the save of the marker, which a replay also moves over
\* the events of the other projector.
FailError(p) ==
    /\ Applying(p) \/ (Running(p) /\ HasEvent(p) /\ Replaying(p) /\ ~Mine(p))
    /\ Fail(p, "error")
    /\ Spend("error")

\* Both consumers have returned.
Halt ==
    /\ phase = "live"
    /\ \E p \in Projectors : latch[p] # "none"
    /\ phase' = "failed"
    /\ Forget
    /\ UNCHANGED <<log, bus, next, mark, buckets, job, latch, left>>

Crash ==
    /\ phase # "down"
    /\ Spend("crash")
    /\ phase' = "down" /\ job' = "run"
    /\ Forget
    /\ latch' = Each("none")
    /\ UNCHANGED <<log, bus, next, mark, buckets>>

Restart ==
    /\ phase = "down"
    /\ phase' = "start"
    /\ UNCHANGED <<log, bus, next, mark, buckets, job, memory, left>>

-----------------------------------------------------------------------------
(* ResyncKV, with the projectors stopped.                                  *)

Resync ==
    /\ phase # "down" /\ job = "run"
    /\ Spend("resync")
    /\ phase' = "resetAliases" /\ job' = "resync"
    /\ Forget
    /\ latch' = Each("none")
    /\ UNCHANGED <<log, bus, next, mark, buckets>>

ResetAliases ==
    /\ phase = "resetAliases" /\ phase' = "resetKeys"
    /\ aliasKV' = EmptyAliases
    /\ torn' = [torn EXCEPT !["aliases"] = TRUE]
    /\ UNCHANGED <<log, bus, next, mark, keysKV, job, memory, left>>

ResetKeys ==
    /\ phase = "resetKeys" /\ phase' = "zeroAliases"
    /\ keysKV' = EmptyKeys
    /\ torn' = [torn EXCEPT !["keys"] = TRUE]
    /\ UNCHANGED <<log, bus, next, mark, aliasKV, job, memory, left>>

Zero(p, from, to) ==
    /\ phase = from /\ phase' = to
    /\ mark' = [mark EXCEPT ![p] = 0]
    /\ torn' = [torn EXCEPT ![p] = FALSE]
    /\ UNCHANGED <<log, bus, next, aliasKV, keysKV, job, memory, left>>

ZeroAliases == Zero("aliases", "zeroAliases", "zeroKeys")
ZeroKeys == Zero("keys", "zeroKeys", "start")

\* ResyncKV returns an error; the projectors are run all the same.
ResyncFails ==
    /\ phase \in {"resetAliases", "resetKeys", "zeroAliases", "zeroKeys"}
    /\ Spend("error")
    /\ phase' = "start" /\ job' = "run"
    /\ UNCHANGED <<log, bus, next, mark, buckets, memory>>

-----------------------------------------------------------------------------
Project(p) == Save(p) \/ Skip(p)

Progress ==
    \/ RelayPublish \/ ApplyAlias \/ ApplyKeyPut \/ ApplyKeyDelete
    \/ \E p \in Projectors : Project(p)
    \/ Start \/ AliasesReplayed \/ KeysReplayed \/ FailMissing \/ Halt
    \/ Restart \/ ResetAliases \/ ResetKeys \/ ZeroAliases \/ ZeroKeys

Next ==
    \/ Progress
    \/ AppendKey \/ AppendAlias \/ RelayRepeat \/ Expire
    \/ \E p \in Projectors : Redeliver(p) \/ FailError(p)
    \/ Crash \/ Resync \/ ResyncFails

\* The control plane keeps running: the relay and each goroutine proceed and
\* a process that ended is started again.  No fault ever has to happen.
Fairness ==
    /\ WF_vars(RelayPublish)
    /\ WF_vars(ApplyAlias)
    /\ WF_vars(ApplyKeyPut \/ ApplyKeyDelete)
    /\ \A p \in Projectors : WF_vars(Project(p))
    /\ WF_vars(Start \/ AliasesReplayed \/ KeysReplayed \/ Restart)
    /\ WF_vars(FailMissing \/ Halt)
    /\ WF_vars(ResetAliases \/ ResetKeys \/ ZeroAliases \/ ZeroKeys)

Spec == Init /\ [][Next]_vars
FairSpec == Spec /\ Fairness

-----------------------------------------------------------------------------
(* Properties.                                                             *)

\* What ALIASES and KEYS should hold after a prefix of the log, told by the
\* aggregates: a live alias's target, a live key's entry under its hash.
AliasTruth(prefix) ==
    [a \in AliasNames |-> LET s == Load(prefix, "alias", a)
                          IN  IF s.deleted THEN None ELSE s.target]

KeysTruth(prefix) ==
    LET key == [k \in KeyIds |-> Load(prefix, "apikey", k)]
        holders(h) == {k \in KeyIds : key[k].hash = h /\ ~key[k].disabled}
    IN  [h \in Hashes |->
            IF holders(h) = {} THEN None
            ELSE LET k == CHOOSE id \in holders(h) : TRUE
                 IN  [id |-> k, allow |-> key[k].allow,
                      limits |-> key[k].limits]]

AliasView == INSTANCE ProjectedView WITH
    Truth <- AliasTruth, Slots <- AliasNames,
    mark <- mark["aliases"], view <- aliasKV, void <- torn["aliases"]
KeysView == INSTANCE ProjectedView WITH
    Truth <- KeysTruth, Slots <- Hashes,
    mark <- mark["keys"], view <- keysKV, void <- torn["keys"]

\* Both buckets implement a projected view: through replays, redeliveries,
\* crashes between a write and the marker and fail-stops, each entry follows
\* the log one event at a time and the marker passes no event that does not
\* show, in KEYS in spite of the two writes of a rotation (apply, applyOne).
BucketsFollowLog == AliasView!Spec /\ KeysView!Spec

\* A projector that is live and has nothing left to consume has missed no
\* event: not those appended while it replayed, not those that left
\* CONTROL_EVENTS before it came, not those it saw twice or late.
NoHole ==
    \A p \in Projectors :
        (/\ phase = "live" /\ latch[p] = "none" /\ stage[p] = "idle"
         /\ relayed = Len(log) /\ next[p] = Len(stream) + 1
         /\ ~torn[p])
        => IF p = "aliases" THEN aliasKV = AliasTruth(log)
                            ELSE keysKV = KeysTruth(log)

\* A key that was projected and is never disabled is accepted under some
\* hash at every moment, in the middle of a rotation too.
RotationLeavesNoGap ==
    \A k \in KeyIds :
        (/\ ~torn["keys"]
         /\ Load(SubSeq(log, 1, mark["keys"]), "apikey", k).hash # None
         /\ ~Load(log, "apikey", k).disabled)
        => \E h \in Hashes : keysKV[h] # None /\ keysKV[h].id = k

\* A process that stays up ends with both buckets showing the whole log,
\* unless a projector has fail-stopped or a resync was given up between the
\* reset of the bucket and that of its marker.
Converges ==
    <>[]( \/ phase = "failed"
          \/ /\ torn["aliases"] \/ aliasKV = AliasTruth(log)
             /\ torn["keys"] \/ keysKV = KeysTruth(log) )

\* A missing entry, which is a fail-stop, is always of the projector's own
\* making.  A rotation lacks the entry it deleted itself: it is applied again
\* after a stop between the delete and the marker, and its new entry is
\* there.  A change lacks the entry of a rotation that is still to come, to
\* whose hash warmup has sent it.  The replay of a resync into the empty
\* bucket lacks none, although it is warmed up as well: it heals KEYS.
MissesAreSelfMade ==
    (Missing /\ ~torn["keys"]) =>
        LET e == Event("keys")
        IN  /\ job = "run"
            /\ e.kind = "rotated" => keysKV[e.new] # None
            /\ e.kind # "rotated" =>
                  \E n \in At("keys") + 1..Len(log) :
                     /\ log[n].type = "apikey" /\ log[n].id = Id("keys")
                     /\ log[n].event.kind = "rotated"

\* The comment at kvproj.go:448: every hash in hashByID was put there by a
\* successful write, so a change of a key's allowlist or limits finds the
\* entry of the hash the map believes current.
RememberedHashHasEntry ==
    ~(Missing /\ Event("keys").kind \in {"allowlist", "limits"})

=============================================================================
