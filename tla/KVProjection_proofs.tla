------------------------ MODULE KVProjection_proofs -------------------------
(***************************************************************************)
(* Theorems about the KV projections, for any keys, aliases and events and *)
(* any faults.                                                             *)
(*                                                                         *)
(* A bucket shows what the log said at its marker, or after the next event *)
(* for it, or, in KEYS, the middle of that event when it is a rotation:    *)
(* AliasBucketInv and KeyBucketInv.  That a projector applies no event but *)
(* that one is ConsumerInv, from the order of the stream (StreamInv), when *)
(* it is live, and pos = marker (ProjectorInv) when it replays.  That the  *)
(* write it then makes leads from one of those contents to another needs   *)
(* to know the events a key may have (LogInv) and, for a change, which     *)
(* hash the projector remembers: HashInv.                                  *)
(***************************************************************************)
EXTENDS KVProjection, ControlEvents_proofs

-----------------------------------------------------------------------------
(* The inductive invariant.                                                *)

KeyEvents ==
    [kind : {"created"}, new : Hashes, home : {None}, val : {None}]
        \union [kind : {"rotated"}, new : Hashes, prev : Hashes]
        \union [kind : {"disabled"}, prev : Hashes]
        \union [kind : {"allowlist", "limits"}, val : Vals]
AliasEvents == [kind : {"set"}, target : Targets]
                   \union [kind : {"deleted"}]
LogEntries == [type : {"apikey"}, id : KeyIds, event : KeyEvents]
                  \union [type : {"alias"}, id : AliasNames,
                          event : AliasEvents]

\* The aggregates and what the buckets should hold after n events.
Key(n, k) == Load(SubSeq(log, 1, n), "apikey", k)
Alias(n, a) == Load(SubSeq(log, 1, n), "alias", a)
AliasesAfter(n) == AliasTruth(SubSeq(log, 1, n))
KeysAfter(n) == KeysTruth(SubSeq(log, 1, n))

\* The event at n is one the key may have at that point, and what it adds
\* is a new hash.
Fits(n) ==
    log[n].type = "apikey" =>
        LET s == Key(n - 1, log[n].id)
            e == log[n].event
        IN  /\ (e.kind = "created") <=> (s.hash = None)
            /\ ~s.disabled
            /\ e.kind \in {"rotated", "disabled"} => e.prev = s.hash
            /\ e.kind \in {"created", "rotated"} => e.new = n

LogInv ==
    /\ log \in Seq(LogEntries)
    /\ \A n \in 1..Len(log) : Fits(n)

\* Every position is published after all that come before it in the log.
Covers(s, n) == \A v \in 1..n : \E j \in 1..Len(s) : s[j] = v
InOrder(s) == \A i \in 1..Len(s) : \A v \in 1..s[i] - 1 :
                 \E j \in 1..i - 1 : s[j] = v
StreamInv == stream \in Seq(Nat) /\ Covers(stream, relayed) /\ InOrder(stream)

IsFor(p, n) == log[n].type = TypeFor[p]

\* n is the first event after the marker that is for p.
NextFor(p, n) ==
    /\ n \in mark[p] + 1..Len(log)
    /\ IsFor(p, n)
    /\ \A m \in mark[p] + 1..n - 1 : ~IsFor(p, m)

Warmed == phase \in {"replayAliases", "replayKeys", "live"}

\* While a projector runs, its position is the marker, and an event it has
\* begun to apply is the one it is at.
ProjectorInv(p) ==
    /\ Warmed => pos[p] = mark[p]
    /\ stage[p] # "idle" =>
          Active(p) /\ HasEvent(p) /\ Mine(p) /\ At(p) > pos[p]
    /\ stage[p] = "put" => p = "keys" /\ Event(p).kind = "rotated"

\* What the durable consumer has left behind is applied.
ConsumerInv(p) ==
    phase = "live" \/ (phase = "replayKeys" /\ p = "aliases") =>
        \A j \in 1..next[p] - 1 : IsFor(p, stream[j]) => stream[j] <= pos[p]

AliasBucketInv ==
    torn["aliases"] \/
    /\ \/ aliasKV = AliasesAfter(mark["aliases"])
       \/ \E n \in 1..Len(log) : NextFor("aliases", n)
                                 /\ aliasKV = AliasesAfter(n)
    /\ stage["aliases"] = "written" => aliasKV = AliasesAfter(At("aliases"))

\* In the middle of a rotation both entries are there.
Half(n) == [KeysAfter(n - 1) EXCEPT ![n] = KeysAfter(n)[n]]
IsRotation(n) == log[n].event.kind = "rotated"

KeyBucketInv ==
    torn["keys"] \/
    /\ \/ keysKV = KeysAfter(mark["keys"])
       \/ \E n \in 1..Len(log) :
             /\ NextFor("keys", n)
             /\ \/ keysKV = KeysAfter(n)
                \/ IsRotation(n) /\ keysKV = Half(n)
    /\ stage["keys"] = "put" => keysKV = Half(At("keys"))
    /\ stage["keys"] = "written" => keysKV = KeysAfter(At("keys"))

\* The event at n gives k the hash n.
Gives(n, k) == /\ log[n].type = "apikey" /\ log[n].id = k
               /\ log[n].event.kind \in {"created", "rotated"}

\* The events the memory of the keys projector accounts for.
Known == IF stage["keys"] = "written" THEN At("keys") ELSE pos["keys"]

\* A remembered hash is the current one or, by warmup, one still to come.
HashInv ==
    Warmed => \A k \in KeyIds :
        \/ hashById[k] = Key(Known, k).hash
        \/ hashById[k] \in Known + 1..Len(log) /\ Gives(hashById[k], k)

Rebuilding == {"resetAliases", "resetKeys", "zeroAliases", "zeroKeys"}

ResyncInv ==
    /\ phase \in Rebuilding => job = "resync"
    /\ phase \in {"resetKeys", "zeroAliases"} =>
          torn["aliases"] /\ aliasKV = EmptyAliases
    /\ phase \in {"zeroAliases", "zeroKeys"} =>
          torn["keys"] /\ keysKV = EmptyKeys
    /\ job = "resync" =>
          phase \in Rebuilding \union {"start", "replayAliases",
                                       "replayKeys"}
    /\ job = "resync" /\ phase \in {"start", "replayAliases"} =>
          ~torn["keys"] /\ mark["keys"] = 0 /\ keysKV = EmptyKeys
    /\ job = "resync" /\ phase = "replayKeys" =>
          /\ ~torn["keys"]
          /\ stage["keys"] = "idle" => keysKV = KeysAfter(mark["keys"])
          /\ \A k \in KeyIds : Key(Known, k).hash # None =>
                hashById[k] = Key(Known, k).hash

IInv ==
    /\ TypeOK /\ LogInv /\ StreamInv
    /\ \A p \in Projectors : ProjectorInv(p) /\ ConsumerInv(p)
    /\ AliasBucketInv /\ KeyBucketInv /\ HashInv /\ ResyncInv

USE NoneAssumption, KVProjectionAssumption, EntryAssumption

-----------------------------------------------------------------------------
(* The aggregates.                                                         *)

KeyStates == [hash : Hashes \union {None}, home : {None},
              allow : Vals \union {None}, limits : Vals \union {None},
              disabled : BOOLEAN]
AliasStates == [target : Targets \union {None}, deleted : BOOLEAN]

LEMMA EvolveKeyType ==
    ASSUME NEW s \in KeyStates, NEW e \in KeyEvents
    PROVE  EvolveKey(s, e) \in KeyStates
<1>1. CASE e \in [kind : {"created"}, new : Hashes, home : {None},
                  val : {None}]
  BY <1>1 DEF KeyStates, EvolveKey
<1>2. CASE e \in [kind : {"rotated"}, new : Hashes, prev : Hashes]
  BY <1>2 DEF KeyStates, EvolveKey
<1>3. CASE e \in [kind : {"disabled"}, prev : Hashes]
  BY <1>3 DEF KeyStates, EvolveKey
<1>4. CASE e \in [kind : {"allowlist", "limits"}, val : Vals]
  BY <1>4 DEF KeyStates, EvolveKey
<1> QED
  BY <1>1, <1>2, <1>3, <1>4 DEF KeyEvents

LEMMA EvolveAliasType ==
    ASSUME NEW s \in AliasStates, NEW e \in AliasEvents
    PROVE  EvolveAlias(s, e) \in AliasStates
BY DEF AliasStates, AliasEvents, EvolveAlias

\* An entry of the log, by its type.
LEMMA EntryType ==
    ASSUME LogInv, NEW n \in 1..Len(log)
    PROVE  /\ log[n] \in LogEntries
           /\ log[n].type \in {"apikey", "alias"}
           /\ log[n].type = "apikey" =>
                 log[n].id \in KeyIds /\ log[n].event \in KeyEvents
           /\ log[n].type = "alias" =>
                 log[n].id \in AliasNames /\ log[n].event \in AliasEvents
<1>1. log[n] \in LogEntries
  BY ElementOfSeq DEF LogInv
<1> QED
  BY <1>1 DEF LogEntries

\* A key's state after one more event.
LEMMA KeyStep ==
    ASSUME LogInv, NEW n \in 1..Len(log), NEW k
    PROVE  Key(n, k) = IF log[n].type = "apikey" /\ log[n].id = k
                       THEN EvolveKey(Key(n - 1, k), log[n].event)
                       ELSE Key(n - 1, k)
BY LoadStep DEF LogInv, Key, Within, Evolve

LEMMA AliasStep ==
    ASSUME LogInv, NEW n \in 1..Len(log), NEW a
    PROVE  Alias(n, a) = IF log[n].type = "alias" /\ log[n].id = a
                         THEN EvolveAlias(Alias(n - 1, a), log[n].event)
                         ELSE Alias(n - 1, a)
BY LoadStep DEF LogInv, Alias, Within, Evolve

LEMMA FirstStates ==
    ASSUME LogInv, NEW k
    PROVE  Key(0, k) = NewKey /\ Alias(0, k) = NewAlias
BY LoadEmpty DEF LogInv, Key, Alias, Initial

\* What an event does not change stays: HistoryStays for keys and aliases.
LEMMA KeyStays ==
    ASSUME LogInv, NEW k, NEW States,
           NEW a \in 0..Len(log), NEW b \in a..Len(log),
           Key(a, k) \in States,
           \A n \in a + 1..b : Key(n - 1, k) \in States =>
                                  Key(n, k) \in States
    PROVE  Key(b, k) \in States
<1>1. Len(log) \in Nat /\ log \in Seq(LogEntries)
  BY LenProperties DEF LogInv
<1>2. \A n \in 0..Len(log) : Key(n, k) = History(log, "apikey", k)[n]
  BY <1>1, LoadPrefix DEF Key
<1>3. \A n \in a..b : History(log, "apikey", k)[n] \in States
  <2>1. History(log, "apikey", k)[a] \in States
    BY <1>2
  <2>2. \A n \in a + 1..b : History(log, "apikey", k)[n - 1] \in States =>
                               History(log, "apikey", k)[n] \in States
    BY <1>1, <1>2
  <2> QED
    BY <1>1, <2>1, <2>2, HistoryStays
<1> QED
  BY <1>1, <1>2, <1>3

LEMMA AliasStays ==
    ASSUME LogInv, NEW k, NEW States,
           NEW a \in 0..Len(log), NEW b \in a..Len(log),
           Alias(a, k) \in States,
           \A n \in a + 1..b : Alias(n - 1, k) \in States =>
                                  Alias(n, k) \in States
    PROVE  Alias(b, k) \in States
<1>1. Len(log) \in Nat /\ log \in Seq(LogEntries)
  BY LenProperties DEF LogInv
<1>2. \A n \in 0..Len(log) : Alias(n, k) = History(log, "alias", k)[n]
  BY <1>1, LoadPrefix DEF Alias
<1>3. \A n \in a..b : History(log, "alias", k)[n] \in States
  <2>1. History(log, "alias", k)[a] \in States
    BY <1>2
  <2>2. \A n \in a + 1..b : History(log, "alias", k)[n - 1] \in States =>
                               History(log, "alias", k)[n] \in States
    BY <1>1, <1>2
  <2> QED
    BY <1>1, <2>1, <2>2, HistoryStays
<1> QED
  BY <1>1, <1>2, <1>3

LEMMA StatesTyped ==
    ASSUME LogInv, NEW n \in 0..Len(log), NEW k
    PROVE  Key(n, k) \in KeyStates /\ Alias(n, k) \in AliasStates
<1>1. Len(log) \in Nat
  BY LenProperties DEF LogInv
<1>2. \A m \in 1..n : Key(m - 1, k) \in KeyStates => Key(m, k) \in KeyStates
  BY <1>1, KeyStep, EntryType, EvolveKeyType
<1>3. \A m \in 1..n : Alias(m - 1, k) \in AliasStates =>
                         Alias(m, k) \in AliasStates
  BY <1>1, AliasStep, EntryType, EvolveAliasType
<1>4. Key(0, k) \in KeyStates /\ Alias(0, k) \in AliasStates
  <2>1. NewKey \in KeyStates /\ NewAlias \in AliasStates
    BY DEF NewKey, NewAlias, KeyStates, AliasStates
  <2> QED
    BY <2>1, FirstStates
<1>5. Key(n, k) \in KeyStates
  BY <1>1, <1>2, <1>4, KeyStays
<1>6. Alias(n, k) \in AliasStates
  BY <1>1, <1>3, <1>4, AliasStays
<1> QED
  BY <1>5, <1>6

-----------------------------------------------------------------------------
(* The life of a key.                                                      *)

\* What the event at n does to the key it is about.
LEMMA KeyEvent ==
    ASSUME LogInv, NEW n \in 1..Len(log), log[n].type = "apikey"
    PROVE  LET k == log[n].id
               e == log[n].event
               s == Key(n - 1, k)
           IN  /\ k \in KeyIds /\ s \in KeyStates
               /\ Key(n, k) = EvolveKey(s, e)
               /\ ~s.disabled
               /\ \/ /\ e \in [kind : {"created"}, new : Hashes,
                               home : {None}, val : {None}]
                     /\ s.hash = None /\ e.new = n
                  \/ /\ e \in [kind : {"rotated"}, new : Hashes,
                               prev : Hashes]
                     /\ s.hash = e.prev /\ e.new = n
                  \/ /\ e \in [kind : {"disabled"}, prev : Hashes]
                     /\ s.hash = e.prev
                  \/ /\ e \in [kind : {"allowlist", "limits"}, val : Vals]
                     /\ s.hash \in Hashes
<1> DEFINE k == log[n].id
           e == log[n].event
           s == Key(n - 1, k)
<1>1. Len(log) \in Nat /\ n - 1 \in 0..Len(log)
  BY LenProperties DEF LogInv
<1>2. k \in KeyIds /\ e \in KeyEvents /\ s \in KeyStates
  BY <1>1, EntryType, StatesTyped
<1>3. Key(n, k) = EvolveKey(s, e)
  BY KeyStep
<1>4. /\ (e.kind = "created") <=> (s.hash = None)
      /\ ~s.disabled
      /\ e.kind \in {"rotated", "disabled"} => e.prev = s.hash
      /\ e.kind \in {"created", "rotated"} => e.new = n
  BY DEF LogInv, Fits
<1> HIDE DEF k, e, s
<1>5. \/ /\ e \in [kind : {"created"}, new : Hashes,
                   home : {None}, val : {None}]
         /\ s.hash = None /\ e.new = n
      \/ /\ e \in [kind : {"rotated"}, new : Hashes, prev : Hashes]
         /\ s.hash = e.prev /\ e.new = n
      \/ /\ e \in [kind : {"disabled"}, prev : Hashes]
         /\ s.hash = e.prev
      \/ /\ e \in [kind : {"allowlist", "limits"}, val : Vals]
         /\ s.hash \in Hashes
  <2>1. CASE e \in [kind : {"created"}, new : Hashes, home : {None},
                    val : {None}]
    BY <1>4, <2>1
  <2>2. CASE e \in [kind : {"rotated"}, new : Hashes, prev : Hashes]
    BY <1>4, <2>2
  <2>3. CASE e \in [kind : {"disabled"}, prev : Hashes]
    BY <1>4, <2>3
  <2>4. CASE e \in [kind : {"allowlist", "limits"}, val : Vals]
    <3>1. s.hash # None /\ s.hash \in Hashes \union {None}
      BY <1>2, <1>4, <2>4 DEF KeyStates
    <3> QED
      BY <2>4, <3>1
  <2> QED
    BY <1>2, <2>1, <2>2, <2>3, <2>4 DEF KeyEvents
<1> QED
  BY <1>2, <1>3, <1>4, <1>5 DEF k, e, s

\* A key never loses its hash but for a newer one, and is disabled for good.
LEMMA KeyLater ==
    ASSUME LogInv, NEW k \in KeyIds,
           NEW a \in 0..Len(log), NEW b \in a..Len(log)
    PROVE  /\ Key(a, k).disabled => Key(b, k).disabled
           /\ Key(a, k).hash # None => Key(b, k).hash # None
           /\ \/ Key(b, k).hash = Key(a, k).hash
              \/ Key(b, k).hash \in a + 1..b /\ Gives(Key(b, k).hash, k)
<1>1. Len(log) \in Nat
  BY LenProperties DEF LogInv
<1>2. PICK s : s = Key(a, k)
  OBVIOUS
<1> DEFINE Good(t) == /\ s.disabled => t.disabled
                      /\ s.hash # None => t.hash # None
                      /\ \/ t.hash = s.hash
                         \/ t.hash \in a + 1..b /\ Gives(t.hash, k)
           States == {t \in KeyStates : Good(t)}
<1>3. Key(a, k) \in States
  BY <1>1, <1>2, StatesTyped
<1>4. ASSUME NEW n \in a + 1..b, Key(n - 1, k) \in States
      PROVE  Key(n, k) \in States
  <2>1. n \in 1..Len(log) /\ n \in Nat /\ n \in 0..Len(log)
    BY <1>1
  <2>2. CASE ~(log[n].type = "apikey" /\ log[n].id = k)
    BY <1>4, <2>1, <2>2, KeyStep
  <2>3. CASE log[n].type = "apikey" /\ log[n].id = k
    <3>1. PICK e, t : e = log[n].event /\ t = Key(n - 1, k)
      OBVIOUS
    <3>2. /\ t \in KeyStates /\ Key(n, k) = EvolveKey(t, e)
          /\ ~t.disabled
          /\ \/ /\ e \in [kind : {"created"}, new : Hashes,
                          home : {None}, val : {None}]
                /\ t.hash = None /\ e.new = n
             \/ /\ e \in [kind : {"rotated"}, new : Hashes, prev : Hashes]
                /\ t.hash = e.prev /\ e.new = n
             \/ /\ e \in [kind : {"disabled"}, prev : Hashes]
                /\ t.hash = e.prev
             \/ /\ e \in [kind : {"allowlist", "limits"}, val : Vals]
                /\ t.hash \in Hashes
      BY <2>1, <2>3, <3>1, KeyEvent
    <3>3. Good(t)
      BY <1>4, <3>1
    <3>4. Key(n, k) \in KeyStates
      BY <2>1, StatesTyped
    <3>5. e.kind \in {"created", "rotated"} => Gives(n, k)
      BY <2>3, <3>1 DEF Gives
    <3>6. n # None
      BY <2>1
    <3> HIDE DEF Good
    <3>7. Good(EvolveKey(t, e))
      <4>1. CASE e \in [kind : {"created"}, new : Hashes,
                        home : {None}, val : {None}]
                   /\ t.hash = None /\ e.new = n
        BY <3>2, <3>3, <3>5, <3>6, <4>1 DEF EvolveKey, Good, KeyStates
      <4>2. CASE e \in [kind : {"rotated"}, new : Hashes, prev : Hashes]
                 /\ e.new = n
        BY <3>2, <3>3, <3>5, <3>6, <4>2 DEF EvolveKey, Good, KeyStates
      <4>3. CASE e \in [kind : {"disabled"}, prev : Hashes]
        BY <3>2, <3>3, <4>3 DEF EvolveKey, Good, KeyStates
      <4>4. CASE e \in [kind : {"allowlist", "limits"}, val : Vals]
        BY <3>2, <3>3, <4>4 DEF EvolveKey, Good, KeyStates
      <4> QED
        BY <3>2, <4>1, <4>2, <4>3, <4>4
    <3> QED
      BY <3>2, <3>4, <3>7
  <2> QED
    BY <2>2, <2>3
<1>5. Key(b, k) \in States
  <2> HIDE DEF States
  <2> QED
    BY <1>3, <1>4, KeyStays
<1> QED
  BY <1>2, <1>5

\* A key's hash is that of an event which gave it to the key.
LEMMA KeyHash ==
    ASSUME LogInv, NEW k \in KeyIds, NEW n \in 0..Len(log)
    PROVE  \/ Key(n, k).hash = None
           \/ Key(n, k).hash \in 1..n /\ Gives(Key(n, k).hash, k)
<1>1. Len(log) \in Nat /\ 0 \in 0..Len(log) /\ n \in 0..Len(log)
  BY LenProperties DEF LogInv
<1>2. Key(0, k).hash = None
  BY FirstStates DEF NewKey
<1> QED
  BY <1>1, <1>2, KeyLater

\* No two keys have the same hash.
LEMMA HashOfOne ==
    ASSUME LogInv, NEW n \in 0..Len(log), NEW k \in KeyIds, NEW j \in KeyIds,
           Key(n, k).hash = Key(n, j).hash, Key(n, k).hash # None
    PROVE  k = j
<1>1. Gives(Key(n, k).hash, k) /\ Gives(Key(n, j).hash, j)
  BY KeyHash
<1> QED
  BY <1>1 DEF Gives

-----------------------------------------------------------------------------
(* What the buckets should hold.                                           *)

EntryOf(k, s) == [id |-> k, allow |-> s.allow, limits |-> s.limits]
Holds(n, k, h) == Key(n, k).hash = h /\ ~Key(n, k).disabled

\* The entry under a hash is that of the key that has it.
LEMMA Held ==
    ASSUME LogInv, NEW n \in 0..Len(log), NEW h \in Hashes,
           NEW k \in KeyIds, Holds(n, k, h)
    PROVE  KeysAfter(n)[h] = EntryOf(k, Key(n, k))
<1> DEFINE key == [j \in KeyIds |-> Load(SubSeq(log, 1, n), "apikey", j)]
           holders == {j \in KeyIds : key[j].hash = h /\ ~key[j].disabled}
<1>1. \A j \in KeyIds : key[j] = Key(n, j)
  BY DEF Key
<1>2. h # None
  BY DEF Hashes
<1>3. \A j \in KeyIds : Holds(n, j, h) => j = k
  BY <1>2, HashOfOne DEF Holds
<1> HIDE DEF key
<1>4. holders = {k}
  BY <1>1, <1>3 DEF Holds
<1>5. KeysAfter(n)[h] =
         IF holders = {} THEN None
         ELSE LET j == CHOOSE id \in holders : TRUE
              IN  [id |-> j, allow |-> key[j].allow,
                   limits |-> key[j].limits]
  BY DEF KeysAfter, KeysTruth, key
<1> HIDE DEF holders
<1>6. PICK j : j = CHOOSE id \in holders : TRUE
  OBVIOUS
<1>7. j = k
  BY <1>4, <1>6
<1>8. KeysAfter(n)[h] = [id |-> j, allow |-> key[j].allow,
                         limits |-> key[j].limits]
  BY <1>4, <1>5, <1>6
<1> QED
  BY <1>1, <1>7, <1>8 DEF EntryOf

LEMMA NotHeld ==
    ASSUME LogInv, NEW n \in 0..Len(log), NEW h \in Hashes,
           \A k \in KeyIds : ~Holds(n, k, h)
    PROVE  KeysAfter(n)[h] = None
<1> DEFINE key == [j \in KeyIds |-> Load(SubSeq(log, 1, n), "apikey", j)]
           holders == {j \in KeyIds : key[j].hash = h /\ ~key[j].disabled}
<1>1. \A j \in KeyIds : key[j] = Key(n, j)
  BY DEF Key
<1> HIDE DEF key
<1>2. holders = {}
  BY <1>1 DEF Holds
<1>3. KeysAfter(n)[h] =
         IF holders = {} THEN None
         ELSE LET j == CHOOSE id \in holders : TRUE
              IN  [id |-> j, allow |-> key[j].allow,
                   limits |-> key[j].limits]
  BY DEF KeysAfter, KeysTruth, key
<1> QED
  BY <1>2, <1>3

\* Whatever prefix they show, the buckets have the type they should have.
LEMMA TruthTyped ==
    ASSUME LogInv, NEW n \in 0..Len(log)
    PROVE  /\ KeysAfter(n) \in [Hashes -> Entries \union {None}]
           /\ AliasesAfter(n) \in [AliasNames -> Targets \union {None}]
<1>1. \A h \in Hashes : KeysAfter(n)[h] \in Entries \union {None}
  <2> SUFFICES ASSUME NEW h \in Hashes
               PROVE  KeysAfter(n)[h] \in Entries \union {None}
    OBVIOUS
  <2>1. CASE \A k \in KeyIds : ~Holds(n, k, h)
    BY <2>1, NotHeld
  <2>2. ASSUME NEW k \in KeyIds, Holds(n, k, h)
        PROVE  KeysAfter(n)[h] \in Entries
    <3>1. KeysAfter(n)[h] = EntryOf(k, Key(n, k))
      BY <2>2, Held
    <3>2. Key(n, k) \in KeyStates
      BY StatesTyped
    <3> QED
      BY <3>1, <3>2 DEF EntryOf, KeyStates, Entries
  <2> QED
    BY <2>1, <2>2
<1>2. KeysAfter(n) = [h \in Hashes |-> KeysAfter(n)[h]]
  BY DEF KeysAfter, KeysTruth
<1>3. \A a \in AliasNames : Alias(n, a) \in AliasStates
  BY StatesTyped
<1>4. AliasesAfter(n) = [a \in AliasNames |->
                            IF Alias(n, a).deleted THEN None
                            ELSE Alias(n, a).target]
  BY DEF AliasesAfter, AliasTruth, Alias
<1>5. AliasesAfter(n) \in [AliasNames -> Targets \union {None}]
  BY <1>3, <1>4 DEF AliasStates
<1> QED
  BY <1>1, <1>2, <1>5

\* An alias event changes the slot it is about.
LEMMA AliasesStep ==
    ASSUME LogInv, NEW n \in 1..Len(log)
    PROVE  /\ log[n].type = "alias" =>
                 AliasesAfter(n) =
                    [AliasesAfter(n - 1) EXCEPT ![log[n].id] =
                        IF log[n].event.kind = "set"
                        THEN log[n].event.target ELSE None]
           /\ log[n].type # "alias" => AliasesAfter(n) = AliasesAfter(n - 1)
<1> DEFINE slot(s) == IF s.deleted THEN None ELSE s.target
<1>1. /\ AliasesAfter(n) = [a \in AliasNames |-> slot(Alias(n, a))]
      /\ AliasesAfter(n - 1) = [a \in AliasNames |-> slot(Alias(n - 1, a))]
  BY DEF AliasesAfter, AliasTruth, Alias
<1>2. ASSUME NEW a \in AliasNames,
             ~(log[n].type = "alias" /\ log[n].id = a)
      PROVE  slot(Alias(n, a)) = slot(Alias(n - 1, a))
  <2>1. Alias(n, a) = Alias(n - 1, a)
    BY <1>2, AliasStep
  <2> QED
    BY <2>1
<1>3. ASSUME log[n].type = "alias"
      PROVE  slot(Alias(n, log[n].id)) =
                IF log[n].event.kind = "set"
                THEN log[n].event.target ELSE None
  <2>1. PICK e, s : e = log[n].event /\ s = Alias(n - 1, log[n].id)
    OBVIOUS
  <2>2. e \in AliasEvents /\ s \in AliasStates
    <3>1. n - 1 \in 0..Len(log)
      BY LenProperties DEF LogInv
    <3> QED
      BY <1>3, <2>1, <3>1, EntryType, StatesTyped
  <2>3. Alias(n, log[n].id) = EvolveAlias(s, e)
    BY <1>3, <2>1, AliasStep
  <2>4. CASE e \in [kind : {"set"}, target : Targets]
    BY <2>1, <2>3, <2>4 DEF EvolveAlias
  <2>5. CASE e \in [kind : {"deleted"}]
    BY <2>1, <2>2, <2>3, <2>5 DEF EvolveAlias, AliasStates
  <2> QED
    BY <2>2, <2>4, <2>5 DEF AliasEvents
<1> HIDE DEF slot
<1> QED
  BY <1>1, <1>2, <1>3

\* A key event changes no slot but that of the key's hash, before or after.
LEMMA OtherSlots ==
    ASSUME LogInv, NEW n \in 1..Len(log), NEW h \in Hashes,
           log[n].type = "apikey" =>
              /\ h # Key(n - 1, log[n].id).hash
              /\ h # Key(n, log[n].id).hash
    PROVE  KeysAfter(n)[h] = KeysAfter(n - 1)[h]
<1>1. n \in 0..Len(log) /\ n - 1 \in 0..Len(log)
  BY LenProperties DEF LogInv
<1>2. \A k \in KeyIds : Holds(n, k, h) \/ Holds(n - 1, k, h) =>
                           Key(n, k) = Key(n - 1, k)
  BY KeyStep DEF Holds
<1>3. CASE \A k \in KeyIds : ~Holds(n, k, h)
  <2>1. \A k \in KeyIds : ~Holds(n - 1, k, h)
    BY <1>2, <1>3 DEF Holds
  <2> QED
    BY <1>1, <1>3, <2>1, NotHeld
<1>4. ASSUME NEW k \in KeyIds, Holds(n, k, h)
      PROVE  KeysAfter(n)[h] = KeysAfter(n - 1)[h]
  <2>1. Key(n, k) = Key(n - 1, k) /\ Holds(n - 1, k, h)
    BY <1>2, <1>4 DEF Holds
  <2>2. KeysAfter(n)[h] = EntryOf(k, Key(n, k))
    BY <1>1, <1>4, Held
  <2>3. KeysAfter(n - 1)[h] = EntryOf(k, Key(n - 1, k))
    BY <1>1, <2>1, Held
  <2> QED
    BY <2>1, <2>2, <2>3
<1> QED
  BY <1>3, <1>4

-----------------------------------------------------------------------------
(* The writes for a key event.                                             *)

\* The types of the parts that a pointwise comparison needs.
LEMMA AboutKeyEvent ==
    ASSUME LogInv, Len(log) <= MaxLog,
           NEW n \in 1..Len(log), log[n].type = "apikey"
    PROVE  /\ n \in Hashes
           /\ n - 1 \in 0..Len(log) /\ n \in 0..Len(log)
           /\ KeysAfter(n - 1) \in [Hashes -> Entries \union {None}]
           /\ KeysAfter(n) \in [Hashes -> Entries \union {None}]
           /\ \A k \in KeyIds : Key(n - 1, k).hash # n
<1>1. n \in Hashes /\ n - 1 \in 0..Len(log) /\ n \in 0..Len(log)
  BY LenProperties DEF LogInv, Hashes
<1>2. \A k \in KeyIds : Key(n - 1, k).hash # n
  BY <1>1, KeyHash DEF Hashes
<1> QED
  BY <1>1, <1>2, TruthTyped

\* A new hash is nobody's before.
LEMMA NewHash ==
    ASSUME LogInv, Len(log) <= MaxLog,
           NEW n \in 1..Len(log), log[n].type = "apikey"
    PROVE  KeysAfter(n - 1)[n] = None
BY AboutKeyEvent, NotHeld DEF Holds

LEMMA CreatedStep ==
    ASSUME LogInv, Len(log) <= MaxLog,
           NEW n \in 1..Len(log), log[n].type = "apikey",
           log[n].event.kind = "created"
    PROVE  LET k == log[n].id
               e == log[n].event
           IN  /\ e.new = n /\ e.val = None /\ k \in KeyIds
               /\ Key(n, k).hash = n
               /\ KeysAfter(n) = [KeysAfter(n - 1) EXCEPT ![n] =
                     [id |-> k, allow |-> e.val, limits |-> e.val]]
<1>1. PICK k, e, s : k = log[n].id /\ e = log[n].event /\ s = Key(n - 1, k)
  OBVIOUS
<1>2. /\ k \in KeyIds /\ Key(n, k) = EvolveKey(s, e)
      /\ e \in [kind : {"created"}, new : Hashes, home : {None},
                val : {None}]
      /\ s.hash = None /\ e.new = n
  BY <1>1, KeyEvent
<1>3. Key(n, k) = [hash |-> n, home |-> None, allow |-> None,
                   limits |-> None, disabled |-> FALSE]
  BY <1>2 DEF EvolveKey
<1>4. KeysAfter(n)[n] = [id |-> k, allow |-> None, limits |-> None]
  <2>1. Holds(n, k, n)
    BY <1>3 DEF Holds
  <2>2. KeysAfter(n)[n] = EntryOf(k, Key(n, k))
    BY <1>2, <2>1, AboutKeyEvent, Held
  <2> QED
    BY <1>3, <2>2 DEF EntryOf
<1>5. \A h \in Hashes : h # n => KeysAfter(n)[h] = KeysAfter(n - 1)[h]
  <2>1. \A h \in Hashes : h # None
    BY DEF Hashes
  <2> QED
    BY <1>1, <1>2, <1>3, <2>1, OtherSlots
<1>6. e.val = None
  BY <1>2
<1> QED
  BY <1>1, <1>2, <1>3, <1>4, <1>5, <1>6, AboutKeyEvent

LEMMA RotatedStep ==
    ASSUME LogInv, Len(log) <= MaxLog,
           NEW n \in 1..Len(log), log[n].type = "apikey",
           log[n].event.kind = "rotated"
    PROVE  LET k == log[n].id
               e == log[n].event
           IN  /\ e.new = n /\ e.prev \in Hashes /\ e.prev # n
               /\ k \in KeyIds /\ Key(n, k).hash = n
               /\ Key(n - 1, k).hash = e.prev
               /\ KeysAfter(n - 1)[e.prev] \in Entries
               /\ KeysAfter(n)[n] = KeysAfter(n - 1)[e.prev]
               /\ KeysAfter(n)[n].id = k
               /\ KeysAfter(n) = [Half(n) EXCEPT ![e.prev] = None]
<1>1. PICK k, e, s : k = log[n].id /\ e = log[n].event /\ s = Key(n - 1, k)
  OBVIOUS
<1>2. /\ k \in KeyIds /\ s \in KeyStates /\ Key(n, k) = EvolveKey(s, e)
      /\ e \in [kind : {"rotated"}, new : Hashes, prev : Hashes]
      /\ s.hash = e.prev /\ e.new = n /\ ~s.disabled
  BY <1>1, KeyEvent
<1>3. Key(n, k) = [s EXCEPT !.hash = n]
  BY <1>2 DEF EvolveKey
<1>4. e.prev \in Hashes /\ e.prev # n
  BY <1>1, <1>2, AboutKeyEvent
<1>5. KeysAfter(n - 1)[e.prev] = EntryOf(k, s)
  <2>1. Holds(n - 1, k, e.prev)
    BY <1>1, <1>2 DEF Holds
  <2> QED
    BY <1>1, <1>2, <1>4, <2>1, AboutKeyEvent, Held
<1>6. KeysAfter(n)[n] = EntryOf(k, s)
  <2>1. Key(n, k).hash = n /\ Key(n, k).disabled = s.disabled
    BY <1>2, <1>3 DEF KeyStates
  <2>2. Holds(n, k, n)
    BY <1>2, <2>1 DEF Holds
  <2>3. KeysAfter(n)[n] = EntryOf(k, Key(n, k))
    BY <1>2, <2>2, AboutKeyEvent, Held
  <2> QED
    BY <1>2, <1>3, <2>3 DEF EntryOf, KeyStates
<1>7. EntryOf(k, s) \in Entries /\ EntryOf(k, s).id = k
  BY <1>2 DEF EntryOf, KeyStates, Entries
<1>8. Key(n, k).hash = n
  BY <1>2, <1>3 DEF KeyStates
<1>9. KeysAfter(n)[e.prev] = None
  <2>1. \A j \in KeyIds : ~Holds(n, j, e.prev)
    <3> SUFFICES ASSUME NEW j \in KeyIds, Holds(n, j, e.prev) PROVE FALSE
      OBVIOUS
    <3>1. j # k
      BY <1>4, <1>8 DEF Holds
    <3>2. Key(n, j) = Key(n - 1, j)
      BY <1>1, <3>1, KeyStep
    <3>3. Key(n - 1, j).hash = Key(n - 1, k).hash
      BY <1>1, <1>2, <3>2 DEF Holds
    <3>4. Key(n - 1, k).hash # None
      BY <1>1, <1>2 DEF Hashes
    <3> QED
      BY <1>2, <3>1, <3>3, <3>4, AboutKeyEvent, HashOfOne
  <2> QED
    BY <1>4, <2>1, AboutKeyEvent, NotHeld
<1>10. \A h \in Hashes : h # n /\ h # e.prev =>
                            KeysAfter(n)[h] = KeysAfter(n - 1)[h]
  BY <1>1, <1>2, <1>8, OtherSlots
<1>11. KeysAfter(n) = [Half(n) EXCEPT ![e.prev] = None]
  BY <1>4, <1>9, <1>10, AboutKeyEvent DEF Half
<1> QED
  BY <1>1, <1>2, <1>4, <1>5, <1>6, <1>7, <1>8, <1>11

LEMMA DisabledStep ==
    ASSUME LogInv, Len(log) <= MaxLog,
           NEW n \in 1..Len(log), log[n].type = "apikey",
           log[n].event.kind = "disabled"
    PROVE  LET k == log[n].id
               e == log[n].event
           IN  /\ k \in KeyIds /\ e.prev \in Hashes
               /\ Key(n, k).hash = Key(n - 1, k).hash /\ Key(n, k).disabled
               /\ KeysAfter(n) = [KeysAfter(n - 1) EXCEPT ![e.prev] = None]
<1>1. PICK k, e, s : k = log[n].id /\ e = log[n].event /\ s = Key(n - 1, k)
  OBVIOUS
<1>2. /\ k \in KeyIds /\ s \in KeyStates /\ Key(n, k) = EvolveKey(s, e)
      /\ e \in [kind : {"disabled"}, prev : Hashes]
      /\ s.hash = e.prev
  BY <1>1, KeyEvent
<1>3. Key(n, k) = [s EXCEPT !.disabled = TRUE] /\ e.prev \in Hashes
  BY <1>2 DEF EvolveKey
<1>4. Key(n, k).hash = e.prev /\ Key(n, k).disabled
  BY <1>2, <1>3 DEF KeyStates
<1>5. KeysAfter(n)[e.prev] = None
  <2>1. \A j \in KeyIds : ~Holds(n, j, e.prev)
    <3> SUFFICES ASSUME NEW j \in KeyIds, Holds(n, j, e.prev) PROVE FALSE
      OBVIOUS
    <3>1. j # k
      BY <1>4 DEF Holds
    <3>2. Key(n, j).hash = Key(n, k).hash /\ Key(n, j).hash # None
      BY <1>3, <1>4 DEF Holds, Hashes
    <3> QED
      BY <1>2, <3>1, <3>2, AboutKeyEvent, HashOfOne
  <2> QED
    BY <1>3, <2>1, AboutKeyEvent, NotHeld
<1>6. \A h \in Hashes : h # e.prev => KeysAfter(n)[h] = KeysAfter(n - 1)[h]
  BY <1>1, <1>2, <1>4, OtherSlots
<1>7. KeysAfter(n) = [KeysAfter(n - 1) EXCEPT ![e.prev] = None]
  BY <1>3, <1>5, <1>6, AboutKeyEvent
<1> QED
  BY <1>1, <1>2, <1>3, <1>4, <1>7

\* The entry a change makes of an entry the key has before, or after.
Changed(x, k, e) ==
    IF e.kind = "allowlist" THEN [x EXCEPT !.id = k, !.allow = e.val]
                            ELSE [x EXCEPT !.id = k, !.limits = e.val]

LEMMA ChangedStep ==
    ASSUME LogInv, Len(log) <= MaxLog,
           NEW n \in 1..Len(log), log[n].type = "apikey",
           log[n].event.kind \in {"allowlist", "limits"}
    PROVE  LET k == log[n].id
               e == log[n].event
               h == Key(n - 1, k).hash
           IN  /\ k \in KeyIds /\ h \in Hashes /\ Key(n, k).hash = h
               /\ KeysAfter(n - 1)[h] \in Entries
               /\ KeysAfter(n)[h] = Changed(KeysAfter(n - 1)[h], k, e)
               /\ KeysAfter(n)[h] = Changed(KeysAfter(n)[h], k, e)
               /\ KeysAfter(n)[h] \in Entries
               /\ \A g \in Hashes : g # h =>
                     KeysAfter(n)[g] = KeysAfter(n - 1)[g]
<1>1. PICK k, e, s : k = log[n].id /\ e = log[n].event /\ s = Key(n - 1, k)
  OBVIOUS
<1>2. /\ k \in KeyIds /\ s \in KeyStates /\ Key(n, k) = EvolveKey(s, e)
      /\ e \in [kind : {"allowlist", "limits"}, val : Vals]
      /\ s.hash \in Hashes /\ ~s.disabled
  BY <1>1, KeyEvent
<1>3. Key(n, k) = IF e.kind = "allowlist" THEN [s EXCEPT !.allow = e.val]
                                          ELSE [s EXCEPT !.limits = e.val]
  BY <1>2 DEF EvolveKey
<1>4. /\ Key(n, k).hash = s.hash /\ ~Key(n, k).disabled
      /\ EntryOf(k, Key(n, k)) = Changed(EntryOf(k, s), k, e)
      /\ EntryOf(k, Key(n, k)) = Changed(EntryOf(k, Key(n, k)), k, e)
  BY <1>2, <1>3 DEF KeyStates, EntryOf, Changed
<1>5. Key(n, k) \in KeyStates
  BY AboutKeyEvent, StatesTyped
<1>6. EntryOf(k, s) \in Entries /\ EntryOf(k, Key(n, k)) \in Entries
  BY <1>2, <1>5 DEF EntryOf, KeyStates, Entries
<1>7. KeysAfter(n - 1)[s.hash] = EntryOf(k, s)
  <2>1. Holds(n - 1, k, s.hash)
    BY <1>1, <1>2 DEF Holds
  <2> QED
    BY <1>1, <1>2, <2>1, AboutKeyEvent, Held
<1>8. KeysAfter(n)[s.hash] = EntryOf(k, Key(n, k))
  <2>1. Holds(n, k, s.hash)
    BY <1>4 DEF Holds
  <2> QED
    BY <1>2, <2>1, AboutKeyEvent, Held
<1>9. \A g \in Hashes : g # s.hash => KeysAfter(n)[g] = KeysAfter(n - 1)[g]
  BY <1>1, <1>4, OtherSlots
<1> QED
  BY <1>1, <1>2, <1>4, <1>6, <1>7, <1>8, <1>9

\* Where there is no event for a bucket it should stay as it is.
LEMMA NothingNew ==
    ASSUME LogInv, NEW a \in 0..Len(log), NEW b \in a..Len(log)
    PROVE  /\ (\A m \in a + 1..b : log[m].type # "apikey") =>
                 /\ KeysAfter(b) = KeysAfter(a)
                 /\ \A k : Key(b, k) = Key(a, k)
           /\ (\A m \in a + 1..b : log[m].type # "alias") =>
                 AliasesAfter(b) = AliasesAfter(a)
<1>1. Len(log) \in Nat
  BY LenProperties DEF LogInv
<1>2. ASSUME \A m \in a + 1..b : log[m].type # "apikey"
      PROVE  KeysAfter(b) = KeysAfter(a) /\ \A k : Key(b, k) = Key(a, k)
  <2>1. ASSUME NEW k PROVE Key(b, k) = Key(a, k)
    <3> DEFINE States == {Key(a, k)}
    <3>1. \A m \in a + 1..b : Key(m - 1, k) \in States =>
                                 Key(m, k) \in States
      BY <1>1, <1>2, KeyStep
    <3>2. Key(a, k) \in States
      OBVIOUS
    <3> HIDE DEF States
    <3>3. Key(b, k) \in States
      BY <3>1, <3>2, KeyStays
    <3> QED
      BY <3>3 DEF States
  <2>2. KeysAfter(b) = KeysAfter(a)
    <3> DEFINE key(n) == [k \in KeyIds |-> Load(SubSeq(log, 1, n),
                                                "apikey", k)]
               holders(ks, h) == {k \in KeyIds : /\ ks[k].hash = h
                                                   /\ ~ks[k].disabled}
               truth(ks) ==
                  [h \in Hashes |->
                      IF holders(ks, h) = {} THEN None
                      ELSE LET k == CHOOSE id \in holders(ks, h) : TRUE
                           IN  [id |-> k, allow |-> ks[k].allow,
                                limits |-> ks[k].limits]]
    <3>1. key(a) = key(b)
      BY <2>1 DEF Key
    <3>2. KeysAfter(a) = truth(key(a)) /\ KeysAfter(b) = truth(key(b))
      BY Zenon DEF KeysAfter, KeysTruth
    <3> HIDE DEF truth, key
    <3> QED
      BY <3>1, <3>2
  <2> QED
    BY <2>1, <2>2
<1>3. ASSUME \A m \in a + 1..b : log[m].type # "alias"
      PROVE  AliasesAfter(b) = AliasesAfter(a)
  <2>1. ASSUME NEW k PROVE Alias(b, k) = Alias(a, k)
    <3> DEFINE States == {Alias(a, k)}
    <3>1. \A m \in a + 1..b : Alias(m - 1, k) \in States =>
                                 Alias(m, k) \in States
      <4>1. \A m \in a + 1..b : m \in 1..Len(log)
        BY <1>1
      <4>2. \A m \in a + 1..b : Alias(m, k) = Alias(m - 1, k)
        BY <1>3, <4>1, AliasStep
      <4> QED
        BY <4>2
    <3>2. Alias(a, k) \in States
      OBVIOUS
    <3> HIDE DEF States
    <3>3. Alias(b, k) \in States
      BY <3>1, <3>2, AliasStays
    <3> QED
      BY <3>3 DEF States
  <2> QED
    BY <2>1 DEF AliasesAfter, AliasTruth, Alias
<1> QED
  BY <1>2, <1>3

\* Before the first event the buckets should be empty.
LEMMA NothingYet ==
    ASSUME LogInv
    PROVE  /\ KeysAfter(0) = EmptyKeys /\ KeysTruth(<< >>) = EmptyKeys
           /\ AliasesAfter(0) = EmptyAliases
           /\ AliasTruth(<< >>) = EmptyAliases
<1>1. 0 \in 0..Len(log) /\ SubSeq(log, 1, 0) = << >>
  <2>1. Len(log) \in Nat /\ log \in Seq(LogEntries)
    BY LenProperties DEF LogInv
  <2>2. /\ SubSeq(log, 1, 0) \in Seq(LogEntries)
        /\ Len(SubSeq(log, 1, 0)) = 0
    BY <2>1, PrefixProperties
  <2> QED
    BY <2>1, <2>2, EmptySeq
<1>2. \A h \in Hashes, k \in KeyIds : ~Holds(0, k, h)
  BY FirstStates DEF Holds, NewKey, Hashes
<1>3. \A h \in Hashes : KeysAfter(0)[h] = None
  BY <1>1, <1>2, NotHeld
<1>4. KeysAfter(0) \in [Hashes -> Entries \union {None}]
  BY <1>1, TruthTyped
<1>5. KeysAfter(0) = EmptyKeys
  BY <1>3, <1>4 DEF EmptyKeys
<1>6. AliasesAfter(0) = EmptyAliases
  BY FirstStates DEF AliasesAfter, AliasTruth, Alias, NewAlias,
                     EmptyAliases
<1> QED
  BY <1>1, <1>5, <1>6 DEF KeysAfter, AliasesAfter

-----------------------------------------------------------------------------
(* What is appended.                                                       *)

\* A key that does not exist is not disabled.
LEMMA Unborn ==
    ASSUME LogInv, NEW n \in 0..Len(log), NEW k \in KeyIds,
           Key(n, k).hash = None
    PROVE  ~Key(n, k).disabled
<1> DEFINE States == {s \in KeyStates : s.hash = None => ~s.disabled}
<1>1. Len(log) \in Nat
  BY LenProperties DEF LogInv
<1>2. Key(0, k) \in States
  <2>1. NewKey \in States
    BY DEF NewKey, KeyStates
  <2> QED
    BY <2>1, FirstStates
<1>3. ASSUME NEW m \in 1..n, Key(m - 1, k) \in States
      PROVE  Key(m, k) \in States
  <2>1. m \in 1..Len(log) /\ m \in 0..Len(log)
    BY <1>1
  <2>2. CASE ~(log[m].type = "apikey" /\ log[m].id = k)
    BY <1>3, <2>1, <2>2, KeyStep
  <2>3. CASE log[m].type = "apikey" /\ log[m].id = k
    <3>1. PICK e, t : e = log[m].event /\ t = Key(m - 1, k)
      OBVIOUS
    <3>2. /\ t \in KeyStates /\ Key(m, k) = EvolveKey(t, e)
          /\ ~t.disabled
          /\ \/ /\ e \in [kind : {"created"}, new : Hashes,
                          home : {None}, val : {None}]
                /\ t.hash = None /\ e.new = m
             \/ /\ e \in [kind : {"rotated"}, new : Hashes, prev : Hashes]
                /\ t.hash = e.prev /\ e.new = m
             \/ /\ e \in [kind : {"disabled"}, prev : Hashes]
                /\ t.hash = e.prev
             \/ /\ e \in [kind : {"allowlist", "limits"}, val : Vals]
                /\ t.hash \in Hashes
      BY <2>1, <2>3, <3>1, KeyEvent
    <3>3. EvolveKey(t, e).hash = None => ~EvolveKey(t, e).disabled
      BY <3>2 DEF EvolveKey, KeyStates, Hashes
    <3> QED
      BY <2>1, <3>2, <3>3, StatesTyped
  <2> QED
    BY <2>2, <2>3
<1> HIDE DEF States
<1>4. Key(n, k) \in States
  BY <1>1, <1>2, <1>3, KeyStays
<1> QED
  BY <1>4 DEF States

\* What a command to a key leads to.
LEMMA KeyDecision ==
    ASSUME NEW s \in KeyStates, NEW c \in KeyCommands,
           Len(log) + 1 \in Hashes, s.hash = None => ~s.disabled
    PROVE  \/ DecideKey(s, c).out = << >>
           \/ \E e \in KeyEvents :
                 /\ DecideKey(s, c).out = <<e>>
                 /\ (e.kind = "created") <=> (s.hash = None)
                 /\ ~s.disabled
                 /\ e.kind \in {"rotated", "disabled"} => e.prev = s.hash
                 /\ e.kind \in {"created", "rotated"} => e.new = Len(log) + 1
<1> DEFINE n == Len(log) + 1
<1> HIDE DEF n
<1>1. n \in Hashes
  BY DEF n
<1>2. CASE c \in [kind : {"create"}, hash : {n}, home : {None},
                  val : {None}]
  <2>1. CASE s.hash # None
    BY <1>2, <2>1 DEF DecideKey, Reject
  <2>2. CASE s.hash = None
    <3> DEFINE e == [kind |-> "created", new |-> c.hash, home |-> c.home,
                     val |-> c.val]
    <3>1. DecideKey(s, c).out = <<e>>
      BY <1>2, <2>2 DEF DecideKey, Emit
    <3>2. e \in KeyEvents
      BY <1>1, <1>2 DEF KeyEvents
    <3> QED
      BY <1>2, <2>2, <3>1, <3>2 DEF n
  <2> QED
    BY <2>1, <2>2
<1>3. CASE c.kind # "create" /\ s.hash = None
  BY <1>3 DEF DecideKey, Reject
<1>4. CASE c.kind # "create" /\ s.hash # None /\ s.disabled
  BY <1>4 DEF DecideKey, Reject, Nothing
<1>5. CASE c.kind # "create" /\ s.hash # None /\ ~s.disabled
  <2>1. s.hash \in Hashes
    BY <1>5 DEF KeyStates
  <2>2. DecideKey(s, c) = DecideLiveKey(s, c)
    BY <1>5 DEF DecideKey
  <2>3. CASE c \in [kind : {"rotate"}, hash : {n}]
    <3> DEFINE e == [kind |-> "rotated", new |-> c.hash, prev |-> s.hash]
    <3>1. DecideKey(s, c).out = <<e>>
      BY <2>2, <2>3 DEF DecideLiveKey, Emit
    <3>2. e \in KeyEvents
      BY <1>1, <2>1, <2>3 DEF KeyEvents
    <3> QED
      BY <1>5, <2>3, <3>1, <3>2 DEF n
  <2>4. CASE c \in [kind : {"disable"}]
    <3> DEFINE e == [kind |-> "disabled", prev |-> s.hash]
    <3>1. DecideKey(s, c).out = <<e>>
      BY <2>2, <2>4 DEF DecideLiveKey, Emit
    <3>2. e \in KeyEvents
      BY <2>1 DEF KeyEvents
    <3> QED
      BY <1>5, <3>1, <3>2
  <2>5. CASE c \in [kind : {"allowlist", "limits"}, val : Vals]
    <3> DEFINE e == [kind |-> c.kind, val |-> c.val]
    <3>1. DecideKey(s, c).out = <<e>>
      BY <2>2, <2>5 DEF DecideLiveKey, Emit
    <3>2. e \in KeyEvents
      BY <2>5 DEF KeyEvents
    <3> QED
      BY <1>5, <2>5, <3>1, <3>2
  <2>6. c \in [kind : {"create"}, hash : {n}, home : {None}, val : {None}]
           \/ c \in [kind : {"rotate"}, hash : {n}]
           \/ c \in [kind : {"disable"}]
           \/ c \in [kind : {"allowlist", "limits"}, val : Vals]
    BY DEF KeyCommands, n
  <2> QED
    BY <1>2, <2>3, <2>4, <2>5, <2>6
<1>6. c \in KeyCommands => c.kind # "create" \/
         c \in [kind : {"create"}, hash : {n}, home : {None}, val : {None}]
  BY DEF KeyCommands, n
<1> QED
  BY <1>2, <1>3, <1>4, <1>5, <1>6

\* What a command to an alias leads to.
LEMMA AliasDecision ==
    ASSUME NEW s, NEW c \in AliasCommands
    PROVE  \/ DecideAlias(s, c).out = << >>
           \/ \E e \in AliasEvents : DecideAlias(s, c).out = <<e>>
<1>1. CASE c \in [kind : {"set"}, target : Targets, reserved : {FALSE}]
  <2>1. CASE c.target = None
    BY <1>1, <2>1 DEF DecideAlias, Reject
  <2>2. CASE c.target # None
    <3> DEFINE e == [kind |-> "set", target |-> c.target]
    <3>1. DecideAlias(s, c).out = <<e>>
      BY <1>1, <2>2 DEF DecideAlias, Emit
    <3>2. e \in AliasEvents
      BY <1>1 DEF AliasEvents
    <3> QED
      BY <3>1, <3>2
  <2> QED
    BY <2>1, <2>2
<1>2. CASE c \in [kind : {"delete"}]
  <2>1. CASE s.target = None \/ s.deleted
    BY <1>2, <2>1 DEF DecideAlias, Nothing
  <2>2. CASE ~(s.target = None \/ s.deleted)
    <3> DEFINE e == [kind |-> "deleted"]
    <3>1. DecideAlias(s, c).out = <<e>>
      BY <1>2, <2>2 DEF DecideAlias, Emit
    <3>2. e \in AliasEvents
      BY DEF AliasEvents
    <3> QED
      BY <3>1, <3>2
  <2> QED
    BY <2>1, <2>2
<1> QED
  BY <1>1, <1>2 DEF AliasCommands

\* The log and the stream only grow.
Grows ==
    /\ Len(log) <= Len(log')
    /\ \A n \in 1..Len(log) : log'[n] = log[n]
    /\ \A n \in 0..Len(log) : SubSeq(log', 1, n) = SubSeq(log, 1, n)
    /\ Len(stream) <= Len(stream')
    /\ \A i \in 1..Len(stream) : stream'[i] = stream[i]

\* One more entry leaves the log in order, when it fits.
LEMMA Appended ==
    ASSUME LogInv, StreamInv, NEW x \in LogEntries, log' = Append(log, x),
           UNCHANGED stream,
           x.type = "apikey" =>
              LET s == Key(Len(log), x.id)
                  e == x.event
              IN  /\ (e.kind = "created") <=> (s.hash = None)
                  /\ ~s.disabled
                  /\ e.kind \in {"rotated", "disabled"} => e.prev = s.hash
                  /\ e.kind \in {"created", "rotated"} =>
                        e.new = Len(log) + 1
    PROVE  /\ LogInv' /\ Grows /\ Len(log') = Len(log) + 1
           /\ SubSeq(log', 1, Len(log)) = log
<1>1. /\ log \in Seq(LogEntries) /\ log' \in Seq(LogEntries)
      /\ Len(log) \in Nat /\ Len(log') = Len(log) + 1
      /\ \A n \in 1..Len(log) : log'[n] = log[n]
      /\ log'[Len(log) + 1] = x
  BY AppendProperties, LenProperties DEF LogInv
<1>2. \A n \in 0..Len(log) : SubSeq(log', 1, n) = SubSeq(log, 1, n)
  BY <1>1, PrefixOfAppend
<1>3. SubSeq(log', 1, Len(log)) = log
  BY <1>1, <1>2, SubSeqFull
<1>4. Len(stream) \in Nat
  BY LenProperties DEF StreamInv
<1>5. Grows
  BY <1>1, <1>2, <1>4 DEF Grows
<1>6. ASSUME NEW n \in 1..Len(log') PROVE Fits(n)'
  <2>1. CASE n \in 1..Len(log)
    <3>1. log'[n] = log[n] /\ SubSeq(log', 1, n - 1) = SubSeq(log, 1, n - 1)
      BY <1>1, <1>2, <2>1
    <3>2. Fits(n)
      BY <2>1 DEF LogInv
    <3> QED
      BY <3>1, <3>2 DEF Fits, Key
  <2>2. CASE n = Len(log) + 1
    <3>1. n - 1 = Len(log) /\ log'[n] = x
      BY <1>1, <2>2
    <3>2. SubSeq(log', 1, n - 1) = SubSeq(log, 1, Len(log))
      BY <1>1, <1>2, <3>1
    <3> QED
      BY <3>1, <3>2, <2>2 DEF Fits, Key
  <2> QED
    BY <1>1, <2>1, <2>2
<1> QED
  BY <1>1, <1>3, <1>5, <1>6 DEF LogInv

\* Recording a command appends an entry that fits.
LEMMA Recorded ==
    ASSUME LogInv, StreamInv, Len(log) <= MaxLog, AppendKey \/ AppendAlias
    PROVE  /\ LogInv' /\ Grows /\ Len(log') = Len(log) + 1
           /\ Len(log') <= MaxLog
           /\ SubSeq(log', 1, Len(log)) = log
           /\ UNCHANGED <<bus, next, mark, buckets, phase, job, memory,
                          left>>
<1>1. log \in Seq(LogEntries) /\ Len(log) \in Nat
  BY LenProperties DEF LogInv
<1>2. \A k : Key(Len(log), k) = Load(log, "apikey", k)
  BY <1>1, LoadAll DEF Key
<1>3. ASSUME NEW x \in LogEntries, log' = log \o <<x>>
      PROVE  log' = Append(log, x)
  <2>1. PICK l \in Seq(LogEntries) : l = log
    BY <1>1
  <2>2. Append(l, x) = l \o <<x>>
    BY AppendIsConcat
  <2> QED
    BY <1>3, <2>1, <2>2
<1>4. CASE AppendKey
  <2>1. PICK k \in KeyIds, c \in KeyCommands : Record("apikey", k, c)
    BY <1>4 DEF AppendKey
  <2>2. PICK s : s = Load(log, "apikey", k)
    OBVIOUS
  <2>3. /\ Len(log) < MaxLog /\ log' # log
        /\ log' = log \o Envelopes("apikey", k, DecideKey(s, c))
        /\ UNCHANGED <<bus, next, mark, buckets, phase, job, memory, left>>
    BY <2>1, <2>2 DEF Record, Decide
  <2>4. s \in KeyStates /\ (s.hash = None => ~s.disabled)
    BY <1>1, <1>2, <2>2, StatesTyped, Unborn
  <2>5. Len(log) + 1 \in Hashes
    BY <1>1, <2>3 DEF Hashes
  <2>6. DecideKey(s, c).out # << >>
    <3> SUFFICES ASSUME DecideKey(s, c).out = << >> PROVE log' = log
      BY <2>3
    <3>1. log' = log \o << >>
      BY <2>3, NoEnvelope
    <3> QED
      BY <1>1, <3>1, ConcatEmptySeq
  <2>7. PICK e \in KeyEvents :
           /\ DecideKey(s, c).out = <<e>>
           /\ (e.kind = "created") <=> (s.hash = None)
           /\ ~s.disabled
           /\ e.kind \in {"rotated", "disabled"} => e.prev = s.hash
           /\ e.kind \in {"created", "rotated"} => e.new = Len(log) + 1
    BY <2>4, <2>5, <2>6, KeyDecision
  <2>8. PICK x : x = [type |-> "apikey", id |-> k, event |-> e]
    OBVIOUS
  <2>9. x \in LogEntries /\ x.type = "apikey" /\ x.id = k /\ x.event = e
    BY <2>8 DEF LogEntries
  <2>10. log' = Append(log, x)
    <3>1. DecideKey(s, c).out = <<e>>
      BY <2>7
    <3>2. Envelopes("apikey", k, DecideKey(s, c)) = <<x>>
      BY <2>8, <3>1, OneEnvelope
    <3> QED
      BY <1>3, <2>3, <2>9, <3>2
  <2>11. UNCHANGED stream
    BY <2>3 DEF bus
  <2>12. Len(log) + 1 <= MaxLog
    BY <1>1, <2>3
  <2>13. /\ LogInv' /\ Grows /\ Len(log') = Len(log) + 1
         /\ SubSeq(log', 1, Len(log)) = log
    <3>1. Key(Len(log), x.id) = s
      BY <1>2, <2>2, <2>9
    <3>2. LET t == Key(Len(log), x.id)
              f == x.event
          IN  /\ (f.kind = "created") <=> (t.hash = None)
              /\ ~t.disabled
              /\ f.kind \in {"rotated", "disabled"} => f.prev = t.hash
              /\ f.kind \in {"created", "rotated"} => f.new = Len(log) + 1
      BY <2>7, <2>9, <3>1
    <3> QED
      BY <2>9, <2>10, <2>11, <3>2, Appended
  <2> QED
    BY <2>3, <2>12, <2>13
<1>5. CASE AppendAlias
  <2>1. PICK a \in AliasNames, c \in AliasCommands : Record("alias", a, c)
    BY <1>5 DEF AppendAlias
  <2>2. PICK s : s = Load(log, "alias", a)
    OBVIOUS
  <2>3. /\ Len(log) < MaxLog /\ log' # log
        /\ log' = log \o Envelopes("alias", a, DecideAlias(s, c))
        /\ UNCHANGED <<bus, next, mark, buckets, phase, job, memory, left>>
    BY <2>1, <2>2 DEF Record, Decide
  <2>4. DecideAlias(s, c).out # << >>
    <3> SUFFICES ASSUME DecideAlias(s, c).out = << >> PROVE log' = log
      BY <2>3
    <3>1. log' = log \o << >>
      BY <2>3, NoEnvelope
    <3> QED
      BY <1>1, <3>1, ConcatEmptySeq
  <2>5. PICK e \in AliasEvents : DecideAlias(s, c).out = <<e>>
    BY <2>4, AliasDecision
  <2>6. PICK x : x = [type |-> "alias", id |-> a, event |-> e]
    OBVIOUS
  <2>7. x \in LogEntries /\ x.type = "alias"
    BY <2>6 DEF LogEntries
  <2>8. log' = Append(log, x)
    <3>1. Envelopes("alias", a, DecideAlias(s, c)) = <<x>>
      BY <2>5, <2>6, OneEnvelope
    <3> QED
      BY <1>3, <2>3, <2>7, <3>1
  <2>9. UNCHANGED stream /\ Len(log) + 1 <= MaxLog
    BY <1>1, <2>3 DEF bus
  <2>10. /\ LogInv' /\ Grows /\ Len(log') = Len(log) + 1
         /\ SubSeq(log', 1, Len(log)) = log
    BY <2>7, <2>8, <2>9, Appended
  <2> QED
    BY <2>3, <2>9, <2>10
<1> QED
  BY <1>4, <1>5

-----------------------------------------------------------------------------
(* The event a projector is at.                                            *)

LEMMA Numbers ==
    ASSUME IInv, NEW p \in Projectors
    PROVE  /\ Len(log) \in Nat /\ Len(log) <= MaxLog /\ Len(stream) \in Nat
           /\ relayed \in 0..Len(log)
           /\ \A i \in 1..Len(stream) : stream[i] \in 1..Len(log)
           /\ mark[p] \in 0..Len(log) /\ pos[p] \in 0..Len(log)
           /\ next[p] \in 1..Len(stream) + 1
           /\ stage[p] \in {"idle", "put", "written"}
<1>1. Len(log) \in Nat /\ Len(stream) \in Nat
  BY LenProperties DEF IInv, LogInv, StreamInv
<1> QED
  BY <1>1 DEF IInv, TypeOK

LEMMA AtInLog ==
    ASSUME IInv, NEW p \in Projectors, HasEvent(p)
    PROVE  At(p) \in 1..Len(log)
<1>1. CASE phase = "live"
  <2>1. next[p] \in 1..Len(stream) + 1 /\ next[p] <= Len(stream)
    BY <1>1, Numbers DEF HasEvent
  <2>2. next[p] \in 1..Len(stream)
    BY <2>1, Numbers
  <2> QED
    BY <1>1, <2>2, Numbers DEF At
<1>2. CASE phase # "live"
  BY <1>2, Numbers DEF HasEvent, At
<1> QED
  BY <1>1, <1>2

\* A projector applies the next event that is for it and no other.
LEMMA AtIsNext ==
    ASSUME IInv, NEW p \in Projectors, Active(p), HasEvent(p), Mine(p),
           At(p) > pos[p]
    PROVE  NextFor(p, At(p))
<1>1. pos[p] = mark[p]
  <2>1. Warmed
    BY DEF Active, Replaying, Warmed
  <2> QED
    BY <2>1 DEF IInv, ProjectorInv
<1>2. At(p) \in mark[p] + 1..Len(log) /\ IsFor(p, At(p))
  BY <1>1, AtInLog, Numbers DEF Mine, IsFor
<1>3. ASSUME NEW m \in mark[p] + 1..At(p) - 1, IsFor(p, m) PROVE FALSE
  <2>1. CASE phase = "live"
    <3>1. At(p) = stream[next[p]] /\ next[p] \in 1..Len(stream)
      BY <2>1, Numbers DEF At, HasEvent
    <3>2. m \in 1..stream[next[p]] - 1
      BY <1>2, <3>1, Numbers
    <3>3. PICK j \in 1..next[p] - 1 : stream[j] = m
      BY <3>1, <3>2 DEF IInv, StreamInv, InOrder
    <3>4. stream[j] <= pos[p]
      BY <1>3, <2>1, <3>3 DEF IInv, ConsumerInv
    <3> QED
      BY <1>1, <3>3, <3>4, Numbers
  <2>2. CASE phase # "live"
    BY <1>1, <2>2, Numbers DEF At
  <2> QED
    BY <2>1, <2>2
<1> QED
  BY <1>2, <1>3 DEF NextFor

LEMMA Begun ==
    ASSUME IInv, NEW p \in Projectors, stage[p] # "idle"
    PROVE  NextFor(p, At(p)) /\ At(p) \in 1..Len(log)
<1>1. Active(p) /\ HasEvent(p) /\ Mine(p) /\ At(p) > pos[p]
  BY DEF IInv, ProjectorInv
<1> QED
  BY <1>1, AtIsNext, AtInLog

LEMMA NextOnce ==
    ASSUME IInv, NEW p \in Projectors, NEW m, NEW n,
           NextFor(p, m), NextFor(p, n)
    PROVE  m = n
<1>1. m \in mark[p] + 1..Len(log) /\ n \in mark[p] + 1..Len(log)
  BY DEF NextFor
<1>2. ~(m < n)
  BY <1>1, Numbers DEF NextFor
<1>3. ~(n < m)
  BY <1>1, Numbers DEF NextFor
<1> QED
  BY <1>1, <1>2, <1>3, Numbers

\* Between the marker and the next event nothing should change.
LEMMA UpToNext ==
    ASSUME IInv
    PROVE  /\ \A n, m : /\ NextFor("aliases", n)
                        /\ m \in mark["aliases"]..n - 1
                        => AliasesAfter(m) = AliasesAfter(mark["aliases"])
           /\ \A n, m : /\ NextFor("keys", n)
                        /\ m \in mark["keys"]..n - 1
                        => /\ KeysAfter(m) = KeysAfter(mark["keys"])
                           /\ \A k : Key(m, k) = Key(mark["keys"], k)
<1>1. LogInv /\ "aliases" \in Projectors /\ "keys" \in Projectors
  BY DEF IInv, Projectors
<1>2. ASSUME NEW n, NEW m, NextFor("aliases", n),
             m \in mark["aliases"]..n - 1
      PROVE  AliasesAfter(m) = AliasesAfter(mark["aliases"])
  <2>1. /\ mark["aliases"] \in 0..Len(log) /\ m \in mark["aliases"]..Len(log)
        /\ \A i \in mark["aliases"] + 1..m : i \in mark["aliases"] + 1..n - 1
    BY <1>1, <1>2, Numbers DEF NextFor
  <2>2. \A i \in mark["aliases"] + 1..m : log[i].type # "alias"
    BY <1>2, <2>1 DEF NextFor, IsFor, TypeFor
  <2> QED
    BY <1>1, <2>1, <2>2, NothingNew
<1>3. ASSUME NEW n, NEW m, NextFor("keys", n), m \in mark["keys"]..n - 1
      PROVE  /\ KeysAfter(m) = KeysAfter(mark["keys"])
             /\ \A k : Key(m, k) = Key(mark["keys"], k)
  <2>1. /\ mark["keys"] \in 0..Len(log) /\ m \in mark["keys"]..Len(log)
        /\ \A i \in mark["keys"] + 1..m : i \in mark["keys"] + 1..n - 1
    BY <1>1, <1>3, Numbers DEF NextFor
  <2>2. \A i \in mark["keys"] + 1..m : log[i].type # "apikey"
    BY <1>3, <2>1 DEF NextFor, IsFor, TypeFor
  <2> QED
    BY <1>1, <2>1, <2>2, NothingNew
<1> QED
  BY <1>2, <1>3

\* What a bucket may hold when n is the next event for it.
LEMMA AliasesAt ==
    ASSUME IInv, ~torn["aliases"], NEW n, NextFor("aliases", n)
    PROVE  aliasKV = AliasesAfter(n - 1) \/ aliasKV = AliasesAfter(n)
<1>1. "aliases" \in Projectors
  BY DEF Projectors
<1>2. n - 1 \in mark["aliases"]..n - 1
  BY <1>1, Numbers DEF NextFor
<1>3. AliasesAfter(n - 1) = AliasesAfter(mark["aliases"])
  BY <1>2, UpToNext
<1>4. \A m : NextFor("aliases", m) => m = n
  BY <1>1, NextOnce
<1> QED
  BY <1>3, <1>4 DEF IInv, AliasBucketInv

LEMMA KeysAt ==
    ASSUME IInv, ~torn["keys"], NEW n, NextFor("keys", n)
    PROVE  /\ \/ keysKV = KeysAfter(n - 1) \/ keysKV = KeysAfter(n)
              \/ IsRotation(n) /\ keysKV = Half(n)
           /\ n \in 1..Len(log) /\ log[n].type = "apikey"
           /\ \A k : Key(n - 1, k) = Key(mark["keys"], k)
<1>1. "keys" \in Projectors
  BY DEF Projectors
<1>2. n - 1 \in mark["keys"]..n - 1
  BY <1>1, Numbers DEF NextFor
<1>3. /\ KeysAfter(n - 1) = KeysAfter(mark["keys"])
      /\ \A k : Key(n - 1, k) = Key(mark["keys"], k)
  BY <1>2, UpToNext
<1>4. \A m : NextFor("keys", m) => m = n
  BY <1>1, NextOnce
<1>5. n \in 1..Len(log) /\ log[n].type = "apikey"
  BY <1>1, Numbers DEF NextFor, IsFor, TypeFor
<1>6. \/ keysKV = KeysAfter(mark["keys"])
      \/ keysKV = KeysAfter(n)
      \/ IsRotation(n) /\ keysKV = Half(n)
  BY <1>4 DEF IInv, KeyBucketInv
<1> QED
  BY <1>3, <1>5, <1>6

-----------------------------------------------------------------------------
(* What a write makes of a bucket that is not torn.                        *)

LEMMA Applies ==
    ASSUME IInv, NEW p \in Projectors, Applying(p)
    PROVE  /\ Active(p) /\ HasEvent(p) /\ Mine(p) /\ At(p) > pos[p]
           /\ NextFor(p, At(p)) /\ At(p) \in 1..Len(log)
<1>1. Active(p) /\ HasEvent(p) /\ Mine(p) /\ At(p) > pos[p]
  BY DEF Applying, Running
<1> QED
  BY <1>1, AtIsNext, AtInLog

LEMMA AliasWrite ==
    ASSUME IInv, ApplyAlias, ~torn["aliases"]
    PROVE  /\ aliasKV' = AliasesAfter(At("aliases"))
           /\ aliasKV' = [aliasKV EXCEPT ![Id("aliases")] =
                             AliasesAfter(At("aliases"))[Id("aliases")]]
           /\ Id("aliases") \in AliasNames
<1>1. "aliases" \in Projectors /\ LogInv
  BY DEF Projectors, IInv
<1>2. PICK n, a, e : /\ n = At("aliases") /\ a = Id("aliases")
                     /\ e = Event("aliases")
  OBVIOUS
<1>3. a = log[n].id /\ e = log[n].event
  BY <1>2 DEF Id, Event
<1>4. NextFor("aliases", n) /\ n \in 1..Len(log) /\ log[n].type = "alias"
  <2>1. NextFor("aliases", n) /\ n \in 1..Len(log)
    BY <1>1, <1>2, Applies DEF ApplyAlias
  <2> QED
    BY <2>1 DEF NextFor, IsFor, TypeFor
<1>5. a \in AliasNames
  BY <1>1, <1>3, <1>4, EntryType
<1>6. aliasKV' = [aliasKV EXCEPT ![a] =
                     IF e.kind = "set" THEN e.target ELSE None]
  BY <1>2 DEF ApplyAlias
<1>7. AliasesAfter(n) = [AliasesAfter(n - 1) EXCEPT ![a] =
                            IF e.kind = "set" THEN e.target ELSE None]
  BY <1>1, <1>3, <1>4, AliasesStep
<1>8. /\ AliasesAfter(n) \in [AliasNames -> Targets \union {None}]
      /\ AliasesAfter(n - 1) \in [AliasNames -> Targets \union {None}]
  <2>1. n \in 0..Len(log) /\ n - 1 \in 0..Len(log)
    BY <1>1, <1>4, Numbers
  <2> QED
    BY <1>1, <2>1, TruthTyped
<1>9. aliasKV = AliasesAfter(n - 1) \/ aliasKV = AliasesAfter(n)
  BY <1>4, AliasesAt
<1>10. AliasesAfter(n)[a] = IF e.kind = "set" THEN e.target ELSE None
  BY <1>5, <1>7, <1>8
<1>11. aliasKV' = AliasesAfter(n)
  BY <1>5, <1>6, <1>7, <1>8, <1>9
<1> QED
  BY <1>2, <1>5, <1>6, <1>10, <1>11

\* The hash of an event to come has no entry yet.
LEMMA FutureHash ==
    ASSUME LogInv, NEW n \in 0..Len(log), NEW h \in Hashes, h > n
    PROVE  KeysAfter(n)[h] = None
<1>1. \A k \in KeyIds : ~Holds(n, k, h)
  BY KeyHash DEF Holds, Hashes
<1> QED
  BY <1>1, NotHeld

\* What the projector remembers when it is about to apply the event at n.
LEMMA Remembered ==
    ASSUME IInv, Applying("keys"), stage["keys"] # "written",
           NEW k \in KeyIds
    PROVE  LET n == At("keys")
               h == hashById[k]
           IN  \/ h = Key(n - 1, k).hash
               \/ h \in n..Len(log) /\ Gives(h, k)
<1>1. "keys" \in Projectors
  BY DEF Projectors
<1>2. PICK n : n = At("keys")
  OBVIOUS
<1>3. NextFor("keys", n) /\ n \in 1..Len(log) /\ Active("keys")
  BY <1>1, <1>2, Applies
<1>4. Warmed
  BY <1>3 DEF Active, Replaying, Warmed
<1>5. Known = mark["keys"]
  BY <1>1, <1>4 DEF Known, IInv, ProjectorInv
<1>6. \/ hashById[k] = Key(mark["keys"], k).hash
      \/ hashById[k] \in mark["keys"] + 1..Len(log) /\ Gives(hashById[k], k)
  BY <1>4, <1>5 DEF IInv, HashInv
<1>7. Key(n - 1, k) = Key(mark["keys"], k)
  <2>1. n - 1 \in mark["keys"]..n - 1
    BY <1>1, <1>3, Numbers DEF NextFor
  <2> QED
    BY <1>3, <2>1, UpToNext
<1>8. ASSUME hashById[k] \in mark["keys"] + 1..Len(log),
             Gives(hashById[k], k)
      PROVE  hashById[k] \in n..Len(log)
  <2>1. IsFor("keys", hashById[k])
    BY <1>8 DEF IsFor, TypeFor, Gives
  <2> QED
    BY <1>1, <1>3, <1>8, <2>1, Numbers DEF NextFor
<1> QED
  BY <1>2, <1>6, <1>7, <1>8

\* A change that finds an entry finds that of the current hash.
LEMMA ChangeFindsCurrent ==
    ASSUME IInv, Applying("keys"), stage["keys"] = "idle", ~torn["keys"],
           Event("keys").kind \in {"allowlist", "limits"},
           hashById[Id("keys")] # None,
           keysKV[hashById[Id("keys")]] # None
    PROVE  hashById[Id("keys")] = Key(At("keys") - 1, Id("keys")).hash
<1>1. "keys" \in Projectors /\ LogInv /\ Len(log) <= MaxLog
  BY Numbers DEF Projectors, IInv
<1>2. PICK n, k, h : n = At("keys") /\ k = Id("keys") /\ h = hashById[k]
  OBVIOUS
<1>3. NextFor("keys", n) /\ n \in 1..Len(log)
  BY <1>1, <1>2, Applies
<1>4. /\ log[n].id = k /\ log[n].event.kind \in {"allowlist", "limits"}
      /\ log[n].type = "apikey"
  BY <1>2, <1>3, KeysAt DEF Id, Event
<1>5. k \in KeyIds
  BY <1>1, <1>3, <1>4, EntryType
<1>6. h = Key(n - 1, k).hash \/ (h \in n..Len(log) /\ Gives(h, k))
  BY <1>2, <1>5, Remembered
<1>7. ASSUME h \in n..Len(log), Gives(h, k) PROVE keysKV[h] = None
  <2>1. h # n
    BY <1>4, <1>7 DEF Gives
  <2>2. /\ h \in Hashes /\ h > n /\ h > n - 1
        /\ n \in 0..Len(log) /\ n - 1 \in 0..Len(log)
    BY <1>1, <1>3, <1>7, <2>1, Numbers DEF Hashes
  <2>3. KeysAfter(n)[h] = None /\ KeysAfter(n - 1)[h] = None
    BY <1>1, <2>2, FutureHash
  <2>4. keysKV = KeysAfter(n) \/ keysKV = KeysAfter(n - 1)
    BY <1>3, <1>4, KeysAt DEF IsRotation
  <2> QED
    BY <2>3, <2>4
<1> QED
  BY <1>2, <1>6, <1>7

\* One slot takes the value it has after event n.
Shows(n) == \E h \in Hashes :
               keysKV' = [keysKV EXCEPT ![h] = KeysAfter(n)[h]]

LEMMA KeyPutWrite ==
    ASSUME IInv, ApplyKeyPut, ~torn["keys"]
    PROVE  LET n == At("keys")
           IN  /\ Shows(n)
               /\ keysKV' = IF IsRotation(n) THEN Half(n) ELSE KeysAfter(n)
               /\ stage'["keys"] = IF IsRotation(n) THEN "put"
                                                    ELSE "written"
<1>1. "keys" \in Projectors /\ LogInv /\ Len(log) <= MaxLog
  BY Numbers DEF Projectors, IInv
<1>2. PICK n, k, e : n = At("keys") /\ k = Id("keys") /\ e = Event("keys")
  OBVIOUS
<1>3. Applying("keys") /\ ~Missing
  BY DEF ApplyKeyPut
<1>4. /\ NextFor("keys", n) /\ n \in 1..Len(log)
      /\ log[n].id = k /\ log[n].event = e /\ log[n].type = "apikey"
  <2>1. NextFor("keys", n) /\ n \in 1..Len(log)
    BY <1>1, <1>2, <1>3, Applies
  <2> QED
    BY <1>2, <2>1, KeysAt DEF Id, Event
<1>5. /\ n \in Hashes
      /\ KeysAfter(n - 1) \in [Hashes -> Entries \union {None}]
      /\ KeysAfter(n) \in [Hashes -> Entries \union {None}]
      /\ KeysAfter(n - 1)[n] = None
  BY <1>1, <1>4, AboutKeyEvent, NewHash
<1>6. \/ keysKV = KeysAfter(n - 1) \/ keysKV = KeysAfter(n)
      \/ IsRotation(n) /\ keysKV = Half(n)
  BY <1>4, KeysAt
<1>7. IsRotation(n) <=> e.kind = "rotated"
  BY <1>4 DEF IsRotation
<1>8. DOMAIN stage = Projectors
  BY DEF IInv, TypeOK
<1>9. CASE /\ e.kind = "created"
           /\ KeyWritten
           /\ keysKV' = [keysKV EXCEPT ![e.new] =
                           [id |-> k, allow |-> e.val, limits |-> e.val]]
  <2>1. /\ e.new = n
        /\ KeysAfter(n) = [KeysAfter(n - 1) EXCEPT ![n] =
              [id |-> k, allow |-> e.val, limits |-> e.val]]
    BY <1>1, <1>4, <1>9, CreatedStep
  <2>2. KeysAfter(n)[n] = [id |-> k, allow |-> e.val, limits |-> e.val]
    BY <1>5, <2>1
  <2>3. keysKV' = [keysKV EXCEPT ![n] = KeysAfter(n)[n]]
    BY <1>9, <2>1, <2>2
  <2>4. keysKV = KeysAfter(n - 1) \/ keysKV = KeysAfter(n)
    BY <1>6, <1>7, <1>9
  <2>5. keysKV' = KeysAfter(n)
    BY <1>5, <2>1, <2>2, <2>3, <2>4
  <2>6. stage'["keys"] = "written"
    BY <1>1, <1>8, <1>9 DEF KeyWritten, Step
  <2>7. Shows(n)
    BY <1>5, <2>3 DEF Shows
  <2> QED
    BY <1>2, <1>7, <1>9, <2>5, <2>6, <2>7
<1>10. CASE /\ e.kind = "rotated"
            /\ Step("keys", "idle", "put")
            /\ keysKV' = [keysKV EXCEPT ![e.new] =
                            [keysKV[e.prev] EXCEPT !.id = k]]
  <2>1. /\ e.new = n /\ e.prev \in Hashes /\ e.prev # n
        /\ KeysAfter(n - 1)[e.prev] \in Entries
        /\ KeysAfter(n)[n] = KeysAfter(n - 1)[e.prev]
        /\ KeysAfter(n)[n].id = k
        /\ KeysAfter(n) = [Half(n) EXCEPT ![e.prev] = None]
    BY <1>1, <1>4, <1>10, RotatedStep
  <2>2. keysKV[e.prev] # None
    <3>1. stage["keys"] = "idle" /\ Reads(e, k) = {e.prev}
      BY <1>10 DEF Step, Reads
    <3> QED
      BY <1>2, <1>3, <3>1 DEF Missing
  <2>3. Half(n) \in [Hashes -> Entries \union {None}]
    BY <1>5 DEF Half
  <2>4. KeysAfter(n)[e.prev] = None
    BY <2>1, <2>3
  <2>5. keysKV = KeysAfter(n - 1) \/ keysKV = Half(n)
    BY <1>6, <2>2, <2>4
  <2>6. keysKV[e.prev] = KeysAfter(n)[n]
    BY <1>5, <2>1, <2>5 DEF Half
  <2>7. [keysKV[e.prev] EXCEPT !.id = k] = KeysAfter(n)[n]
    <3>1. KeysAfter(n)[n] \in Entries
      BY <2>1
    <3> QED
      BY <2>1, <2>6, <3>1 DEF Entries
  <2>8. keysKV' = [keysKV EXCEPT ![n] = KeysAfter(n)[n]]
    BY <1>10, <2>1, <2>7
  <2>9. keysKV' = Half(n)
    BY <1>5, <2>5, <2>8 DEF Half
  <2>10. stage'["keys"] = "put"
    BY <1>1, <1>8, <1>10 DEF Step
  <2>11. Shows(n)
    BY <1>5, <2>8 DEF Shows
  <2> QED
    BY <1>2, <1>7, <1>10, <2>9, <2>10, <2>11
<1>11. CASE /\ e.kind \in {"allowlist", "limits"}
            /\ KeyWritten
            /\ keysKV' = [keysKV EXCEPT ![hashById[k]] =
                            Changed(keysKV[hashById[k]], k, e)]
  <2>1. PICK h : h = hashById[k]
    OBVIOUS
  <2>2. h # None /\ keysKV[h] # None
    <3>1. stage["keys"] = "idle" /\ Reads(e, k) = {h}
      BY <1>11, <2>1 DEF KeyWritten, Step, Reads
    <3> QED
      BY <1>2, <1>3, <3>1 DEF Missing
  <2>3. h = Key(n - 1, k).hash
    <3>1. stage["keys"] = "idle"
      BY <1>11 DEF KeyWritten, Step
    <3> QED
      BY <1>2, <1>3, <1>11, <2>1, <2>2, <3>1, ChangeFindsCurrent
  <2>4. /\ h \in Hashes
        /\ KeysAfter(n)[h] = Changed(KeysAfter(n - 1)[h], k, e)
        /\ KeysAfter(n)[h] = Changed(KeysAfter(n)[h], k, e)
        /\ \A g \in Hashes : g # h =>
              KeysAfter(n)[g] = KeysAfter(n - 1)[g]
    BY <1>1, <1>4, <1>11, <2>3, ChangedStep
  <2>5. keysKV = KeysAfter(n - 1) \/ keysKV = KeysAfter(n)
    BY <1>6, <1>7, <1>11
  <2>6. keysKV' = [keysKV EXCEPT ![h] = KeysAfter(n)[h]]
    BY <1>11, <2>1, <2>4, <2>5
  <2>7. keysKV' = KeysAfter(n)
    BY <1>5, <2>4, <2>5, <2>6
  <2>8. stage'["keys"] = "written"
    BY <1>1, <1>8, <1>11 DEF KeyWritten, Step
  <2>9. Shows(n)
    BY <2>4, <2>6 DEF Shows
  <2> QED
    BY <1>2, <1>7, <1>11, <2>7, <2>8, <2>9
<1>12. \/ /\ e.kind = "created"
          /\ KeyWritten
          /\ keysKV' = [keysKV EXCEPT ![e.new] =
                          [id |-> k, allow |-> e.val, limits |-> e.val]]
       \/ /\ e.kind = "rotated"
          /\ Step("keys", "idle", "put")
          /\ keysKV' = [keysKV EXCEPT ![e.new] =
                          [keysKV[e.prev] EXCEPT !.id = k]]
       \/ /\ e.kind \in {"allowlist", "limits"}
          /\ KeyWritten
          /\ keysKV' = [keysKV EXCEPT ![hashById[k]] =
                          Changed(keysKV[hashById[k]], k, e)]
  BY <1>2 DEF ApplyKeyPut, Changed
<1> QED
  BY <1>9, <1>10, <1>11, <1>12

LEMMA KeyDeleteWrite ==
    ASSUME IInv, ApplyKeyDelete, ~torn["keys"]
    PROVE  /\ Shows(At("keys")) /\ keysKV' = KeysAfter(At("keys"))
           /\ stage'["keys"] = "written"
<1>1. "keys" \in Projectors /\ LogInv /\ Len(log) <= MaxLog
  BY Numbers DEF Projectors, IInv
<1>2. PICK n, k, e : n = At("keys") /\ k = Id("keys") /\ e = Event("keys")
  OBVIOUS
<1>3. /\ NextFor("keys", n) /\ n \in 1..Len(log)
      /\ log[n].id = k /\ log[n].event = e /\ log[n].type = "apikey"
  <2>1. NextFor("keys", n) /\ n \in 1..Len(log)
    BY <1>1, <1>2, Applies DEF ApplyKeyDelete
  <2> QED
    BY <1>2, <2>1, KeysAt DEF Id, Event
<1>4. /\ n \in Hashes
      /\ KeysAfter(n - 1) \in [Hashes -> Entries \union {None}]
      /\ KeysAfter(n) \in [Hashes -> Entries \union {None}]
  BY <1>1, <1>3, AboutKeyEvent
<1>5. DOMAIN stage = Projectors
  BY DEF IInv, TypeOK
<1>6. keysKV' = [keysKV EXCEPT ![e.prev] = None]
  BY <1>2 DEF ApplyKeyDelete
<1>7. stage'["keys"] = "written"
  BY <1>1, <1>5 DEF ApplyKeyDelete, KeyWritten, Step
<1>8. CASE e.kind = "rotated" /\ stage["keys"] = "put"
  <2>1. /\ e.prev \in Hashes /\ e.prev # n
        /\ KeysAfter(n) = [Half(n) EXCEPT ![e.prev] = None]
    BY <1>1, <1>3, <1>8, RotatedStep
  <2>2. keysKV = Half(n)
    BY <1>2, <1>8 DEF IInv, KeyBucketInv
  <2>3. Half(n) \in [Hashes -> Entries \union {None}]
    BY <1>4 DEF Half
  <2>4. keysKV' = KeysAfter(n) /\ KeysAfter(n)[e.prev] = None
    BY <1>6, <2>1, <2>2, <2>3
  <2>5. Shows(n)
    BY <1>6, <2>1, <2>4 DEF Shows
  <2> QED
    BY <1>2, <1>7, <2>4, <2>5
<1>9. CASE e.kind = "disabled"
  <2>1. /\ e.prev \in Hashes
        /\ KeysAfter(n) = [KeysAfter(n - 1) EXCEPT ![e.prev] = None]
    BY <1>1, <1>3, <1>9, DisabledStep
  <2>2. keysKV = KeysAfter(n - 1) \/ keysKV = KeysAfter(n)
    BY <1>3, <1>9, KeysAt DEF IsRotation
  <2>3. keysKV' = KeysAfter(n) /\ KeysAfter(n)[e.prev] = None
    BY <1>4, <1>6, <2>1, <2>2
  <2>4. Shows(n)
    BY <1>6, <2>1, <2>3 DEF Shows
  <2> QED
    BY <1>2, <1>7, <2>3, <2>4
<1> QED
  BY <1>2, <1>8, <1>9 DEF ApplyKeyDelete, Step

-----------------------------------------------------------------------------
(* Steps of the log and of the stream.                                     *)

\* What every step leaves true of the log and of the stream.
LogStep ==
    /\ LogInv' /\ StreamInv' /\ Grows
    /\ Len(log') \in Nat /\ Len(log') <= MaxLog /\ relayed' \in 0..Len(log')
    /\ \A i \in 1..Len(stream') : stream'[i] \in 1..Len(log')

LEMMA SameLog ==
    ASSUME IInv, UNCHANGED <<log, bus>>
    PROVE  LogStep
<1>1. "keys" \in Projectors
  BY DEF Projectors
<1>2. log' = log /\ stream' = stream /\ relayed' = relayed
  BY DEF bus
<1>3. LogInv'
  BY <1>2 DEF IInv, LogInv, Fits, Key
<1>4. StreamInv'
  <2>1. StreamInv
    BY DEF IInv
  <2> QED
    BY <1>2, <2>1 DEF StreamInv
<1>5. Grows
  BY <1>1, <1>2, Numbers DEF Grows
<1> QED
  BY <1>1, <1>2, <1>3, <1>4, <1>5, Numbers DEF LogStep

LEMMA RecordedStep ==
    ASSUME IInv, AppendKey \/ AppendAlias
    PROVE  LogStep
<1>1. "keys" \in Projectors /\ LogInv /\ StreamInv
  BY DEF Projectors, IInv
<1>2. /\ LogInv' /\ Grows /\ Len(log') = Len(log) + 1 /\ Len(log') <= MaxLog
      /\ UNCHANGED <<bus, next, mark, buckets, phase, job, memory, left>>
  BY <1>1, Numbers, Recorded
<1>3. stream' = stream /\ relayed' = relayed
  BY <1>2 DEF bus
<1>4. StreamInv'
  BY <1>1, <1>3 DEF StreamInv
<1> QED
  BY <1>1, <1>2, <1>3, <1>4, Numbers DEF LogStep

LEMMA PublishedStep ==
    ASSUME IInv, RelayPublish
    PROVE  LogStep
<1>1. "keys" \in Projectors
  BY DEF Projectors
<1>2. /\ log' = log /\ relayed' = relayed + 1 /\ relayed < Len(log)
      /\ stream' = stream \o <<relayed + 1>> /\ stream \in Seq(Nat)
  BY DEF RelayPublish, IInv, StreamInv
<1>3. relayed \in Nat /\ Len(log) \in Nat /\ Len(stream) \in Nat
  BY <1>1, Numbers
<1> DEFINE len == Len(stream)
<1>4. /\ stream' \in Seq(Nat) /\ Len(stream') = len + 1
      /\ \A i \in 1..len : stream'[i] = stream[i]
      /\ stream'[len + 1] = relayed + 1
  <2>1. stream' = Append(stream, relayed + 1)
    BY <1>2, <1>3, AppendIsConcat
  <2> QED
    BY <1>2, <1>3, <2>1, AppendProperties
<1>5. \A v \in 1..relayed : \E j \in 1..len : stream[j] = v
  BY DEF IInv, StreamInv, Covers, InOrder
<1>6. \A i \in 1..len : \A v \in 1..stream[i] - 1 :
         \E j \in 1..i - 1 : stream[j] = v
  BY DEF IInv, StreamInv, Covers, InOrder
<1>7. \A i \in 1..len : stream[i] \in 1..Len(log)
  BY <1>1, Numbers
<1> HIDE DEF len
<1>8. len \in Nat /\ len = Len(stream)
  BY <1>3 DEF len
<1>9. \A v \in 1..relayed + 1 : \E j \in 1..len + 1 : stream'[j] = v
  <2> SUFFICES ASSUME NEW v \in 1..relayed + 1
               PROVE  \E j \in 1..len + 1 : stream'[j] = v
    OBVIOUS
  <2>1. CASE v = relayed + 1
    BY <1>4, <1>8, <2>1
  <2>2. CASE v \in 1..relayed
    BY <1>4, <1>5, <1>8, <2>2
  <2> QED
    BY <1>3, <2>1, <2>2
<1>10. ASSUME NEW i \in 1..len + 1, NEW v \in 1..stream'[i] - 1
       PROVE  \E j \in 1..i - 1 : stream'[j] = v
  <2>1. CASE i = len + 1
    <3>1. v \in 1..relayed
      BY <1>3, <1>4, <2>1
    <3>2. PICK j \in 1..len : stream[j] = v
      BY <1>5, <3>1
    <3> QED
      BY <1>4, <1>8, <2>1, <3>2
  <2>2. CASE i \in 1..len
    <3>1. v \in 1..stream[i] - 1
      BY <1>4, <2>2
    <3>2. PICK j \in 1..i - 1 : stream[j] = v
      BY <1>6, <2>2, <3>1
    <3>3. j \in 1..len
      BY <1>8, <2>2
    <3> QED
      BY <1>4, <3>2, <3>3
  <2> QED
    BY <1>8, <2>1, <2>2
<1>11. StreamInv'
  BY <1>2, <1>4, <1>9, <1>10 DEF StreamInv, Covers, InOrder
<1>12. LogInv'
  BY <1>2 DEF IInv, LogInv, Fits, Key
<1>13. Grows
  BY <1>2, <1>3, <1>4, <1>8 DEF Grows
<1>14. \A i \in 1..Len(stream') : stream'[i] \in 1..Len(log')
  BY <1>2, <1>3, <1>4, <1>7, <1>8
<1>15. Len(log') \in Nat /\ Len(log') <= MaxLog /\ relayed' \in 0..Len(log')
  BY <1>1, <1>2, <1>3, Numbers
<1> QED
  BY <1>11, <1>12, <1>13, <1>14, <1>15 DEF LogStep

LEMMA RepeatedStep ==
    ASSUME IInv, RelayRepeat
    PROVE  LogStep
<1>1. "keys" \in Projectors
  BY DEF Projectors
<1>2. /\ log' = log /\ stream' = stream
      /\ relayed' = relayed - 1 /\ relayed > 0
  BY DEF RelayRepeat
<1>3. LogInv'
  BY <1>2 DEF IInv, LogInv, Fits, Key
<1>4. relayed \in Nat
  BY <1>1, Numbers
<1>5. StreamInv'
  BY <1>2, <1>4 DEF IInv, StreamInv, Covers, InOrder
<1>6. Grows
  BY <1>1, <1>2, Numbers DEF Grows
<1> QED
  BY <1>1, <1>2, <1>3, <1>5, <1>6, Numbers DEF LogStep

-----------------------------------------------------------------------------
(* What a step leaves alone stays in order.                                *)

\* What is said of a prefix of the log stays true of it.
LEMMA PrefixesKept ==
    ASSUME IInv, LogStep
    PROVE  /\ \A n \in 0..Len(log) :
                 /\ KeysTruth(SubSeq(log', 1, n)) = KeysAfter(n)
                 /\ AliasTruth(SubSeq(log', 1, n)) = AliasesAfter(n)
                 /\ \A k : Load(SubSeq(log', 1, n), "apikey", k) = Key(n, k)
           /\ \A n \in 1..Len(log) : log'[n] = log[n]
           /\ \A n \in 1..Len(log) : \A k : Gives(n, k) => Gives(n, k)'
           /\ 1..Len(log) \subseteq 1..Len(log')
<1>1. "keys" \in Projectors
  BY DEF Projectors
<1>2. \A n \in 0..Len(log) : SubSeq(log', 1, n) = SubSeq(log, 1, n)
  BY DEF LogStep, Grows
<1>3. \A n \in 1..Len(log) : log'[n] = log[n]
  BY DEF LogStep, Grows
<1>4. 1..Len(log) \subseteq 1..Len(log')
  BY <1>1, Numbers DEF LogStep, Grows
<1>5. \A n \in 1..Len(log) : \A k : Gives(n, k) => Gives(n, k)'
  BY <1>3 DEF Gives
<1> QED
  BY <1>2, <1>3, <1>4, <1>5 DEF KeysAfter, AliasesAfter, Key

\* The projector p is where it was.
Still(p) == /\ phase' = phase /\ mark'[p] = mark[p] /\ pos'[p] = pos[p]
            /\ stage'[p] = stage[p] /\ next'[p] = next[p]

LEMMA ProjectorKept ==
    ASSUME IInv, LogStep, NEW p \in Projectors, Still(p)
    PROVE  /\ ProjectorInv(p)' /\ ConsumerInv(p)'
           /\ HasEvent(p) => At(p)' = At(p)
<1>1. /\ Len(log) \in Nat /\ Len(log') \in Nat /\ Len(log) <= Len(log')
      /\ Len(stream) \in Nat /\ Len(stream) <= Len(stream')
      /\ Len(stream') \in Nat
      /\ \A i \in 1..Len(stream) : stream'[i] = stream[i]
  <2>1. Len(stream') \in Nat
    BY LenProperties DEF LogStep, StreamInv
  <2> QED
    BY <2>1, Numbers DEF LogStep, Grows
<1>2. ASSUME HasEvent(p) PROVE HasEvent(p)' /\ At(p)' = At(p)
  <2>1. CASE phase = "live"
    <3>1. next[p] \in 1..Len(stream)
      BY <1>2, <2>1, Numbers DEF HasEvent
    <3> QED
      BY <1>1, <2>1, <3>1 DEF HasEvent, At, Still
  <2>2. CASE phase # "live"
    BY <1>1, <1>2, <2>2, Numbers DEF HasEvent, At, Still
  <2> QED
    BY <2>1, <2>2
<1>3. ASSUME stage[p] # "idle"
      PROVE  /\ Active(p)' /\ HasEvent(p)' /\ Mine(p)' /\ At(p)' > pos'[p]
             /\ stage[p] = "put" => Event(p)'.kind = "rotated"
  <2>1. /\ Active(p) /\ HasEvent(p) /\ Mine(p) /\ At(p) > pos[p]
        /\ stage[p] = "put" => Event(p).kind = "rotated"
    BY <1>3 DEF IInv, ProjectorInv
  <2>2. At(p)' = At(p) /\ HasEvent(p)' /\ log'[At(p)] = log[At(p)]
    BY <1>2, <2>1, AtInLog, PrefixesKept
  <2>3. Active(p)'
    BY <2>1 DEF Active, Replaying, Still
  <2>4. Mine(p)'
    BY <2>1, <2>2 DEF Mine
  <2>5. Event(p)' = Event(p)
    BY <2>2 DEF Event
  <2> QED
    BY <2>1, <2>2, <2>3, <2>4, <2>5 DEF Still
<1>4. ProjectorInv(p)'
  <2>1. /\ Warmed => pos[p] = mark[p]
        /\ stage[p] = "put" => p = "keys"
    BY DEF IInv, ProjectorInv
  <2>2. Warmed' <=> Warmed
    BY DEF Warmed, Still
  <2> QED
    BY <1>3, <2>1, <2>2 DEF ProjectorInv, Still
<1>5. ConsumerInv(p)'
  <2>1. \A j \in 1..next[p] - 1 :
           /\ stream'[j] = stream[j] /\ IsFor(p, stream[j])' =
                                           IsFor(p, stream[j])
    <3> SUFFICES ASSUME NEW j \in 1..next[p] - 1
                 PROVE  /\ stream'[j] = stream[j]
                        /\ IsFor(p, stream[j])' = IsFor(p, stream[j])
      OBVIOUS
    <3>1. j \in 1..Len(stream)
      BY Numbers
    <3>2. stream'[j] = stream[j] /\ stream[j] \in 1..Len(log)
      BY <1>1, <3>1, Numbers
    <3>3. log'[stream[j]] = log[stream[j]]
      BY <3>2, PrefixesKept
    <3> QED
      BY <3>2, <3>3 DEF IsFor
  <2>2. ConsumerInv(p)
    BY DEF IInv
  <2> QED
    BY <2>1, <2>2 DEF ConsumerInv, IsFor, Still
<1> QED
  BY <1>2, <1>4, <1>5

LEMMA NextKept ==
    ASSUME IInv, LogStep, NEW p \in Projectors, mark'[p] = mark[p],
           NEW n, NextFor(p, n)
    PROVE  NextFor(p, n)' /\ n \in 1..Len(log)
<1>1. n \in 1..Len(log)
  BY Numbers DEF NextFor
<1>2. \A m \in mark[p] + 1..n : log'[m] = log[m]
  BY <1>1, Numbers, PrefixesKept
<1>3. n \in mark[p] + 1..Len(log') /\ n \in mark[p] + 1..n
      /\ \A m \in mark[p] + 1..n - 1 : m \in mark[p] + 1..n
  BY <1>1, Numbers, PrefixesKept DEF NextFor
<1>4. IsFor(p, n)'
  BY <1>2, <1>3 DEF NextFor, IsFor
<1>5. \A m \in mark[p] + 1..n - 1 : ~IsFor(p, m)'
  BY <1>2, <1>3 DEF NextFor, IsFor
<1> QED
  BY <1>1, <1>3, <1>4, <1>5 DEF NextFor

\* p has no write behind it, or the same one as before.
SameWrite(p) == \/ stage'[p] = "idle"
                \/ /\ stage'[p] = stage[p]
                   /\ stage[p] # "idle" => At(p)' = At(p)

LEMMA AliasBucketKept ==
    ASSUME IInv, LogStep, mark'["aliases"] = mark["aliases"],
           aliasKV' = aliasKV, torn'["aliases"] = torn["aliases"],
           SameWrite("aliases")
    PROVE  AliasBucketInv'
<1>1. "aliases" \in Projectors
  BY DEF Projectors
<1> SUFFICES ASSUME ~torn["aliases"] PROVE AliasBucketInv'
  BY DEF AliasBucketInv
<1>2. /\ \/ aliasKV = AliasesAfter(mark["aliases"])
         \/ \E n \in 1..Len(log) : NextFor("aliases", n)
                                   /\ aliasKV = AliasesAfter(n)
      /\ stage["aliases"] = "written" =>
            aliasKV = AliasesAfter(At("aliases"))
  BY DEF IInv, AliasBucketInv
<1>3. \/ aliasKV' = AliasTruth(SubSeq(log', 1, mark'["aliases"]))
      \/ \E n \in 1..Len(log') : NextFor("aliases", n)'
                        /\ aliasKV' = AliasTruth(SubSeq(log', 1, n))
  <2>1. CASE aliasKV = AliasesAfter(mark["aliases"])
    BY <1>1, <2>1, Numbers, PrefixesKept
  <2>2. ASSUME NEW n \in 1..Len(log), NextFor("aliases", n),
               aliasKV = AliasesAfter(n)
        PROVE  /\ n \in 1..Len(log') /\ NextFor("aliases", n)'
               /\ aliasKV' = AliasTruth(SubSeq(log', 1, n))
    <3>1. n \in 0..Len(log) /\ n \in 1..Len(log')
      BY PrefixesKept
    <3> QED
      BY <1>1, <2>2, <3>1, NextKept, PrefixesKept
  <2> QED
    BY <1>2, <2>1, <2>2
<1>4. ASSUME stage'["aliases"] = "written"
      PROVE  aliasKV' = AliasTruth(SubSeq(log', 1, At("aliases")'))
  <2>1. At("aliases")' = At("aliases") /\ stage["aliases"] = "written"
    BY <1>4 DEF SameWrite
  <2>2. At("aliases") \in 0..Len(log)
    BY <1>1, <2>1, Begun
  <2> QED
    BY <1>2, <2>1, <2>2, PrefixesKept
<1> QED
  BY <1>3, <1>4 DEF AliasBucketInv, AliasesAfter

LEMMA HalfKept ==
    ASSUME IInv, LogStep, NEW n \in 1..Len(log)
    PROVE  /\ Half(n) = [KeysTruth(SubSeq(log', 1, n - 1)) EXCEPT
                            ![n] = KeysTruth(SubSeq(log', 1, n))[n]]
           /\ IsRotation(n)' = IsRotation(n)
<1>1. "keys" \in Projectors
  BY DEF Projectors
<1>2. n \in 0..Len(log) /\ n - 1 \in 0..Len(log)
  BY <1>1, Numbers
<1> QED
  BY <1>2, PrefixesKept DEF Half, IsRotation

LEMMA KeyBucketKept ==
    ASSUME IInv, LogStep, mark'["keys"] = mark["keys"],
           keysKV' = keysKV, torn'["keys"] = torn["keys"],
           SameWrite("keys")
    PROVE  KeyBucketInv'
<1> DEFINE after(n) == KeysTruth(SubSeq(log', 1, n))
           half(n) == [after(n - 1) EXCEPT ![n] = after(n)[n]]
<1>1. "keys" \in Projectors
  BY DEF Projectors
<1> SUFFICES ASSUME ~torn["keys"] PROVE KeyBucketInv'
  BY DEF KeyBucketInv
<1>2. /\ \/ keysKV = KeysAfter(mark["keys"])
         \/ \E n \in 1..Len(log) :
               /\ NextFor("keys", n)
               /\ \/ keysKV = KeysAfter(n)
                  \/ IsRotation(n) /\ keysKV = Half(n)
      /\ stage["keys"] = "put" => keysKV = Half(At("keys"))
      /\ stage["keys"] = "written" => keysKV = KeysAfter(At("keys"))
  BY DEF IInv, KeyBucketInv
<1>3. \A n \in 1..Len(log) : Half(n) = half(n)
                              /\ IsRotation(n)' = IsRotation(n)
  BY HalfKept
<1>4. \A n \in 0..Len(log) : KeysAfter(n) = after(n)
  BY PrefixesKept
<1> HIDE DEF after, half
<1>5. \/ keysKV' = after(mark'["keys"])
      \/ \E n \in 1..Len(log') :
            /\ NextFor("keys", n)'
            /\ \/ keysKV' = after(n)
               \/ IsRotation(n)' /\ keysKV' = half(n)
  <2>1. CASE keysKV = KeysAfter(mark["keys"])
    BY <1>1, <1>4, <2>1, Numbers
  <2>2. ASSUME NEW n \in 1..Len(log), NextFor("keys", n),
               keysKV = KeysAfter(n) \/ (IsRotation(n) /\ keysKV = Half(n))
        PROVE  /\ n \in 1..Len(log') /\ NextFor("keys", n)'
               /\ \/ keysKV' = after(n)
                  \/ IsRotation(n)' /\ keysKV' = half(n)
    <3>1. n \in 0..Len(log) /\ n \in 1..Len(log')
      BY PrefixesKept
    <3>2. NextFor("keys", n)'
      BY <1>1, <2>2, NextKept
    <3> QED
      BY <1>3, <1>4, <2>2, <3>1, <3>2
  <2> QED
    BY <1>2, <2>1, <2>2
<1>6. ASSUME stage'["keys"] # "idle"
      PROVE  /\ stage'["keys"] = stage["keys"] /\ At("keys")' = At("keys")
             /\ At("keys") \in 1..Len(log) /\ At("keys") \in 0..Len(log)
  <2>1. stage'["keys"] = stage["keys"] /\ At("keys")' = At("keys")
    BY <1>6 DEF SameWrite
  <2> QED
    BY <1>1, <1>6, <2>1, Begun
<1>7. stage'["keys"] = "put" => keysKV' = half(At("keys")')
  <2> SUFFICES ASSUME stage'["keys"] = "put"
               PROVE  keysKV' = half(At("keys")')
    OBVIOUS
  <2>1. /\ stage["keys"] = "put" /\ At("keys")' = At("keys")
        /\ At("keys") \in 1..Len(log)
    BY <1>6
  <2>2. keysKV = Half(At("keys"))
    BY <1>2, <2>1
  <2>3. Half(At("keys")) = half(At("keys"))
    BY <1>3, <2>1
  <2> QED
    BY <2>1, <2>2, <2>3
<1>8. stage'["keys"] = "written" => keysKV' = after(At("keys")')
  <2> SUFFICES ASSUME stage'["keys"] = "written"
               PROVE  keysKV' = after(At("keys")')
    OBVIOUS
  <2>1. /\ stage["keys"] = "written" /\ At("keys")' = At("keys")
        /\ At("keys") \in 0..Len(log)
    BY <1>6
  <2> QED
    BY <1>2, <1>4, <2>1
<1> QED
  BY <1>5, <1>7, <1>8 DEF KeyBucketInv, KeysAfter, Half, after, half

\* What the keys projector accounts for is in the log.
LEMMA KnownInLog ==
    ASSUME IInv
    PROVE  Known \in 0..Len(log)
<1>1. "keys" \in Projectors
  BY DEF Projectors
<1> QED
  BY <1>1, Begun, Numbers DEF Known

LEMMA KnownKept ==
    ASSUME IInv, pos'["keys"] = pos["keys"], stage'["keys"] = stage["keys"],
           stage["keys"] # "idle" => At("keys")' = At("keys")
    PROVE  Known' = Known
BY DEF Known

LEMMA HashKept ==
    ASSUME IInv, LogStep, Warmed' => Warmed, hashById' = hashById,
           Known' = Known
    PROVE  HashInv'
<1>1. "keys" \in Projectors
  BY DEF Projectors
<1> SUFFICES ASSUME Warmed', NEW k \in KeyIds
             PROVE  \/ hashById'[k] = Key(Known, k)'.hash
                    \/ /\ hashById'[k] \in Known' + 1..Len(log')
                       /\ Gives(hashById[k], k)'
  BY DEF HashInv
<1>2. \/ hashById[k] = Key(Known, k).hash
      \/ hashById[k] \in Known + 1..Len(log) /\ Gives(hashById[k], k)
  BY DEF IInv, HashInv
<1>3. Key(Known, k)' = Key(Known, k)
  <2>1. Load(SubSeq(log', 1, Known), "apikey", k) = Key(Known, k)
    BY KnownInLog, PrefixesKept
  <2> QED
    BY <2>1 DEF Key
<1>4. ASSUME hashById[k] \in Known + 1..Len(log), Gives(hashById[k], k)
      PROVE  /\ hashById[k] \in Known + 1..Len(log')
             /\ Gives(hashById[k], k)'
  <2>1. PICK h : h = hashById[k]
    OBVIOUS
  <2>2. h \in 1..Len(log) /\ h \in 1..Len(log')
    BY <1>4, <2>1, KnownInLog, PrefixesKept
  <2>3. Gives(h, k)'
    BY <1>4, <2>1, <2>2, PrefixesKept
  <2>4. hashById'[k] = h
    BY <2>1
  <2>5. Gives(hashById[k], k)'
    BY <2>3, <2>4 DEF Gives
  <2> QED
    BY <1>1, <1>4, <2>1, <2>2, <2>5, KnownInLog, Numbers
<1> QED
  BY <1>2, <1>3, <1>4

\* What a rebuild has to keep until it is done.
LEMMA ResyncKept ==
    ASSUME IInv, LogStep, UNCHANGED <<keysKV, torn, phase, job, hashById>>,
           mark'["keys"] = mark["keys"], stage'["keys"] = stage["keys"],
           aliasKV' = aliasKV \/ Warmed, Known' = Known
    PROVE  ResyncInv'
<1>1. "keys" \in Projectors
  BY DEF Projectors
<1>2. /\ keysKV' = keysKV /\ torn' = torn /\ phase' = phase /\ job' = job
      /\ hashById' = hashById /\ mark'["keys"] = mark["keys"]
      /\ stage'["keys"] = stage["keys"]
  OBVIOUS
<1>3. KeysAfter(mark["keys"])' = KeysAfter(mark["keys"])
  <2>1. KeysTruth(SubSeq(log', 1, mark["keys"])) = KeysAfter(mark["keys"])
    BY <1>1, Numbers, PrefixesKept
  <2> QED
    BY <1>2, <2>1 DEF KeysAfter
<1>4. \A k \in KeyIds : Key(Known, k)' = Key(Known, k)
  <2>1. \A k : Load(SubSeq(log', 1, Known), "apikey", k) = Key(Known, k)
    BY KnownInLog, PrefixesKept
  <2> QED
    BY <2>1 DEF Key
<1>5. ResyncInv
  BY DEF IInv
<1>6. /\ phase' \in Rebuilding => job' = "resync"
      /\ phase' \in {"resetKeys", "zeroAliases"} =>
            torn'["aliases"] /\ aliasKV' = EmptyAliases
      /\ phase' \in {"zeroAliases", "zeroKeys"} =>
            torn'["keys"] /\ keysKV' = EmptyKeys
      /\ job' = "resync" =>
            phase' \in Rebuilding \union {"start", "replayAliases",
                                          "replayKeys"}
      /\ job' = "resync" /\ phase' \in {"start", "replayAliases"} =>
            ~torn'["keys"] /\ mark'["keys"] = 0 /\ keysKV' = EmptyKeys
  BY <1>2, <1>5 DEF ResyncInv, Warmed
<1>7. job' = "resync" /\ phase' = "replayKeys" =>
         /\ ~torn'["keys"]
         /\ stage'["keys"] = "idle" => keysKV' = KeysAfter(mark["keys"])'
         /\ \A k \in KeyIds : (Key(Known, k)').hash # None =>
               hashById'[k] = (Key(Known, k)').hash
  BY <1>2, <1>3, <1>4, <1>5 DEF ResyncInv
<1> QED
  BY <1>6, <1>7 DEF ResyncInv, Rebuilding

\* The invariant but for the types, the log and the stream.
ProjectionInv ==
    /\ \A p \in Projectors : ProjectorInv(p) /\ ConsumerInv(p)
    /\ AliasBucketInv /\ KeyBucketInv /\ HashInv /\ ResyncInv

\* A step that applies nothing, in no other phase.
LEMMA QuietStep ==
    ASSUME IInv, LogStep,
           UNCHANGED <<mark, buckets, phase, job, pos, stage, hashById>>,
           \A p \in Projectors : \/ next'[p] = next[p]
                                 \/ stage[p] = "idle" /\ ConsumerInv(p)'
    PROVE  ProjectionInv'
<1>1. "keys" \in Projectors /\ "aliases" \in Projectors
  BY DEF Projectors
<1>2. /\ mark' = mark /\ aliasKV' = aliasKV /\ keysKV' = keysKV
      /\ torn' = torn /\ phase' = phase /\ job' = job /\ pos' = pos
      /\ stage' = stage /\ hashById' = hashById
  BY DEF buckets
<1>3. ASSUME NEW p \in Projectors
      PROVE  ProjectorInv(p)' /\ ConsumerInv(p)' /\ SameWrite(p)
  <2>1. CASE next'[p] = next[p]
    <3>1. Still(p)
      BY <1>2, <2>1 DEF Still
    <3>2. /\ ProjectorInv(p)' /\ ConsumerInv(p)'
          /\ HasEvent(p) => At(p)' = At(p)
      BY <3>1, ProjectorKept
    <3>3. stage[p] # "idle" => HasEvent(p)
      BY DEF IInv, ProjectorInv
    <3> QED
      BY <1>2, <3>2, <3>3 DEF SameWrite
  <2>2. CASE stage[p] = "idle" /\ ConsumerInv(p)'
    <3>1. Warmed => pos[p] = mark[p]
      BY DEF IInv, ProjectorInv
    <3>2. Warmed' <=> Warmed
      BY <1>2 DEF Warmed
    <3>3. ProjectorInv(p)'
      BY <1>2, <2>2, <3>1, <3>2 DEF ProjectorInv
    <3> QED
      BY <1>2, <2>2, <3>3 DEF SameWrite
  <2> QED
    BY <2>1, <2>2
<1>4. AliasBucketInv'
  BY <1>1, <1>2, <1>3, AliasBucketKept
<1>5. KeyBucketInv'
  BY <1>1, <1>2, <1>3, KeyBucketKept
<1>6. Known' = Known
  <2>1. stage["keys"] # "idle" => At("keys")' = At("keys")
    BY <1>1, <1>2, <1>3 DEF SameWrite
  <2> QED
    BY <1>2, <2>1, KnownKept
<1>7. HashInv'
  <2>1. Warmed' => Warmed
    BY <1>2 DEF Warmed
  <2> QED
    BY <1>2, <1>6, <2>1, HashKept
<1>8. ResyncInv'
  BY <1>2, <1>6, ResyncKept DEF buckets
<1> QED
  BY <1>3, <1>4, <1>5, <1>7, <1>8 DEF ProjectionInv

\* The durable consumer skips a message, sees one again or loses some.
LEMMA SkipStep ==
    ASSUME IInv, NEW p \in Projectors, Skip(p)
    PROVE  ProjectionInv'
<1>1. /\ phase = "live" /\ HasEvent(p) /\ (~Mine(p) \/ At(p) <= pos[p])
      /\ next' = [next EXCEPT ![p] = @ + 1]
      /\ UNCHANGED <<log, bus, mark, buckets, phase, job, memory, left>>
  BY DEF Skip, Consumed
<1>2. LogStep
  BY <1>1, SameLog
<1>3. \A q \in Projectors : q # p => next'[q] = next[q]
  BY <1>1 DEF IInv, TypeOK
<1>4. stage[p] = "idle"
  <2>1. stage[p] # "idle" => Mine(p) /\ At(p) > pos[p]
    BY DEF IInv, ProjectorInv
  <2>2. At(p) \in 1..Len(log)
    BY <1>1, AtInLog
  <2> QED
    BY <1>1, <2>1, <2>2, Numbers
<1>5. ConsumerInv(p)'
  <2>1. \A j \in 1..next[p] - 1 : IsFor(p, stream[j]) => stream[j] <= pos[p]
    BY <1>1 DEF IInv, ConsumerInv
  <2>2. IsFor(p, stream[next[p]]) => stream[next[p]] <= pos[p]
    BY <1>1 DEF At, Mine, IsFor
  <2>3. next'[p] = next[p] + 1 /\ next[p] \in Nat
    BY <1>1, Numbers DEF IInv, TypeOK
  <2>4. log' = log /\ stream' = stream /\ pos' = pos
    BY <1>1 DEF bus, memory
  <2>5. \A j \in 1..next'[p] - 1 : IsFor(p, stream[j]) =>
                                      stream[j] <= pos[p]
    BY <2>1, <2>2, <2>3
  <2> QED
    BY <2>4, <2>5 DEF ConsumerInv, IsFor
<1> QED
  BY <1>1, <1>2, <1>3, <1>4, <1>5, QuietStep DEF memory

LEMMA RedeliverStep ==
    ASSUME IInv, NEW p \in Projectors, Redeliver(p)
    PROVE  ProjectionInv'
<1>1. /\ phase = "live" /\ stage[p] = "idle" /\ next[p] > 1
      /\ next' = [next EXCEPT ![p] = @ - 1]
      /\ UNCHANGED <<log, bus, mark, buckets, phase, job, memory>>
  BY DEF Redeliver
<1>2. LogStep
  BY <1>1, SameLog
<1>3. \A q \in Projectors : q # p => next'[q] = next[q]
  BY <1>1 DEF IInv, TypeOK
<1>4. ConsumerInv(p)'
  <2>1. \A j \in 1..next[p] - 1 : IsFor(p, stream[j]) => stream[j] <= pos[p]
    BY <1>1 DEF IInv, ConsumerInv
  <2>2. next'[p] = next[p] - 1 /\ next[p] \in Nat
    BY <1>1, Numbers DEF IInv, TypeOK
  <2>3. log' = log /\ stream' = stream /\ pos' = pos
    BY <1>1 DEF bus, memory
  <2>4. \A j \in 1..next'[p] - 1 : j \in 1..next[p] - 1
    BY <2>2
  <2> QED
    BY <2>1, <2>3, <2>4 DEF ConsumerInv, IsFor
<1> QED
  BY <1>1, <1>2, <1>3, <1>4, QuietStep DEF memory

LEMMA ExpireStep ==
    ASSUME IInv, Expire
    PROVE  ProjectionInv'
<1>1. /\ phase = "down"
      /\ UNCHANGED <<log, bus, mark, buckets, phase, job, memory, left>>
  BY DEF Expire
<1>2. LogStep
  BY <1>1, SameLog
<1>3. \A p \in Projectors : stage[p] = "idle" /\ ConsumerInv(p)'
  BY <1>1 DEF IInv, ProjectorInv, Active, Replaying, ConsumerInv
<1> QED
  BY <1>1, <1>2, <1>3, QuietStep DEF memory

-----------------------------------------------------------------------------
(* Applying an event.                                                      *)

\* The begun projector keeps its place, the other one is not touched.
LEMMA ApplyFrame ==
    ASSUME IInv, NEW p \in Projectors, Applying(p), NEW s,
           stage' = [stage EXCEPT ![p] = s], s \in {"put", "written"},
           s = "put" => p = "keys" /\ Event(p).kind = "rotated",
           UNCHANGED <<log, bus, next, mark, torn, phase, job, pos>>
    PROVE  /\ LogStep /\ At(p)' = At(p) /\ stage'[p] = s
           /\ \A q \in Projectors : ProjectorInv(q)' /\ ConsumerInv(q)'
           /\ \A q \in Projectors : q # p =>
                 /\ SameWrite(q) /\ stage'[q] = stage[q]
                 /\ HasEvent(q) => At(q)' = At(q)
<1>1. LogStep
  BY SameLog
<1>2. /\ Active(p) /\ HasEvent(p) /\ Mine(p) /\ At(p) > pos[p]
      /\ pos[p] = mark[p]
  <2>1. Active(p) /\ HasEvent(p) /\ Mine(p) /\ At(p) > pos[p]
    BY Applies
  <2>2. Warmed
    BY <2>1 DEF Active, Replaying, Warmed
  <2> QED
    BY <2>1, <2>2 DEF IInv, ProjectorInv
<1>3. stage'[p] = s /\ \A q \in Projectors : q # p => stage'[q] = stage[q]
  BY DEF IInv, TypeOK
<1>4. log' = log /\ stream' = stream
  BY DEF bus
<1>5. At(p)' = At(p)
  BY <1>4 DEF At
<1>6. Active(p)' /\ HasEvent(p)' /\ Mine(p)' /\ Event(p)' = Event(p)
  BY <1>2, <1>4, <1>5 DEF Active, Replaying, HasEvent, Mine, Event
<1>7. ProjectorInv(p)'
  BY <1>2, <1>3, <1>5, <1>6 DEF ProjectorInv
<1>8. ConsumerInv(p)'
  <2>1. ConsumerInv(p)
    BY DEF IInv
  <2> QED
    BY <1>4, <2>1 DEF ConsumerInv, IsFor
<1>9. ASSUME NEW q \in Projectors, q # p
      PROVE  /\ ProjectorInv(q)' /\ ConsumerInv(q)' /\ SameWrite(q)
             /\ HasEvent(q) => At(q)' = At(q)
  <2>1. Still(q)
    BY <1>3, <1>9 DEF Still
  <2>2. stage[q] # "idle" => HasEvent(q)
    BY DEF IInv, ProjectorInv
  <2> QED
    BY <1>1, <1>3, <1>9, <2>1, <2>2, ProjectorKept DEF SameWrite
<1> QED
  BY <1>1, <1>3, <1>5, <1>7, <1>8, <1>9

LEMMA ApplyAliasStep ==
    ASSUME IInv, ApplyAlias
    PROVE  LogStep /\ ProjectionInv'
<1>1. "keys" \in Projectors /\ "aliases" \in Projectors
  BY DEF Projectors
<1>2. /\ Applying("aliases")
      /\ stage' = [stage EXCEPT !["aliases"] = "written"]
      /\ UNCHANGED <<log, bus, next, mark, keysKV, torn, phase, job, pos,
                     hashById>>
  BY DEF ApplyAlias, Step
<1>3. /\ LogStep /\ At("aliases")' = At("aliases")
      /\ stage'["aliases"] = "written" /\ stage'["keys"] = stage["keys"]
      /\ \A q \in Projectors : ProjectorInv(q)' /\ ConsumerInv(q)'
      /\ SameWrite("keys")
  BY <1>1, <1>2, ApplyFrame
<1>4. KeyBucketInv'
  BY <1>2, <1>3, KeyBucketKept
<1>5. Warmed /\ Warmed'
  <2>1. Active("aliases")
    BY <1>1, <1>2, Applies
  <2> QED
    BY <1>2, <2>1 DEF Active, Replaying, Warmed
<1>6. Known' = Known
  <2>1. stage["keys"] # "idle" => At("keys")' = At("keys")
    BY <1>1, <1>3 DEF SameWrite
  <2> QED
    BY <1>2, <1>3, <2>1, KnownKept
<1>7. HashInv'
  BY <1>2, <1>3, <1>5, <1>6, HashKept
<1>8. ResyncInv'
  BY <1>2, <1>3, <1>5, <1>6, ResyncKept
<1>9. AliasBucketInv'
  <2> SUFFICES ASSUME ~torn["aliases"] PROVE AliasBucketInv'
    BY <1>2 DEF AliasBucketInv
  <2>1. PICK n : n = At("aliases")
    OBVIOUS
  <2>2. aliasKV' = AliasesAfter(n)
    BY <2>1, AliasWrite
  <2>3. NextFor("aliases", n) /\ n \in 1..Len(log) /\ n \in 0..Len(log)
    BY <1>1, <1>2, <2>1, Applies
  <2>4. NextFor("aliases", n)' /\ n \in 1..Len(log')
    BY <1>1, <1>2, <1>3, <2>3, NextKept
  <2>5. aliasKV' = AliasTruth(SubSeq(log', 1, n))
    BY <1>3, <2>2, <2>3, PrefixesKept
  <2> QED
    BY <1>3, <2>1, <2>4, <2>5 DEF AliasBucketInv, AliasesAfter
<1> QED
  BY <1>3, <1>4, <1>7, <1>8, <1>9 DEF ProjectionInv

\* What is remembered when an event has been applied in full.
LEMMA Learns ==
    ASSUME IInv, Applying("keys"), stage["keys"] # "written",
           hashById' = IF Event("keys").kind \in {"created", "rotated"}
                       THEN [hashById EXCEPT ![Id("keys")] = At("keys")]
                       ELSE hashById,
           NEW k \in KeyIds
    PROVE  LET n == At("keys")
               h == hashById'[k]
               old == Key(mark["keys"], k).hash
               new == Key(n, k).hash
           IN  /\ h = new \/ (h \in n + 1..Len(log) /\ Gives(h, k))
               /\ (old # None => hashById[k] = old) =>
                     (new # None => h = new)
<1>1. "keys" \in Projectors /\ LogInv /\ Len(log) <= MaxLog
  BY Numbers DEF Projectors, IInv
<1>2. PICK n, id, e : n = At("keys") /\ id = Id("keys") /\ e = Event("keys")
  OBVIOUS
<1>3. /\ n \in 1..Len(log) /\ log[n].type = "apikey" /\ log[n].id = id
      /\ log[n].event = e /\ Key(n - 1, k) = Key(mark["keys"], k)
  <2>1. NextFor("keys", n)
    BY <1>1, <1>2, Applies
  <2>2. /\ n \in 1..Len(log) /\ log[n].type = "apikey"
        /\ Key(n - 1, k) = Key(mark["keys"], k)
    <3> HIDE DEF KeysAfter
    <3>1. n - 1 \in mark["keys"]..n - 1
      BY <1>1, <2>1, Numbers DEF NextFor
    <3>2. Key(n - 1, k) = Key(mark["keys"], k)
      BY <2>1, <3>1, UpToNext
    <3>3. n \in 1..Len(log) /\ log[n].type = "apikey"
      BY <1>1, <2>1, Numbers DEF NextFor, IsFor, TypeFor
    <3> QED
      BY <3>2, <3>3
  <2> QED
    BY <1>2, <2>2 DEF Id, Event
<1>4. \/ hashById[k] = Key(n - 1, k).hash
      \/ hashById[k] \in n..Len(log) /\ Gives(hashById[k], k)
  BY <1>2, Remembered
<1>5. DOMAIN hashById = KeyIds
  BY DEF IInv, TypeOK
<1>6. e \in KeyEvents
  BY <1>1, <1>3, EntryType
<1>7. CASE k = id /\ e.kind \in {"created", "rotated"}
  <2>1. hashById'[k] = n
    BY <1>2, <1>5, <1>7
  <2>2. Key(n, k).hash = n
    BY <1>1, <1>3, <1>7, CreatedStep, RotatedStep
  <2> QED
    BY <1>2, <2>1, <2>2
<1>8. CASE ~(k = id /\ e.kind \in {"created", "rotated"})
  <2>1. hashById'[k] = hashById[k]
    BY <1>2, <1>5, <1>8
  <2>2. Key(n, k).hash = Key(n - 1, k).hash
    <3>1. CASE k # id
      BY <1>1, <1>3, <3>1, KeyStep
    <3>2. CASE k = id /\ e.kind = "disabled"
      BY <1>1, <1>3, <3>2, DisabledStep
    <3>3. CASE k = id /\ e.kind \in {"allowlist", "limits"}
      BY <1>1, <1>3, <3>3, ChangedStep
    <3> QED
      BY <1>6, <1>8, <3>1, <3>2, <3>3 DEF KeyEvents
  <2>3. ~Gives(n, k)
    BY <1>3, <1>8 DEF Gives
  <2>4. hashById[k] \in n..Len(log) /\ Gives(hashById[k], k) =>
           hashById[k] \in n + 1..Len(log)
    BY <1>1, <1>3, <2>3, Numbers
  <2> QED
    BY <1>2, <1>3, <1>4, <2>1, <2>2, <2>4
<1> QED
  BY <1>7, <1>8

\* The last write for a key event.
LEMMA KeyWrittenStep ==
    ASSUME IInv, Applying("keys"), stage["keys"] # "written",
           stage' = [stage EXCEPT !["keys"] = "written"],
           UNCHANGED <<log, bus, next, mark, aliasKV, torn, phase, job, pos>>,
           hashById' = IF Event("keys").kind \in {"created", "rotated"}
                       THEN [hashById EXCEPT ![Id("keys")] = At("keys")]
                       ELSE hashById,
           ~torn["keys"] => keysKV' = KeysAfter(At("keys"))
    PROVE  LogStep /\ ProjectionInv'
<1>1. "keys" \in Projectors /\ "aliases" \in Projectors
  BY DEF Projectors
<1>2. /\ LogStep /\ At("keys")' = At("keys")
      /\ stage'["keys"] = "written"
      /\ \A q \in Projectors : ProjectorInv(q)' /\ ConsumerInv(q)'
      /\ SameWrite("aliases")
  BY <1>1, ApplyFrame
<1>3. AliasBucketInv'
  BY <1>1, <1>2, AliasBucketKept
<1>4. PICK n : n = At("keys")
  OBVIOUS
<1>5. /\ NextFor("keys", n) /\ n \in 1..Len(log) /\ n \in 0..Len(log)
      /\ Active("keys")
  BY <1>1, <1>4, Applies
<1>6. KeyBucketInv'
  <2> SUFFICES ASSUME ~torn["keys"] PROVE KeyBucketInv'
    BY DEF KeyBucketInv
  <2>1. NextFor("keys", n)' /\ n \in 1..Len(log')
    BY <1>1, <1>2, <1>5, NextKept, PrefixesKept
  <2>2. keysKV' = KeysTruth(SubSeq(log', 1, n))
    BY <1>2, <1>4, <1>5, PrefixesKept
  <2> QED
    BY <1>2, <1>4, <2>1, <2>2 DEF KeyBucketInv, KeysAfter
<1>7. Known' = n /\ Known = mark["keys"] /\ Warmed
  <2>1. Warmed
    BY <1>5 DEF Active, Replaying, Warmed
  <2> QED
    BY <1>1, <1>2, <1>4, <2>1 DEF Known, IInv, ProjectorInv
<1>8. \A k : Key(Known, k)' = Key(n, k)
  <2>1. \A k : Load(SubSeq(log', 1, n), "apikey", k) = Key(n, k)
    BY <1>2, <1>5, PrefixesKept
  <2> QED
    BY <1>7, <2>1 DEF Key
<1>9. \A k \in KeyIds :
         /\ \/ hashById'[k] = Key(n, k).hash
            \/ hashById'[k] \in n + 1..Len(log) /\ Gives(hashById'[k], k)
         /\ (Key(mark["keys"], k).hash # None =>
                hashById[k] = Key(mark["keys"], k).hash) =>
               (Key(n, k).hash # None => hashById'[k] = Key(n, k).hash)
  BY <1>4, Learns
<1>10. HashInv'
  <2>1. \A k, h : Gives(h, k) <=> /\ log'[h].type = "apikey"
                                  /\ log'[h].id = k
                                  /\ log'[h].event.kind
                                        \in {"created", "rotated"}
    BY DEF Gives
  <2>2. \A k \in KeyIds :
           \/ hashById'[k] = (Key(Known, k)').hash
           \/ /\ hashById'[k] \in Known' + 1..Len(log')
              /\ log'[hashById'[k]].type = "apikey"
              /\ log'[hashById'[k]].id = k
              /\ log'[hashById'[k]].event.kind \in {"created", "rotated"}
    BY <1>7, <1>8, <1>9, <2>1
  <2> QED
    BY <2>2 DEF HashInv, Gives
<1>11. ResyncInv'
  <2>1. ResyncInv
    BY DEF IInv
  <2>2. phase \in {"replayKeys", "live"} /\ phase' = phase /\ job' = job
    BY <1>5 DEF Active, Replaying
  <2>3. ASSUME job = "resync"
        PROVE  /\ phase = "replayKeys" /\ ~torn["keys"]
               /\ \A k \in KeyIds : (Key(Known, k)').hash # None =>
                     hashById'[k] = (Key(Known, k)').hash
    <3>1. phase = "replayKeys"
      BY <2>1, <2>2, <2>3 DEF ResyncInv, Rebuilding
    <3>2. /\ ~torn["keys"]
          /\ \A k \in KeyIds : Key(mark["keys"], k).hash # None =>
                hashById[k] = Key(mark["keys"], k).hash
      BY <1>7, <2>1, <2>3, <3>1 DEF ResyncInv
    <3> QED
      BY <1>8, <1>9, <3>1, <3>2
  <2> QED
    BY <1>2, <2>2, <2>3 DEF ResyncInv, Rebuilding
<1> QED
  BY <1>2, <1>3, <1>6, <1>10, <1>11 DEF ProjectionInv

\* The first of the two writes for a rotation.
LEMMA KeyHalfStep ==
    ASSUME IInv, Applying("keys"), stage["keys"] = "idle",
           stage' = [stage EXCEPT !["keys"] = "put"],
           Event("keys").kind = "rotated",
           UNCHANGED <<log, bus, next, mark, aliasKV, torn, phase, job, pos,
                       hashById>>,
           ~torn["keys"] => keysKV' = Half(At("keys"))
    PROVE  LogStep /\ ProjectionInv'
<1>1. "keys" \in Projectors /\ "aliases" \in Projectors
  BY DEF Projectors
<1>2. /\ LogStep /\ At("keys")' = At("keys")
      /\ stage'["keys"] = "put"
      /\ \A q \in Projectors : ProjectorInv(q)' /\ ConsumerInv(q)'
      /\ SameWrite("aliases")
  BY <1>1, ApplyFrame
<1>3. AliasBucketInv'
  BY <1>1, <1>2, AliasBucketKept
<1>4. PICK n : n = At("keys")
  OBVIOUS
<1>5. /\ NextFor("keys", n) /\ n \in 1..Len(log) /\ IsRotation(n)
      /\ Active("keys")
  BY <1>1, <1>4, Applies DEF Event, IsRotation
<1>6. KeyBucketInv'
  <2> SUFFICES ASSUME ~torn["keys"] PROVE KeyBucketInv'
    BY DEF KeyBucketInv
  <2>1. NextFor("keys", n)' /\ n \in 1..Len(log')
    BY <1>1, <1>2, <1>5, NextKept, PrefixesKept
  <2>2. /\ keysKV' = [KeysTruth(SubSeq(log', 1, n - 1)) EXCEPT
                         ![n] = KeysTruth(SubSeq(log', 1, n))[n]]
        /\ IsRotation(n)'
    BY <1>2, <1>4, <1>5, HalfKept
  <2> QED
    BY <1>2, <1>4, <2>1, <2>2 DEF KeyBucketInv, KeysAfter, Half
<1>7. Known' = Known /\ Warmed
  BY <1>2, <1>5 DEF Known, Active, Replaying, Warmed
<1>8. HashInv'
  BY <1>2, <1>7, HashKept
<1>9. ResyncInv'
  <2>1. ResyncInv
    BY DEF IInv
  <2>2. phase \in {"replayKeys", "live"} /\ phase' = phase /\ job' = job
    BY <1>5 DEF Active, Replaying
  <2>3. \A k : Key(Known, k)' = Key(Known, k)
    <3>1. \A k : Load(SubSeq(log', 1, Known), "apikey", k) = Key(Known, k)
      BY <1>2, KnownInLog, PrefixesKept
    <3> QED
      BY <1>7, <3>1 DEF Key
  <2>4. ASSUME job = "resync"
        PROVE  /\ phase = "replayKeys" /\ ~torn["keys"]
               /\ \A k \in KeyIds : (Key(Known, k)').hash # None =>
                     hashById'[k] = (Key(Known, k)').hash
    <3>1. phase = "replayKeys"
      BY <2>1, <2>2, <2>4 DEF ResyncInv, Rebuilding
    <3> QED
      BY <2>1, <2>3, <2>4, <3>1 DEF ResyncInv
  <2> QED
    BY <1>2, <2>2, <2>4 DEF ResyncInv, Rebuilding
<1> QED
  BY <1>2, <1>3, <1>6, <1>8, <1>9 DEF ProjectionInv

LEMMA ApplyKeyPutStep ==
    ASSUME IInv, ApplyKeyPut
    PROVE  LogStep /\ ProjectionInv'
<1>1. /\ Applying("keys") /\ stage["keys"] = "idle"
      /\ UNCHANGED <<log, bus, next, mark, aliasKV, torn, phase, job, pos>>
  BY DEF ApplyKeyPut, KeyWritten, Step
<1>2. PICK n : n = At("keys")
  OBVIOUS
<1>3. /\ n \in 1..Len(log) /\ log[n].type = "apikey"
      /\ Event("keys") = log[n].event /\ Id("keys") = log[n].id
      /\ LogInv /\ Len(log) <= MaxLog
  <2>1. "keys" \in Projectors
    BY DEF Projectors
  <2>2. NextFor("keys", n) /\ n \in 1..Len(log)
    BY <1>1, <1>2, <2>1, Applies
  <2> QED
    BY <1>2, <2>1, <2>2, Numbers DEF NextFor, IsFor, TypeFor, Event, Id, IInv
<1>4. IsRotation(n) <=> Event("keys").kind = "rotated"
  BY <1>3 DEF IsRotation
<1>5. ~torn["keys"] => keysKV' = IF IsRotation(n) THEN Half(n)
                                                  ELSE KeysAfter(n)
  BY <1>2, KeyPutWrite
<1>6. CASE Event("keys").kind = "created"
  <2>1. Event("keys").new = n
    BY <1>3, <1>6, CreatedStep
  <2>2. stage' = [stage EXCEPT !["keys"] = "written"]
    BY <1>6 DEF ApplyKeyPut, KeyWritten, Step
  <2>3. hashById' = [hashById EXCEPT ![Id("keys")] = At("keys")]
    BY <1>2, <1>6, <2>1 DEF ApplyKeyPut, Remember
  <2> QED
    BY <1>1, <1>2, <1>4, <1>5, <1>6, <2>2, <2>3, KeyWrittenStep
<1>7. CASE Event("keys").kind = "rotated"
  <2>1. stage' = [stage EXCEPT !["keys"] = "put"] /\ hashById' = hashById
    BY <1>7 DEF ApplyKeyPut, Step
  <2> QED
    BY <1>1, <1>2, <1>4, <1>5, <1>7, <2>1, KeyHalfStep
<1>8. CASE Event("keys").kind \in {"allowlist", "limits"}
  <2>1. /\ stage' = [stage EXCEPT !["keys"] = "written"]
        /\ hashById' = hashById
    BY <1>8 DEF ApplyKeyPut, KeyWritten, Step
  <2> QED
    BY <1>1, <1>2, <1>4, <1>5, <1>8, <2>1, KeyWrittenStep
<1> QED
  BY <1>6, <1>7, <1>8 DEF ApplyKeyPut

LEMMA ApplyKeyDeleteStep ==
    ASSUME IInv, ApplyKeyDelete
    PROVE  LogStep /\ ProjectionInv'
<1>1. /\ Applying("keys") /\ stage["keys"] # "written"
      /\ stage' = [stage EXCEPT !["keys"] = "written"]
      /\ UNCHANGED <<log, bus, next, mark, aliasKV, torn, phase, job, pos>>
  BY DEF ApplyKeyDelete, KeyWritten, Step
<1>2. PICK n : n = At("keys")
  OBVIOUS
<1>3. /\ n \in 1..Len(log) /\ log[n].type = "apikey"
      /\ Event("keys") = log[n].event /\ LogInv /\ Len(log) <= MaxLog
  <2>1. "keys" \in Projectors
    BY DEF Projectors
  <2>2. NextFor("keys", n) /\ n \in 1..Len(log)
    BY <1>1, <1>2, <2>1, Applies
  <2> QED
    BY <1>2, <2>1, <2>2, Numbers DEF NextFor, IsFor, TypeFor, Event, IInv
<1>4. ~torn["keys"] => keysKV' = KeysAfter(At("keys"))
  BY KeyDeleteWrite
<1>5. CASE Event("keys").kind = "rotated"
  <2>1. Event("keys").new = n
    BY <1>3, <1>5, RotatedStep
  <2>2. hashById' = [hashById EXCEPT ![Id("keys")] = At("keys")]
    BY <1>2, <1>5, <2>1 DEF ApplyKeyDelete, Remember
  <2> QED
    BY <1>1, <1>4, <1>5, <2>2, KeyWrittenStep
<1>6. CASE Event("keys").kind = "disabled"
  <2>1. hashById' = hashById
    BY <1>6 DEF ApplyKeyDelete
  <2> QED
    BY <1>1, <1>4, <1>6, <2>1, KeyWrittenStep
<1> QED
  BY <1>5, <1>6 DEF ApplyKeyDelete

-----------------------------------------------------------------------------
(* Saving the marker.                                                      *)

LEMMA SaveFrame ==
    ASSUME IInv, NEW p \in Projectors, Save(p)
    PROVE  /\ LogStep /\ Active(p) /\ HasEvent(p) /\ pos[p] = mark[p]
           /\ At(p) \in 1..Len(log) /\ At(p) > pos[p]
           /\ mark'[p] = At(p) /\ pos'[p] = At(p) /\ stage'[p] = "idle"
           /\ \/ stage[p] = "written"
              \/ stage[p] = "idle" /\ ~Mine(p) /\ At(p) = mark[p] + 1
           /\ \A q \in Projectors : ProjectorInv(q)' /\ ConsumerInv(q)'
           /\ \A q \in Projectors : q # p => SameWrite(q) /\ Still(q)
<1>1. /\ Active(p) /\ HasEvent(p) /\ At(p) > pos[p] /\ Applied(p)
      /\ pos' = [pos EXCEPT ![p] = At(p)]
      /\ mark' = [mark EXCEPT ![p] = At(p)]
      /\ stage' = [stage EXCEPT ![p] = "idle"]
      /\ IF phase = "live" THEN next' = [next EXCEPT ![p] = @ + 1]
                           ELSE next' = next
      /\ UNCHANGED <<log, bus, phase>>
  BY DEF Save, Running, Consumed
<1>2. LogStep
  BY <1>1, SameLog
<1>3. pos[p] = mark[p] /\ At(p) \in 1..Len(log)
  <2>1. Warmed
    BY <1>1 DEF Active, Replaying, Warmed
  <2> QED
    BY <1>1, <2>1, AtInLog DEF IInv, ProjectorInv
<1>4. /\ mark'[p] = At(p) /\ pos'[p] = At(p) /\ stage'[p] = "idle"
      /\ \A q \in Projectors : q # p => Still(q)
  BY <1>1 DEF IInv, TypeOK, Still
<1>5. \/ stage[p] = "written"
      \/ stage[p] = "idle" /\ ~Mine(p) /\ At(p) = mark[p] + 1
  <2> SUFFICES ASSUME stage[p] # "written"
               PROVE  stage[p] = "idle" /\ ~Mine(p) /\ At(p) = mark[p] + 1
    OBVIOUS
  <2>1. Replaying(p) /\ ~Mine(p)
    BY <1>1 DEF Applied
  <2>2. stage[p] = "idle"
    BY <2>1 DEF IInv, ProjectorInv
  <2>3. phase # "live"
    BY <2>1 DEF Replaying
  <2> QED
    BY <1>3, <2>1, <2>2, <2>3 DEF At
<1>6. ProjectorInv(p)'
  BY <1>4 DEF ProjectorInv
<1>7. ConsumerInv(p)'
  <2>1. log' = log /\ stream' = stream /\ phase' = phase
    BY <1>1 DEF bus
  <2>2. CASE phase = "live"
    <3>1. \A j \in 1..next[p] - 1 :
             IsFor(p, stream[j]) => stream[j] <= pos[p]
      BY <2>2 DEF IInv, ConsumerInv
    <3>2. next'[p] = next[p] + 1 /\ stream[next[p]] = At(p)
      BY <1>1, <2>2 DEF IInv, TypeOK, At
    <3>3. ASSUME NEW j \in 1..next'[p] - 1, IsFor(p, stream[j])
          PROVE  stream[j] <= At(p)
      <4>1. CASE j = next[p]
        BY <1>3, <3>2, <4>1, Numbers
      <4>2. CASE j # next[p]
        <5>1. j \in 1..next[p] - 1 /\ j \in 1..Len(stream)
          BY <3>2, <4>2, Numbers
        <5> QED
          BY <1>1, <1>3, <3>1, <3>3, <5>1, Numbers
      <4> QED
        BY <4>1, <4>2
    <3> QED
      BY <1>4, <2>1, <3>3 DEF ConsumerInv, IsFor
  <2>3. CASE phase # "live"
    <3>1. ~(phase = "replayKeys" /\ p = "aliases")
      BY <1>1, <2>3 DEF Active, Replaying
    <3> QED
      BY <2>1, <2>3, <3>1 DEF ConsumerInv
  <2> QED
    BY <2>2, <2>3
<1>8. ASSUME NEW q \in Projectors, q # p
      PROVE  ProjectorInv(q)' /\ ConsumerInv(q)' /\ SameWrite(q)
  <2>1. Still(q)
    BY <1>4, <1>8
  <2>2. stage[q] # "idle" => HasEvent(q)
    BY DEF IInv, ProjectorInv
  <2> QED
    BY <1>2, <2>1, <2>2, ProjectorKept DEF SameWrite, Still
<1> QED
  BY <1>1, <1>2, <1>3, <1>4, <1>5, <1>6, <1>7, <1>8

\* Past an event that is not for p, what was next still is.
LEMMA NextPassed ==
    ASSUME IInv, LogStep, NEW p \in Projectors, mark[p] + 1 <= Len(log),
           mark'[p] = mark[p] + 1, ~IsFor(p, mark[p] + 1),
           NEW n, NextFor(p, n)
    PROVE  NextFor(p, n)' /\ n \in 1..Len(log)
<1>1. n \in mark[p] + 1..Len(log) /\ n # mark[p] + 1
  BY DEF NextFor
<1>2. n \in mark[p] + 2..Len(log) /\ n \in 1..Len(log)
  BY <1>1, Numbers
<1>t. /\ mark[p] \in Nat /\ Len(log) \in Nat /\ Len(log') \in Nat
      /\ Len(log) <= Len(log')
  BY Numbers DEF LogStep, Grows
<1>3. \A m \in mark[p] + 1..n : log'[m] = log[m]
  <2>1. \A m \in 1..Len(log) : log'[m] = log[m]
    BY PrefixesKept
  <2>2. mark[p] + 1..n \subseteq 1..Len(log)
    BY <1>2, <1>t
  <2> QED
    BY <2>1, <2>2
<1>4. n \in mark'[p] + 1..Len(log') /\ n \in mark[p] + 1..n
  BY <1>2, <1>t
<1>5. IsFor(p, n)'
  BY <1>3, <1>4 DEF NextFor, IsFor
<1>6. \A m \in mark'[p] + 1..n - 1 : ~IsFor(p, m)'
  <2>1. \A m \in mark'[p] + 1..n - 1 :
           m \in mark[p] + 1..n - 1 /\ m \in mark[p] + 1..n
    BY <1>2, Numbers
  <2> QED
    BY <1>3, <2>1 DEF NextFor, IsFor
<1> QED
  BY <1>2, <1>4, <1>5, <1>6 DEF NextFor

LEMMA SaveAliasesStep ==
    ASSUME IInv, Save("aliases")
    PROVE  LogStep /\ ProjectionInv'
<1> DEFINE p == "aliases"
<1>1. p \in Projectors /\ "keys" \in Projectors /\ LogInv
  BY DEF Projectors, IInv
<1>2. /\ LogStep /\ Active(p) /\ HasEvent(p) /\ pos[p] = mark[p]
      /\ At(p) \in 1..Len(log) /\ At(p) > pos[p]
      /\ mark'[p] = At(p) /\ pos'[p] = At(p) /\ stage'[p] = "idle"
      /\ \/ stage[p] = "written"
         \/ stage[p] = "idle" /\ ~Mine(p) /\ At(p) = mark[p] + 1
      /\ \A q \in Projectors : ProjectorInv(q)' /\ ConsumerInv(q)'
      /\ SameWrite("keys") /\ Still("keys")
  BY <1>1, SaveFrame
<1>3. /\ UNCHANGED <<aliasKV, keysKV, torn, phase, job, hashById>>
  BY DEF Save, buckets
<1>4. KeyBucketInv'
  BY <1>2, <1>3, KeyBucketKept DEF Still
<1>5. Known' = Known
  <2>1. stage["keys"] # "idle" => At("keys")' = At("keys")
    BY <1>1, <1>2 DEF SameWrite, Still
  <2> QED
    BY <1>2, <2>1, KnownKept DEF Still
<1>6. HashInv'
  <2>1. Warmed' => Warmed
    BY <1>3 DEF Warmed
  <2> QED
    BY <1>2, <1>3, <1>5, <2>1, HashKept
<1>7. ResyncInv'
  BY <1>2, <1>3, <1>5, ResyncKept DEF Still
<1>8. AliasBucketInv'
  <2> SUFFICES ASSUME ~torn[p] PROVE AliasBucketInv'
    BY <1>3 DEF AliasBucketInv
  <2>1. PICK n : n = At(p)
    OBVIOUS
  <2>2. n \in 0..Len(log) /\ AliasesAfter(n) = AliasTruth(SubSeq(log', 1, n))
    BY <1>2, <2>1, PrefixesKept
  <2>3. CASE stage[p] = "written"
    <3>1. aliasKV = AliasesAfter(n)
      BY <2>1, <2>3 DEF IInv, AliasBucketInv
    <3> QED
      BY <1>2, <1>3, <2>1, <2>2, <3>1 DEF AliasBucketInv, AliasesAfter
  <2>4. CASE stage[p] = "idle" /\ ~Mine(p) /\ At(p) = mark[p] + 1
    <3>1. ~IsFor(p, mark[p] + 1) /\ mark[p] + 1 <= Len(log) /\ n = mark[p] + 1
      BY <1>1, <1>2, <2>1, <2>4, Numbers DEF Mine, IsFor
    <3>2. AliasesAfter(n) = AliasesAfter(mark[p])
      <4>1. \A m \in mark[p] + 1..n : log[m].type # "alias"
        BY <1>1, <3>1, Numbers DEF IsFor, TypeFor
      <4>2. mark[p] \in 0..Len(log) /\ n \in mark[p]..Len(log)
        BY <1>1, <3>1, Numbers
      <4> QED
        BY <1>1, <4>1, <4>2, NothingNew
    <3>3. CASE aliasKV = AliasesAfter(mark[p])
      BY <1>2, <1>3, <2>1, <2>2, <3>2, <3>3 DEF AliasBucketInv, AliasesAfter
    <3>4. ASSUME NEW m \in 1..Len(log), NextFor(p, m),
                 aliasKV = AliasesAfter(m)
          PROVE  AliasBucketInv'
      <4>1. NextFor(p, m)'
        BY <1>1, <1>2, <2>1, <3>1, <3>4, NextPassed
      <4>2. m \in 1..Len(log') /\ m \in 0..Len(log)
            /\ AliasesAfter(m) = AliasTruth(SubSeq(log', 1, m))
        BY <1>2, PrefixesKept
      <4> QED
        BY <1>2, <1>3, <3>4, <4>1, <4>2 DEF AliasBucketInv, AliasesAfter
    <3> QED
      BY <3>3, <3>4 DEF IInv, AliasBucketInv
  <2> QED
    BY <1>2, <2>3, <2>4
<1> QED
  BY <1>2, <1>4, <1>6, <1>7, <1>8 DEF ProjectionInv

LEMMA SaveKeysStep ==
    ASSUME IInv, Save("keys")
    PROVE  LogStep /\ ProjectionInv'
<1> DEFINE p == "keys"
<1>1. p \in Projectors /\ "aliases" \in Projectors /\ LogInv
  BY DEF Projectors, IInv
<1>2. /\ LogStep /\ Active(p) /\ HasEvent(p) /\ pos[p] = mark[p]
      /\ At(p) \in 1..Len(log) /\ At(p) > pos[p]
      /\ mark'[p] = At(p) /\ pos'[p] = At(p) /\ stage'[p] = "idle"
      /\ \/ stage[p] = "written"
         \/ stage[p] = "idle" /\ ~Mine(p) /\ At(p) = mark[p] + 1
      /\ \A q \in Projectors : ProjectorInv(q)' /\ ConsumerInv(q)'
      /\ SameWrite("aliases") /\ Still("aliases")
  BY <1>1, SaveFrame
<1>3. /\ UNCHANGED <<log, aliasKV, keysKV, torn, phase, job, hashById>>
  BY DEF Save, buckets
<1>4. AliasBucketInv'
  BY <1>2, <1>3, AliasBucketKept DEF Still
<1>5. PICK n : n = At(p)
  OBVIOUS
<1>6. /\ n \in 0..Len(log) /\ n \in 1..Len(log)
      /\ KeysAfter(n) = KeysTruth(SubSeq(log', 1, n))
      /\ \A k : Load(SubSeq(log', 1, n), "apikey", k) = Key(n, k)
  BY <1>2, <1>5, PrefixesKept
<1>7. Known' = n
  BY <1>2, <1>5 DEF Known
<1>8. \A k : Key(Known, k)' = Key(n, k)
  BY <1>6, <1>7 DEF Key
<1>9. Warmed /\ phase \in {"replayKeys", "live"}
  BY <1>2 DEF Active, Replaying, Warmed
<1>10. CASE stage[p] = "written"
  <2>1. Known = n
    BY <1>5, <1>10 DEF Known
  <2>2. HashInv'
    BY <1>2, <1>3, <1>7, <1>9, <2>1, HashKept
  <2>3. ~torn[p] => keysKV' = KeysTruth(SubSeq(log', 1, n))
    BY <1>3, <1>5, <1>6, <1>10 DEF IInv, KeyBucketInv
  <2>4. KeyBucketInv'
    BY <1>2, <1>3, <1>5, <2>3 DEF KeyBucketInv, KeysAfter
  <2>5. ResyncInv'
    <3>1. ResyncInv
      BY DEF IInv
    <3>2. ASSUME job = "resync"
          PROVE  /\ phase = "replayKeys" /\ ~torn[p]
                 /\ \A k \in KeyIds : (Key(Known, k)').hash # None =>
                       hashById'[k] = (Key(Known, k)').hash
      <4>1. phase = "replayKeys"
        BY <1>9, <3>1, <3>2 DEF ResyncInv, Rebuilding
      <4> QED
        BY <1>3, <1>8, <2>1, <3>1, <3>2, <4>1 DEF ResyncInv
    <3>3. ~torn[p] => keysKV' = KeysAfter(mark[p])'
      BY <1>2, <1>5, <2>3 DEF KeysAfter
    <3> QED
      BY <1>3, <1>9, <3>2, <3>3 DEF ResyncInv, Rebuilding
  <2> QED
    BY <1>2, <1>4, <2>2, <2>4, <2>5 DEF ProjectionInv
<1>11. CASE stage[p] = "idle" /\ ~Mine(p) /\ At(p) = mark[p] + 1
  <2>1. /\ ~IsFor(p, mark[p] + 1) /\ mark[p] + 1 <= Len(log)
        /\ n = mark[p] + 1 /\ Known = mark[p]
    BY <1>1, <1>2, <1>5, <1>11, Numbers DEF Mine, IsFor, Known
  <2>2. KeysAfter(n) = KeysAfter(mark[p])
        /\ \A k : Key(n, k) = Key(mark[p], k)
    <3>1. \A m \in mark[p] + 1..n : log[m].type # "apikey"
      BY <1>1, <2>1, Numbers DEF IsFor, TypeFor
    <3>2. mark[p] \in 0..Len(log) /\ n \in mark[p]..Len(log)
      BY <1>1, <2>1, Numbers
    <3> QED
      BY <1>1, <3>1, <3>2, NothingNew
  <2>3. HashInv'
    <3> SUFFICES ASSUME NEW k \in KeyIds
                 PROVE  \/ hashById'[k] = (Key(Known, k)').hash
                        \/ /\ hashById'[k] \in Known' + 1..Len(log')
                           /\ Gives(hashById[k], k)'
      BY <1>3 DEF HashInv, Gives
    <3>1. \/ hashById[k] = Key(mark[p], k).hash
          \/ hashById[k] \in n..Len(log) /\ Gives(hashById[k], k)
      BY <1>9, <2>1 DEF IInv, HashInv
    <3>2. ASSUME hashById[k] \in n..Len(log), Gives(hashById[k], k)
          PROVE  hashById[k] \in n + 1..Len(log) /\ Gives(hashById[k], k)'
      <4>1. hashById[k] # n
        BY <2>1, <3>2 DEF IsFor, TypeFor, Gives
      <4>2. Gives(hashById[k], k)'
        BY <1>3, <3>2 DEF Gives
      <4> QED
        BY <1>1, <1>6, <3>2, <4>1, <4>2, Numbers
    <3> QED
      BY <1>3, <1>7, <1>8, <2>2, <3>1, <3>2
  <2>4. KeyBucketInv'
    <3> SUFFICES ASSUME ~torn[p] PROVE KeyBucketInv'
      BY <1>3 DEF KeyBucketInv
    <3>1. CASE keysKV = KeysAfter(mark[p])
      BY <1>2, <1>3, <1>5, <1>6, <2>2, <3>1 DEF KeyBucketInv, KeysAfter
    <3>2. ASSUME NEW m \in 1..Len(log), NextFor(p, m),
                 keysKV = KeysAfter(m) \/ (IsRotation(m) /\ keysKV = Half(m))
          PROVE  KeyBucketInv'
      <4>1. NextFor(p, m)'
        BY <1>1, <1>2, <1>5, <2>1, <3>2, NextPassed
      <4>2. m \in 1..Len(log') /\ m \in 0..Len(log)
            /\ KeysAfter(m) = KeysTruth(SubSeq(log', 1, m))
        BY <1>2, PrefixesKept
      <4>3. /\ Half(m) = [KeysTruth(SubSeq(log', 1, m - 1)) EXCEPT
                             ![m] = KeysTruth(SubSeq(log', 1, m))[m]]
            /\ IsRotation(m)' = IsRotation(m)
        BY <1>2, HalfKept
      <4>4. \/ keysKV' = KeysAfter(m)'
            \/ IsRotation(m)' /\ keysKV' = Half(m)'
        BY <1>3, <3>2, <4>2, <4>3 DEF KeysAfter, Half
      <4> QED
        BY <1>2, <1>3, <4>1, <4>2, <4>4 DEF KeyBucketInv
    <3> QED
      BY <3>1, <3>2 DEF IInv, KeyBucketInv
  <2>5. ResyncInv'
    <3>1. ResyncInv
      BY DEF IInv
    <3>2. ASSUME job = "resync"
          PROVE  /\ phase = "replayKeys" /\ ~torn[p]
                 /\ keysKV = KeysAfter(mark[p])
                 /\ \A k \in KeyIds : (Key(Known, k)').hash # None =>
                       hashById'[k] = (Key(Known, k)').hash
      <4>1. phase = "replayKeys"
        BY <1>9, <3>1, <3>2 DEF ResyncInv, Rebuilding
      <4> QED
        BY <1>3, <1>8, <1>11, <2>1, <2>2, <3>1, <3>2, <4>1 DEF ResyncInv
    <3>3. keysKV = KeysAfter(mark[p]) => keysKV' = KeysAfter(mark[p])'
      BY <1>2, <1>3, <1>5, <1>6, <2>2 DEF KeysAfter
    <3> QED
      BY <1>3, <1>9, <3>2, <3>3 DEF ResyncInv, Rebuilding
  <2> QED
    BY <1>2, <1>4, <2>3, <2>4, <2>5 DEF ProjectionInv
<1> QED
  BY <1>2, <1>10, <1>11

-----------------------------------------------------------------------------
(* The generations of projectors.                                          *)

\* Outside of a replay and of the live phase no event is begun.
LEMMA Idle ==
    ASSUME IInv, ~Warmed, NEW p \in Projectors
    PROVE  stage[p] = "idle"
BY DEF IInv, ProjectorInv, Active, Replaying, Warmed

\* The projectors stop, for whatever reason, and start over some time.
LEMMA StopStep ==
    ASSUME IInv, UNCHANGED <<log, bus, mark, buckets>>,
           \A p \in Projectors : stage'[p] = "idle",
           \/ phase' \in {"down", "failed", "start"} /\ job' = "run"
           \/ phase' = "resetAliases" /\ job' = "resync"
    PROVE  LogStep /\ ProjectionInv'
<1>1. "keys" \in Projectors /\ "aliases" \in Projectors
  BY DEF Projectors
<1>2. LogStep
  BY SameLog
<1>3. UNCHANGED <<mark, aliasKV, keysKV, torn>>
  BY DEF buckets
<1>4. AliasBucketInv' /\ KeyBucketInv'
  BY <1>1, <1>2, <1>3, AliasBucketKept, KeyBucketKept DEF SameWrite
<1>5. \A p \in Projectors : ProjectorInv(p)' /\ ConsumerInv(p)'
  BY DEF ProjectorInv, ConsumerInv, Warmed
<1>6. HashInv'
  BY DEF HashInv, Warmed
<1>7. ResyncInv'
  BY DEF ResyncInv, Rebuilding
<1> QED
  BY <1>2, <1>4, <1>5, <1>6, <1>7 DEF ProjectionInv

\* Only while it replays is a resync not over.
LEMMA RunsWhenLive ==
    ASSUME IInv, phase \in {"live", "down", "failed"}
    PROVE  job = "run"
BY DEF IInv, TypeOK, ResyncInv, Rebuilding

LEMMA ForgetIdles ==
    ASSUME Forget
    PROVE  \A p \in Projectors : stage'[p] = "idle"
BY DEF Forget, Each

LEMMA HaltStep ==
    ASSUME IInv, Halt \/ Crash \/ Resync
    PROVE  LogStep /\ ProjectionInv'
<1>1. /\ UNCHANGED <<log, bus, mark, buckets>>
      /\ \/ phase' \in {"down", "failed", "start"} /\ job' = "run"
         \/ phase' = "resetAliases" /\ job' = "resync"
  BY RunsWhenLive DEF Halt, Crash, Resync
<1>2. \A p \in Projectors : stage'[p] = "idle"
  BY ForgetIdles DEF Halt, Crash, Resync
<1> QED
  BY <1>1, <1>2, StopStep

LEMMA RestartStep ==
    ASSUME IInv, Restart \/ ResyncFails
    PROVE  LogStep /\ ProjectionInv'
<1>1. /\ UNCHANGED <<log, bus, mark, buckets, memory>>
      /\ phase' = "start" /\ job' = "run" /\ ~Warmed
  BY RunsWhenLive DEF Restart, ResyncFails, Warmed
<1>2. \A p \in Projectors : stage'[p] = "idle"
  BY <1>1, Idle DEF memory
<1> QED
  BY <1>1, <1>2, StopStep

LEMMA FailStep ==
    ASSUME IInv, NEW p \in Projectors, NEW why, Fail(p, why)
    PROVE  LogStep /\ ProjectionInv'
<1>1. UNCHANGED <<log, bus, next, mark, buckets>>
  BY DEF Fail
<1>2. CASE phase = "live"
  <2>1. UNCHANGED <<phase, job, pos, stage, hashById>>
    BY <1>2 DEF Fail
  <2>2. LogStep
    BY <1>1, SameLog
  <2> QED
    BY <1>1, <2>1, <2>2, QuietStep
<1>3. CASE phase # "live"
  <2>1. phase' \in {"failed", "start"} /\ job' = "run" /\ Forget
    BY <1>3 DEF Fail
  <2> QED
    BY <1>1, <2>1, ForgetIdles, StopStep
<1> QED
  BY <1>2, <1>3

LEMMA StartStep ==
    ASSUME IInv, Start
    PROVE  LogStep /\ ProjectionInv'
<1>1. "keys" \in Projectors /\ "aliases" \in Projectors /\ LogInv
  BY DEF Projectors, IInv
<1>2. /\ phase = "start" /\ phase' = "replayAliases" /\ pos' = mark
      /\ hashById' = [k \in KeyIds |-> Warm(k)]
      /\ UNCHANGED <<log, bus, next, mark, aliasKV, keysKV, torn, job, stage>>
  BY DEF Start, buckets
<1>3. LogStep
  BY <1>2, SameLog
<1>4. \A p \in Projectors : stage'[p] = "idle"
  BY <1>2, Idle DEF Warmed
<1>5. AliasBucketInv' /\ KeyBucketInv'
  BY <1>1, <1>2, <1>3, <1>4, AliasBucketKept, KeyBucketKept DEF SameWrite
<1>6. \A p \in Projectors : ProjectorInv(p)' /\ ConsumerInv(p)'
  BY <1>2, <1>4 DEF ProjectorInv, ConsumerInv
<1>7. HashInv'
  <2>1. Known' = mark["keys"]
    BY <1>1, <1>2, <1>4 DEF Known
  <2>2. ASSUME NEW k \in KeyIds
        PROVE  \/ hashById'[k] = (Key(Known, k)').hash
               \/ /\ hashById'[k] \in Known' + 1..Len(log')
                  /\ log'[hashById'[k]].type = "apikey"
                  /\ log'[hashById'[k]].id = k
                  /\ log'[hashById'[k]].event.kind
                        \in {"created", "rotated"}
    <3>1. hashById'[k] = Key(Len(log), k).hash
      <4>1. Key(Len(log), k) = Load(log, "apikey", k)
        BY <1>1, LoadAll DEF LogInv, Key
      <4> QED
        BY <1>2, <4>1 DEF Warm
    <3>2. \/ Key(Len(log), k).hash = Key(mark["keys"], k).hash
          \/ /\ Key(Len(log), k).hash \in mark["keys"] + 1..Len(log)
             /\ Gives(Key(Len(log), k).hash, k)
      BY <1>1, Numbers, KeyLater
    <3>3. Key(Known, k)' = Key(mark["keys"], k)
      BY <1>2, <2>1 DEF Key
    <3> QED
      BY <1>2, <2>1, <3>1, <3>2, <3>3 DEF Gives
  <2> QED
    BY <2>2 DEF HashInv, Gives
<1>8. ResyncInv'
  BY <1>2 DEF IInv, ResyncInv, Rebuilding
<1> QED
  BY <1>3, <1>5, <1>6, <1>7, <1>8 DEF ProjectionInv

LEMMA AliasesReplayedStep ==
    ASSUME IInv, AliasesReplayed
    PROVE  LogStep /\ ProjectionInv'
<1>1. "keys" \in Projectors /\ "aliases" \in Projectors /\ LogInv
  BY DEF Projectors, IInv
<1>2. /\ phase = "replayAliases" /\ phase' = "replayKeys"
      /\ ~HasEvent("aliases")
      /\ UNCHANGED <<log, bus, next, mark, aliasKV, keysKV, torn, job, pos,
                     stage, hashById>>
  BY DEF AliasesReplayed, buckets, memory
<1>3. LogStep
  BY <1>2, SameLog
<1>4. \A p \in Projectors : stage[p] = "idle" /\ pos[p] = mark[p]
  BY <1>2 DEF IInv, ProjectorInv, Active, Replaying, Projectors, Warmed
<1>5. AliasBucketInv' /\ KeyBucketInv'
  BY <1>1, <1>2, <1>3, <1>4, AliasBucketKept, KeyBucketKept DEF SameWrite
<1>6. \A p \in Projectors : ProjectorInv(p)'
  BY <1>2, <1>4 DEF ProjectorInv
<1>7. ConsumerInv("aliases")' /\ ConsumerInv("keys")'
  <2>1. pos["aliases"] = Len(log)
    BY <1>1, <1>2, Numbers DEF HasEvent
  <2>2. \A j \in 1..next["aliases"] - 1 : stream[j] <= pos["aliases"]
    BY <1>1, <2>1, Numbers
  <2> QED
    BY <1>2, <2>2 DEF ConsumerInv, bus
<1>8. Known' = Known
  BY <1>1, <1>2, <1>4, KnownKept
<1>9. HashInv'
  BY <1>2, <1>3, <1>8, HashKept DEF Warmed
<1>10. ResyncInv'
  <2>1. Known' = mark["keys"]
    BY <1>1, <1>2, <1>4 DEF Known
  <2>2. job = "resync" => /\ ~torn["keys"] /\ mark["keys"] = 0
                          /\ keysKV = EmptyKeys
    BY <1>2 DEF IInv, ResyncInv
  <2>3. job = "resync" => /\ keysKV' = KeysAfter(mark["keys"])'
                          /\ \A k \in KeyIds : (Key(Known, k)').hash = None
    <3>1. KeysTruth(SubSeq(log, 1, 0)) = EmptyKeys
      BY <1>1, NothingYet DEF KeysAfter
    <3>2. \A k : Load(SubSeq(log, 1, 0), "apikey", k).hash = None
      BY <1>1, FirstStates DEF Key, NewKey
    <3> QED
      BY <1>2, <2>1, <2>2, <3>1, <3>2 DEF KeysAfter, Key
  <2> QED
    BY <1>2, <2>2, <2>3 DEF ResyncInv, Rebuilding
<1> QED
  BY <1>3, <1>5, <1>6, <1>7, <1>9, <1>10 DEF ProjectionInv, Projectors

LEMMA KeysReplayedStep ==
    ASSUME IInv, KeysReplayed
    PROVE  LogStep /\ ProjectionInv'
<1>1. "keys" \in Projectors /\ "aliases" \in Projectors
  BY DEF Projectors
<1>2. /\ phase = "replayKeys" /\ ~HasEvent("keys")
      /\ UNCHANGED <<log, bus, next, mark, buckets>>
  BY DEF KeysReplayed
<1>3. CASE job = "resync"
  <2>1. phase' = "start" /\ job' = "run" /\ Forget
    BY <1>3 DEF KeysReplayed
  <2> QED
    BY <1>2, <2>1, ForgetIdles, StopStep
<1>4. CASE job # "resync"
  <2>1. /\ phase' = "live" /\ job' = job /\ job = "run"
        /\ UNCHANGED <<aliasKV, keysKV, torn, pos, stage, hashById>>
    BY <1>2, <1>4 DEF KeysReplayed, memory, buckets
  <2>2. LogStep
    BY <1>2, SameLog
  <2>3. \A p \in Projectors : stage[p] = "idle" /\ pos[p] = mark[p]
    BY <1>2 DEF IInv, ProjectorInv, Active, Replaying, Projectors, Warmed
  <2>4. AliasBucketInv' /\ KeyBucketInv'
    BY <1>1, <1>2, <2>1, <2>2, <2>3, AliasBucketKept, KeyBucketKept
       DEF SameWrite
  <2>5. \A p \in Projectors : ProjectorInv(p)'
    BY <1>2, <2>1, <2>3 DEF ProjectorInv
  <2>6. ConsumerInv("aliases")' /\ ConsumerInv("keys")'
    <3>1. pos["keys"] = Len(log)
      BY <1>1, <1>2, Numbers DEF HasEvent
    <3>2. \A j \in 1..next["keys"] - 1 : stream[j] <= pos["keys"]
      BY <1>1, <3>1, Numbers
    <3>3. \A j \in 1..next["aliases"] - 1 : IsFor("aliases", stream[j]) =>
                                               stream[j] <= pos["aliases"]
      BY <1>1, <1>2 DEF IInv, ConsumerInv
    <3> QED
      BY <1>2, <2>1, <3>2, <3>3 DEF ConsumerInv, IsFor, bus
  <2>7. Known' = Known
    BY <1>1, <2>1, <2>3, KnownKept
  <2>8. HashInv'
    BY <1>2, <2>1, <2>2, <2>7, HashKept DEF Warmed
  <2>9. ResyncInv'
    BY <2>1 DEF ResyncInv, Rebuilding
  <2> QED
    BY <2>2, <2>4, <2>5, <2>6, <2>8, <2>9 DEF ProjectionInv, Projectors
<1> QED
  BY <1>3, <1>4

LEMMA ResetStep ==
    ASSUME IInv, ResetAliases \/ ResetKeys \/ ZeroAliases \/ ZeroKeys
    PROVE  LogStep /\ ProjectionInv'
<1>1. "keys" \in Projectors /\ "aliases" \in Projectors /\ LogInv
  BY DEF Projectors, IInv
<1>2. /\ UNCHANGED <<log, bus, next, job, pos, stage, hashById>>
      /\ phase \in Rebuilding /\ phase' \in Rebuilding \union {"start"}
  BY DEF ResetAliases, ResetKeys, ZeroAliases, ZeroKeys, Zero, memory,
         Rebuilding
<1>3. LogStep
  BY <1>2, SameLog
<1>4. \A p \in Projectors : stage'[p] = "idle"
  BY <1>2, Idle DEF Warmed, Rebuilding
<1>5. \A p \in Projectors : ProjectorInv(p)' /\ ConsumerInv(p)'
  BY <1>2, <1>4 DEF ProjectorInv, ConsumerInv, Warmed, Rebuilding
<1>6. HashInv'
  BY <1>2 DEF HashInv, Warmed, Rebuilding
<1>7. /\ job = "resync"
      /\ phase \in {"resetKeys", "zeroAliases"} =>
            torn["aliases"] /\ aliasKV = EmptyAliases
      /\ phase \in {"zeroAliases", "zeroKeys"} =>
            torn["keys"] /\ keysKV = EmptyKeys
  BY <1>2 DEF IInv, ResyncInv
<1>8. /\ DOMAIN torn = Projectors /\ DOMAIN mark = Projectors
  BY DEF IInv, TypeOK
<1>9. CASE ResetAliases
  <2>1. /\ phase' = "resetKeys" /\ aliasKV' = EmptyAliases
        /\ torn'["aliases"] = TRUE /\ torn'["keys"] = torn["keys"]
        /\ mark' = mark /\ keysKV' = keysKV /\ job' = job
    BY <1>1, <1>8, <1>9 DEF ResetAliases
  <2>2. AliasBucketInv'
    BY <2>1 DEF AliasBucketInv
  <2>3. KeyBucketInv'
    BY <1>1, <1>3, <1>4, <2>1, KeyBucketKept DEF SameWrite
  <2>4. ResyncInv'
    BY <1>7, <2>1 DEF ResyncInv, Rebuilding
  <2> QED
    BY <1>3, <1>5, <1>6, <2>2, <2>3, <2>4 DEF ProjectionInv
<1>10. CASE ResetKeys
  <2>1. /\ phase = "resetKeys" /\ phase' = "zeroAliases"
        /\ keysKV' = EmptyKeys
        /\ torn'["keys"] = TRUE /\ torn'["aliases"] = torn["aliases"]
        /\ mark' = mark /\ aliasKV' = aliasKV /\ job' = job
    BY <1>1, <1>8, <1>10 DEF ResetKeys
  <2>2. KeyBucketInv'
    BY <2>1 DEF KeyBucketInv
  <2>3. AliasBucketInv'
    BY <1>1, <1>3, <1>4, <2>1, AliasBucketKept DEF SameWrite
  <2>4. ResyncInv'
    BY <1>7, <2>1 DEF ResyncInv, Rebuilding
  <2> QED
    BY <1>3, <1>5, <1>6, <2>2, <2>3, <2>4 DEF ProjectionInv
<1>11. CASE ZeroAliases
  <2>1. /\ phase = "zeroAliases" /\ phase' = "zeroKeys"
        /\ mark'["aliases"] = 0 /\ mark'["keys"] = mark["keys"]
        /\ torn'["aliases"] = FALSE /\ torn'["keys"] = torn["keys"]
        /\ aliasKV' = aliasKV /\ keysKV' = keysKV /\ job' = job
    BY <1>1, <1>8, <1>11 DEF ZeroAliases, Zero
  <2>2. AliasBucketInv'
    <3>1. aliasKV' = AliasTruth(SubSeq(log', 1, mark'["aliases"]))
      BY <1>1, <1>2, <1>7, <2>1, NothingYet DEF AliasesAfter
    <3> QED
      BY <1>1, <1>4, <3>1 DEF AliasBucketInv, AliasesAfter
  <2>3. KeyBucketInv'
    BY <1>1, <1>3, <1>4, <2>1, KeyBucketKept DEF SameWrite
  <2>4. ResyncInv'
    BY <1>7, <2>1 DEF ResyncInv, Rebuilding
  <2> QED
    BY <1>3, <1>5, <1>6, <2>2, <2>3, <2>4 DEF ProjectionInv
<1>12. CASE ZeroKeys
  <2>1. /\ phase = "zeroKeys" /\ phase' = "start"
        /\ mark'["keys"] = 0 /\ mark'["aliases"] = mark["aliases"]
        /\ torn'["keys"] = FALSE /\ torn'["aliases"] = torn["aliases"]
        /\ aliasKV' = aliasKV /\ keysKV' = keysKV /\ job' = job
    BY <1>1, <1>8, <1>12 DEF ZeroKeys, Zero
  <2>2. KeyBucketInv'
    <3>1. keysKV' = KeysTruth(SubSeq(log', 1, mark'["keys"]))
      BY <1>1, <1>2, <1>7, <2>1, NothingYet DEF KeysAfter
    <3> QED
      BY <1>1, <1>4, <3>1 DEF KeyBucketInv, KeysAfter
  <2>3. AliasBucketInv'
    BY <1>1, <1>3, <1>4, <2>1, AliasBucketKept DEF SameWrite
  <2>4. ResyncInv'
    BY <1>7, <2>1 DEF ResyncInv, Rebuilding
  <2> QED
    BY <1>3, <1>5, <1>6, <2>2, <2>3, <2>4 DEF ProjectionInv
<1> QED
  BY <1>9, <1>10, <1>11, <1>12

-----------------------------------------------------------------------------
(* Every step.                                                             *)

\* The steps that touch neither a projector nor a bucket.
LEMMA OutsideStep ==
    ASSUME IInv, \/ AppendKey \/ AppendAlias \/ RelayPublish \/ RelayRepeat
                 \/ UNCHANGED vars
    PROVE  LogStep /\ ProjectionInv'
<1>1. UNCHANGED <<next, mark, buckets, phase, job, pos, stage, hashById>>
  BY DEF AppendKey, AppendAlias, Record, RelayPublish, RelayRepeat, vars,
         memory
<1>2. LogStep
  <2>1. UNCHANGED vars => UNCHANGED <<log, bus>>
    BY DEF vars
  <2> QED
    BY <2>1, RecordedStep, PublishedStep, RepeatedStep, SameLog
<1> QED
  BY <1>1, <1>2, QuietStep

LEMMA ProjectionStep ==
    ASSUME IInv, [Next]_vars
    PROVE  LogStep /\ ProjectionInv'
<1>1. ASSUME Expire \/ (\E p \in Projectors : Skip(p) \/ Redeliver(p))
      PROVE  LogStep /\ ProjectionInv'
  <2>1. UNCHANGED <<log, bus>>
    BY <1>1 DEF Expire, Skip, Redeliver
  <2> QED
    BY <1>1, <2>1, SameLog, ExpireStep, SkipStep, RedeliverStep
<1>2. ASSUME NEW p \in Projectors, Save(p)
      PROVE  LogStep /\ ProjectionInv'
  BY <1>2, SaveAliasesStep, SaveKeysStep DEF Projectors
<1>3. ASSUME FailMissing \/ \E p \in Projectors : FailError(p)
      PROVE  LogStep /\ ProjectionInv'
  <2>1. PICK p \in Projectors, why \in {"missing", "error"} : Fail(p, why)
    BY <1>3 DEF FailMissing, FailError, Projectors
  <2> QED
    BY <2>1, FailStep
<1>4. CASE Progress
  BY <1>1, <1>2, <1>3, <1>4, OutsideStep, ApplyAliasStep, ApplyKeyPutStep,
     ApplyKeyDeleteStep, StartStep, AliasesReplayedStep, KeysReplayedStep,
     HaltStep, RestartStep, ResetStep DEF Progress, Project
<1> QED
  BY <1>1, <1>3, <1>4, OutsideStep, HaltStep, RestartStep DEF Next

-----------------------------------------------------------------------------
(* Types.                                                                  *)

Phases == {"down", "resetAliases", "resetKeys", "zeroAliases", "zeroKeys",
           "start", "replayAliases", "replayKeys", "live", "failed"}
Latches == [Projectors -> {"none", "error", "missing"}]
Stages == [Projectors -> {"idle", "put", "written"}]

\* A step keeps the types when what it changes has its type again.
LEMMA TypesKept ==
    ASSUME IInv, LogStep,
           next' = next \/ next' \in [Projectors -> 1..Len(stream') + 1],
           mark' = mark \/ mark' \in [Projectors -> 0..Len(log')],
           pos' = pos \/ pos' \in [Projectors -> 0..Len(log')],
           \/ aliasKV' = aliasKV
           \/ aliasKV' \in [AliasNames -> Targets \union {None}],
           keysKV' = keysKV \/ keysKV' \in [Hashes -> Entries \union {None}],
           torn' = torn \/ torn' \in [Projectors -> BOOLEAN],
           phase' = phase \/ phase' \in Phases,
           job' = job \/ job' \in {"run", "resync"},
           stage' = stage \/ stage' \in Stages,
           \/ hashById' = hashById
           \/ hashById' \in [KeyIds -> Hashes \union {None}],
           latch' = latch \/ latch' \in Latches,
           left' = left \/ (left' = left - 1 /\ left > 0)
    PROVE  TypeOK'
<1>1. TypeOK
  BY DEF IInv
<1>2. "keys" \in Projectors
  BY DEF Projectors
<1>3. 1..Len(stream) + 1 \subseteq 1..Len(stream') + 1
      /\ 0..Len(log) \subseteq 0..Len(log')
  <2>1. Len(stream') \in Nat
    BY LenProperties DEF LogStep, StreamInv
  <2> QED
    BY <1>2, <2>1, Numbers DEF LogStep, Grows
<1>4. next' \in [Projectors -> 1..Len(stream') + 1]
  BY <1>1, <1>3 DEF TypeOK
<1>5. mark' \in [Projectors -> 0..Len(log')]
  BY <1>1, <1>3 DEF TypeOK
<1>6. pos' \in [Projectors -> 0..Len(log')]
  BY <1>1, <1>3 DEF TypeOK
<1>7. /\ aliasKV' \in [AliasNames -> Targets \union {None}]
      /\ keysKV' \in [Hashes -> Entries \union {None}]
      /\ torn' \in [Projectors -> BOOLEAN]
      /\ phase' \in Phases /\ job' \in {"run", "resync"}
      /\ stage' \in Stages
      /\ hashById' \in [KeyIds -> Hashes \union {None}]
      /\ latch' \in Latches
  <2>1. /\ aliasKV \in [AliasNames -> Targets \union {None}]
        /\ keysKV \in [Hashes -> Entries \union {None}]
        /\ torn \in [Projectors -> BOOLEAN]
        /\ phase \in Phases /\ job \in {"run", "resync"}
        /\ stage \in Stages
        /\ hashById \in [KeyIds -> Hashes \union {None}]
        /\ latch \in Latches
    BY <1>1 DEF TypeOK, Phases, Latches, Stages
  <2>2. aliasKV' \in [AliasNames -> Targets \union {None}]
    BY <2>1
  <2>3. keysKV' \in [Hashes -> Entries \union {None}]
    BY <2>1
  <2>4. torn' \in [Projectors -> BOOLEAN]
    BY <2>1
  <2>5. phase' \in Phases /\ job' \in {"run", "resync"}
    BY <2>1
  <2>6. stage' \in Stages /\ latch' \in Latches
    BY <2>1
  <2>7. hashById' \in [KeyIds -> Hashes \union {None}]
    BY <2>1
  <2> QED
    BY <2>2, <2>3, <2>4, <2>5, <2>6, <2>7
<1>8. left' \in 0..MaxFaults
  BY <1>1 DEF TypeOK
<1> QED
  BY <1>4, <1>5, <1>6, <1>7, <1>8 DEF TypeOK, LogStep, Phases, Latches,
                                      Stages

LEMMA ForgetTypes ==
    ASSUME IInv, Forget
    PROVE  /\ pos' \in [Projectors -> 0..0]
           /\ stage' \in Stages
           /\ hashById' \in [KeyIds -> Hashes \union {None}]
BY DEF Forget, Each, NoHashes, Stages

\* The steps of the log, the stream and the consumers.
LEMMA ConsumerTypes ==
    ASSUME IInv, LogStep,
           \/ AppendKey \/ AppendAlias \/ RelayPublish \/ RelayRepeat
           \/ UNCHANGED vars \/ Expire
           \/ \E p \in Projectors : Skip(p) \/ Redeliver(p)
    PROVE  TypeOK'
<1>1. UNCHANGED <<mark, aliasKV, keysKV, torn, phase, job, pos, stage,
                  hashById, latch>>
  BY DEF AppendKey, AppendAlias, Record, RelayPublish, RelayRepeat, vars,
         memory, buckets, Expire, Skip, Redeliver
<1>2. left' = left \/ (left' = left - 1 /\ left > 0)
  BY DEF AppendKey, AppendAlias, Record, RelayPublish, RelayRepeat, vars,
         Expire, Skip, Redeliver, Spend
<1>3. next' = next \/ next' \in [Projectors -> 1..Len(stream') + 1]
  <2>1. CASE \/ AppendKey \/ AppendAlias \/ RelayPublish \/ RelayRepeat
             \/ UNCHANGED vars
    BY <2>1 DEF AppendKey, AppendAlias, Record, RelayPublish, RelayRepeat,
                vars
  <2>2. CASE Expire
    <3>1. next' = Each(Len(stream) + 1) /\ stream' = stream
      BY <2>2 DEF Expire, bus
    <3>2. Len(stream) \in Nat
      BY LenProperties DEF IInv, StreamInv
    <3> QED
      BY <3>1, <3>2 DEF Each
  <2>3. ASSUME NEW p \in Projectors, Skip(p)
        PROVE  next' \in [Projectors -> 1..Len(stream') + 1]
    <3>1. /\ next' = [next EXCEPT ![p] = next[p] + 1] /\ stream' = stream
          /\ next[p] <= Len(stream)
      BY <2>3 DEF Skip, Consumed, HasEvent, bus
    <3>2. next[p] + 1 \in 1..Len(stream) + 1
      BY <3>1, Numbers
    <3>3. next \in [Projectors -> 1..Len(stream) + 1]
      BY DEF IInv, TypeOK
    <3> QED
      BY <3>1, <3>2, <3>3
  <2>4. ASSUME NEW p \in Projectors, Redeliver(p)
        PROVE  next' \in [Projectors -> 1..Len(stream') + 1]
    <3>1. /\ next' = [next EXCEPT ![p] = next[p] - 1] /\ stream' = stream
          /\ next[p] > 1
      BY <2>4 DEF Redeliver, bus
    <3>2. next[p] - 1 \in 1..Len(stream) + 1
      BY <3>1, Numbers
    <3>3. next \in [Projectors -> 1..Len(stream) + 1]
      BY DEF IInv, TypeOK
    <3> QED
      BY <3>1, <3>2, <3>3
  <2> QED
    BY <2>1, <2>2, <2>3, <2>4
<1> QED
  BY <1>1, <1>2, <1>3, TypesKept

\* The steps of the generations and of a resync.
LEMMA GenerationTypes ==
    ASSUME IInv, LogStep,
           \/ AliasesReplayed \/ KeysReplayed \/ Halt \/ Crash \/ Restart
           \/ Resync \/ ResyncFails
           \/ \E p \in Projectors, why \in {"missing", "error"} :
                 /\ Fail(p, why)
                 /\ left' = left \/ (left' = left - 1 /\ left > 0)
    PROVE  TypeOK'
<1>1. UNCHANGED <<next, mark, aliasKV, keysKV, torn>>
  BY DEF AliasesReplayed, KeysReplayed, Halt, Crash, Restart, Resync,
         ResyncFails, Fail, buckets
<1>2. left' = left \/ (left' = left - 1 /\ left > 0)
  BY DEF AliasesReplayed, KeysReplayed, Halt, Crash, Restart, Resync,
         ResyncFails, Spend
<1>3. Forget \/ UNCHANGED <<pos, stage, hashById>>
  BY DEF AliasesReplayed, KeysReplayed, Halt, Crash, Restart, Resync,
         ResyncFails, Fail, memory
<1>4. phase' = phase \/ phase' \in Phases
  BY DEF AliasesReplayed, KeysReplayed, Halt, Crash, Restart, Resync,
         ResyncFails, Fail, Phases
<1>5. job' = job \/ job' \in {"run", "resync"}
  BY DEF AliasesReplayed, KeysReplayed, Halt, Crash, Restart, Resync,
         ResyncFails, Fail
<1>6. latch' = latch \/ latch' \in Latches
  <2>1. CASE \/ AliasesReplayed \/ KeysReplayed \/ Halt \/ Restart
             \/ ResyncFails
    BY <2>1 DEF AliasesReplayed, KeysReplayed, Halt, Restart, ResyncFails,
                memory
  <2>2. CASE Crash \/ Resync
    BY <2>2 DEF Crash, Resync, Each, Latches
  <2>3. ASSUME NEW p \in Projectors, NEW why \in {"missing", "error"},
               Fail(p, why)
        PROVE  latch' \in Latches
    <3>1. latch' = [latch EXCEPT ![p] = why] /\ latch \in Latches
      BY <2>3 DEF Fail, IInv, TypeOK, Latches
    <3> QED
      BY <3>1 DEF Latches
  <2> QED
    BY <2>1, <2>2, <2>3
<1>7. pos' = pos \/ pos' \in [Projectors -> 0..Len(log')]
  BY <1>3, ForgetTypes DEF LogStep
<1>8. /\ stage' = stage \/ stage' \in Stages
      /\ \/ hashById' = hashById
         \/ hashById' \in [KeyIds -> Hashes \union {None}]
  BY <1>3, ForgetTypes
<1> QED
  BY <1>1, <1>2, <1>4, <1>5, <1>6, <1>7, <1>8, TypesKept

\* A projector's write has the type of the bucket, whatever it holds: after
\* a reset that was given up it shows no prefix of the log.
LEMMA KeyPutTypes ==
    ASSUME IInv, LogStep, ApplyKeyPut
    PROVE  /\ keysKV' \in [Hashes -> Entries \union {None}]
           /\ hashById' \in [KeyIds -> Hashes \union {None}]
           /\ stage' \in Stages
<1>1. "keys" \in Projectors /\ LogInv
  BY DEF Projectors, IInv
<1>2. PICK n, k, e, h : /\ n = At("keys") /\ k = Id("keys")
                        /\ e = Event("keys") /\ h = hashById[k]
  OBVIOUS
<1>3. Applying("keys") /\ ~Missing
  BY DEF ApplyKeyPut
<1>4. k \in KeyIds /\ e \in KeyEvents
  <2>1. NextFor("keys", n) /\ n \in 1..Len(log)
    BY <1>1, <1>2, <1>3, Applies
  <2>2. log[n].id = k /\ log[n].event = e /\ log[n].type = "apikey"
    BY <1>2, <2>1 DEF Id, Event, NextFor, IsFor, TypeFor
  <2> QED
    BY <1>1, <2>1, <2>2, EntryType
<1>5. /\ keysKV \in [Hashes -> Entries \union {None}]
      /\ hashById \in [KeyIds -> Hashes \union {None}]
      /\ stage \in Stages
  BY DEF IInv, TypeOK, Stages
<1>6. stage' \in Stages
  BY <1>5 DEF ApplyKeyPut, KeyWritten, Step, Stages
<1>7. CASE /\ e.kind = "created"
           /\ keysKV' = [keysKV EXCEPT ![e.new] =
                           [id |-> k, allow |-> e.val, limits |-> e.val]]
           /\ hashById' = [hashById EXCEPT ![k] = e.new]
  <2>1. e.new \in Hashes /\ e.val = None
    BY <1>4, <1>7 DEF KeyEvents
  <2>2. [id |-> k, allow |-> e.val, limits |-> e.val] \in Entries
    BY <1>4, <2>1 DEF Entries
  <2> QED
    BY <1>5, <1>6, <1>7, <2>1, <2>2
<1>8. CASE /\ e.kind = "rotated" /\ stage["keys"] = "idle"
           /\ keysKV' = [keysKV EXCEPT ![e.new] =
                           [keysKV[e.prev] EXCEPT !.id = k]]
           /\ hashById' = hashById
  <2>1. e.new \in Hashes /\ e.prev \in Hashes
    BY <1>4, <1>8 DEF KeyEvents
  <2>2. keysKV[e.prev] # None
    BY <1>2, <1>3, <1>8 DEF Missing, Reads
  <2>3. [keysKV[e.prev] EXCEPT !.id = k] \in Entries
    <3>1. keysKV[e.prev] \in Entries
      BY <1>5, <2>1, <2>2
    <3> QED
      BY <1>4, <3>1 DEF Entries
  <2> QED
    BY <1>5, <1>6, <1>8, <2>1, <2>3
<1>9. CASE /\ e.kind \in {"allowlist", "limits"} /\ stage["keys"] = "idle"
           /\ keysKV' = [keysKV EXCEPT ![h] = Changed(keysKV[h], k, e)]
           /\ hashById' = hashById
  <2>1. Reads(e, k) = {h}
    BY <1>2, <1>9 DEF Reads
  <2>2. h # None /\ keysKV[h] # None
    BY <1>2, <1>3, <1>9, <2>1 DEF Missing
  <2>3. h \in Hashes
    BY <1>2, <1>4, <1>5, <2>2
  <2>4. Changed(keysKV[h], k, e) \in Entries
    <3>1. keysKV[h] \in Entries
      BY <1>5, <2>2, <2>3
    <3>2. e.val \in Vals
      BY <1>4, <1>9 DEF KeyEvents
    <3> QED
      BY <1>4, <3>1, <3>2 DEF Entries, Changed
  <2> QED
    BY <1>5, <1>6, <1>9, <2>3, <2>4
<1>10. \/ /\ e.kind = "created"
          /\ keysKV' = [keysKV EXCEPT ![e.new] =
                          [id |-> k, allow |-> e.val, limits |-> e.val]]
          /\ hashById' = [hashById EXCEPT ![k] = e.new]
       \/ /\ e.kind = "rotated" /\ stage["keys"] = "idle"
          /\ keysKV' = [keysKV EXCEPT ![e.new] =
                          [keysKV[e.prev] EXCEPT !.id = k]]
          /\ hashById' = hashById
       \/ /\ e.kind \in {"allowlist", "limits"} /\ stage["keys"] = "idle"
          /\ keysKV' = [keysKV EXCEPT ![h] = Changed(keysKV[h], k, e)]
          /\ hashById' = hashById
  BY <1>2 DEF ApplyKeyPut, KeyWritten, Step, Remember, Changed
<1> QED
  BY <1>7, <1>8, <1>9, <1>10

LEMMA KeyDeleteTypes ==
    ASSUME IInv, LogStep, ApplyKeyDelete
    PROVE  /\ keysKV' \in [Hashes -> Entries \union {None}]
           /\ hashById' \in [KeyIds -> Hashes \union {None}]
           /\ stage' \in Stages
<1>1. "keys" \in Projectors /\ LogInv
  BY DEF Projectors, IInv
<1>2. PICK n, k, e : n = At("keys") /\ k = Id("keys") /\ e = Event("keys")
  OBVIOUS
<1>3. k \in KeyIds /\ e \in KeyEvents
  <2>1. NextFor("keys", n) /\ n \in 1..Len(log)
    BY <1>1, <1>2, Applies DEF ApplyKeyDelete
  <2>2. log[n].id = k /\ log[n].event = e /\ log[n].type = "apikey"
    BY <1>2, <2>1 DEF Id, Event, NextFor, IsFor, TypeFor
  <2> QED
    BY <1>1, <2>1, <2>2, EntryType
<1>4. /\ keysKV \in [Hashes -> Entries \union {None}]
      /\ hashById \in [KeyIds -> Hashes \union {None}]
      /\ stage \in Stages
  BY DEF IInv, TypeOK, Stages
<1>5. keysKV' \in [Hashes -> Entries \union {None}]
  BY <1>2, <1>4 DEF ApplyKeyDelete
<1>6. stage' \in Stages
  BY <1>4 DEF ApplyKeyDelete, KeyWritten, Step, Stages
<1>7. hashById' \in [KeyIds -> Hashes \union {None}]
  <2>1. \/ hashById' = hashById
        \/ e.kind = "rotated" /\ hashById' = [hashById EXCEPT ![k] = e.new]
    BY <1>2 DEF ApplyKeyDelete, Remember
  <2>2. e.kind = "rotated" => e.new \in Hashes
    BY <1>3 DEF KeyEvents
  <2> QED
    BY <1>4, <2>1, <2>2
<1> QED
  BY <1>5, <1>6, <1>7

LEMMA AliasWriteTypes ==
    ASSUME IInv, LogStep, ApplyAlias
    PROVE  /\ aliasKV' \in [AliasNames -> Targets \union {None}]
           /\ stage' \in Stages
<1>1. "aliases" \in Projectors /\ LogInv
  BY DEF Projectors, IInv
<1>2. PICK n, e : n = At("aliases") /\ e = Event("aliases")
  OBVIOUS
<1>3. e \in AliasEvents
  <2>1. NextFor("aliases", n) /\ n \in 1..Len(log)
    BY <1>1, <1>2, Applies DEF ApplyAlias
  <2>2. log[n].event = e /\ log[n].type = "alias"
    BY <1>2, <2>1 DEF Event, NextFor, IsFor, TypeFor
  <2> QED
    BY <1>1, <2>1, <2>2, EntryType
<1>4. e.kind = "set" => e.target \in Targets
  BY <1>3 DEF AliasEvents
<1>5. /\ aliasKV \in [AliasNames -> Targets \union {None}]
      /\ stage \in Stages
  BY DEF IInv, TypeOK, Stages
<1> QED
  BY <1>2, <1>4, <1>5 DEF ApplyAlias, Step, Stages

LEMMA ProjectTypes ==
    ASSUME IInv, LogStep,
           \/ ApplyAlias \/ ApplyKeyPut \/ ApplyKeyDelete
           \/ \E p \in Projectors : Save(p)
    PROVE  TypeOK'
<1>1. CASE ApplyAlias
  <2>1. UNCHANGED <<next, mark, keysKV, torn, phase, job, pos, hashById,
                    latch, left>>
    BY <1>1 DEF ApplyAlias
  <2> QED
    BY <1>1, <2>1, AliasWriteTypes, TypesKept
<1>2. CASE ApplyKeyPut
  <2>1. UNCHANGED <<next, mark, aliasKV, torn, phase, job, pos, latch, left>>
    BY <1>2 DEF ApplyKeyPut
  <2> QED
    BY <1>2, <2>1, KeyPutTypes, TypesKept
<1>3. CASE ApplyKeyDelete
  <2>1. UNCHANGED <<next, mark, aliasKV, torn, phase, job, pos, latch, left>>
    BY <1>3 DEF ApplyKeyDelete
  <2> QED
    BY <1>3, <2>1, KeyDeleteTypes, TypesKept
<1>4. ASSUME NEW p \in Projectors, Save(p) PROVE TypeOK'
  <2>1. /\ UNCHANGED <<log, stream, aliasKV, keysKV, torn, phase, job,
                       hashById, latch, left>>
        /\ pos' = [pos EXCEPT ![p] = At(p)]
        /\ mark' = [mark EXCEPT ![p] = At(p)]
        /\ stage' = [stage EXCEPT ![p] = "idle"]
        /\ \/ next' = next
           \/ phase = "live" /\ next' = [next EXCEPT ![p] = next[p] + 1]
        /\ HasEvent(p)
    BY <1>4 DEF Save, Consumed, bus, buckets
  <2>2. At(p) \in 1..Len(log) /\ Len(log') = Len(log)
    BY <1>4, <2>1, SaveFrame
  <2>3. At(p) \in 0..Len(log')
    BY <2>2, Numbers
  <2>4. /\ pos \in [Projectors -> 0..Len(log')]
        /\ mark \in [Projectors -> 0..Len(log')] /\ stage \in Stages
        /\ next \in [Projectors -> 1..Len(stream') + 1]
    BY <2>1 DEF IInv, TypeOK, Stages
  <2>5. /\ pos' \in [Projectors -> 0..Len(log')]
        /\ mark' \in [Projectors -> 0..Len(log')]
    BY <2>1, <2>3, <2>4
  <2>6. stage' \in Stages
    BY <2>1, <2>4 DEF Stages
  <2>7. next' = next \/ next' \in [Projectors -> 1..Len(stream') + 1]
    <3>1. phase = "live" => next[p] + 1 \in 1..Len(stream') + 1
      BY <2>1, Numbers DEF HasEvent
    <3> QED
      BY <2>1, <2>4, <3>1
  <2> QED
    BY <2>1, <2>5, <2>6, <2>7, TypesKept
<1> QED
  BY <1>1, <1>2, <1>3, <1>4

LEMMA StartTypes ==
    ASSUME IInv, LogStep, Start
    PROVE  TypeOK'
<1>1. /\ UNCHANGED <<log, next, mark, aliasKV, keysKV, torn, job, stage,
                     left>>
      /\ phase' = "replayAliases" /\ pos' = mark
      /\ hashById' = [k \in KeyIds |-> Warm(k)]
      /\ latch' = Each("none")
  BY DEF Start, buckets
<1>2. pos' \in [Projectors -> 0..Len(log')]
  BY <1>1 DEF IInv, TypeOK
<1>3. ASSUME NEW k \in KeyIds PROVE Warm(k) \in Hashes \union {None}
  <2>1. LogInv /\ Len(log) \in 0..Len(log)
    BY LenProperties DEF IInv, LogInv
  <2>2. Key(Len(log), k) = Load(log, "apikey", k)
    BY <2>1, LoadAll DEF LogInv, Key
  <2>3. Key(Len(log), k) \in KeyStates
    BY <2>1, StatesTyped
  <2> QED
    BY <2>2, <2>3 DEF Warm, KeyStates
<1>4. hashById' \in [KeyIds -> Hashes \union {None}]
  BY <1>1, <1>3
<1>5. latch' \in Latches /\ phase' \in Phases
  BY <1>1 DEF Each, Latches, Phases
<1> QED
  BY <1>1, <1>2, <1>4, <1>5, TypesKept

LEMMA RebuildTypes ==
    ASSUME IInv, LogStep,
           ResetAliases \/ ResetKeys \/ ZeroAliases \/ ZeroKeys
    PROVE  TypeOK'
<1>1. UNCHANGED <<log, next, job, pos, stage, hashById, latch, left>>
  BY DEF ResetAliases, ResetKeys, ZeroAliases, ZeroKeys, Zero, memory
<1>2. phase' \in Phases
  BY DEF ResetAliases, ResetKeys, ZeroAliases, ZeroKeys, Zero, Phases
<1>3. torn' \in [Projectors -> BOOLEAN]
  <2>1. torn \in [Projectors -> BOOLEAN]
    BY DEF IInv, TypeOK
  <2> QED
    BY <2>1 DEF ResetAliases, ResetKeys, ZeroAliases, ZeroKeys, Zero
<1>4. mark' = mark \/ mark' \in [Projectors -> 0..Len(log')]
  <2>1. mark \in [Projectors -> 0..Len(log')] /\ 0 \in 0..Len(log')
    BY <1>1 DEF IInv, TypeOK, LogStep
  <2> QED
    BY <2>1 DEF ResetAliases, ResetKeys, ZeroAliases, ZeroKeys, Zero
<1>5. \/ aliasKV' = aliasKV
      \/ aliasKV' \in [AliasNames -> Targets \union {None}]
  BY DEF ResetAliases, ResetKeys, ZeroAliases, ZeroKeys, Zero, EmptyAliases
<1>6. keysKV' = keysKV \/ keysKV' \in [Hashes -> Entries \union {None}]
  BY DEF ResetAliases, ResetKeys, ZeroAliases, ZeroKeys, Zero, EmptyKeys
<1> QED
  BY <1>1, <1>2, <1>3, <1>4, <1>5, <1>6, TypesKept

LEMMA TypeStep ==
    ASSUME IInv, LogStep, [Next]_vars
    PROVE  TypeOK'
<1>1. ASSUME FailMissing \/ \E p \in Projectors : FailError(p)
      PROVE  TypeOK'
  <2>1. \E p \in Projectors, why \in {"missing", "error"} :
           /\ Fail(p, why)
           /\ left' = left \/ (left' = left - 1 /\ left > 0)
    BY <1>1 DEF FailMissing, FailError, Projectors, Spend
  <2> QED
    BY <2>1, GenerationTypes
<1>2. CASE \/ AppendKey \/ AppendAlias \/ RelayPublish \/ RelayRepeat
           \/ UNCHANGED vars \/ Expire
           \/ \E p \in Projectors : Skip(p) \/ Redeliver(p)
  BY <1>2, ConsumerTypes
<1>3. CASE \/ ApplyAlias \/ ApplyKeyPut \/ ApplyKeyDelete
           \/ \E p \in Projectors : Save(p)
  BY <1>3, ProjectTypes
<1>4. CASE \/ AliasesReplayed \/ KeysReplayed \/ Halt \/ Crash \/ Restart
           \/ Resync \/ ResyncFails
  BY <1>4, GenerationTypes
<1>5. CASE Start \/ ResetAliases \/ ResetKeys \/ ZeroAliases \/ ZeroKeys
  BY <1>5, StartTypes, RebuildTypes
<1> QED
  BY <1>1, <1>2, <1>3, <1>4, <1>5 DEF Next, Progress, Project

-----------------------------------------------------------------------------
(* The theorems.                                                           *)

LEMMA InitInv == Init => IInv
<1> SUFFICES ASSUME Init PROVE IInv
  OBVIOUS
<1>1. /\ log = << >> /\ stream = << >> /\ relayed = 0 /\ next = Each(1)
      /\ mark = Each(0) /\ torn = Each(FALSE) /\ aliasKV = EmptyAliases
      /\ keysKV = EmptyKeys /\ phase = "start" /\ job = "run"
      /\ pos = Each(0) /\ stage = Each("idle") /\ hashById = NoHashes
      /\ latch = Each("none") /\ left = MaxFaults
  BY DEF Init
<1>2. Len(log) = 0 /\ Len(stream) = 0
  BY <1>1
<1>3. LogInv
  BY <1>1, <1>2 DEF LogInv
<1>4. StreamInv
  BY <1>1, <1>2 DEF StreamInv, Covers, InOrder
<1>5. TypeOK
  BY <1>1, <1>2 DEF TypeOK, Each, EmptyAliases, EmptyKeys, NoHashes
<1>6. \A p \in Projectors : mark[p] = 0 /\ stage[p] = "idle"
  BY <1>1 DEF Each
<1>7. \A p \in Projectors : ProjectorInv(p) /\ ConsumerInv(p)
  BY <1>1, <1>6 DEF ProjectorInv, ConsumerInv, Warmed
<1>8. AliasBucketInv /\ KeyBucketInv
  <2>1. KeysAfter(0) = EmptyKeys /\ AliasesAfter(0) = EmptyAliases
    BY <1>3, NothingYet
  <2> QED
    BY <1>1, <1>6, <2>1 DEF AliasBucketInv, KeyBucketInv, Projectors
<1>9. HashInv /\ ResyncInv
  BY <1>1 DEF HashInv, ResyncInv, Warmed, Rebuilding
<1> QED
  BY <1>3, <1>4, <1>5, <1>7, <1>8, <1>9 DEF IInv

LEMMA Invariance == IInv /\ [Next]_vars => IInv'
<1> SUFFICES ASSUME IInv, [Next]_vars PROVE IInv'
  OBVIOUS
<1>1. LogStep /\ ProjectionInv'
  BY ProjectionStep
<1>2. TypeOK'
  BY <1>1, TypeStep
<1> QED
  BY <1>1, <1>2 DEF IInv, LogStep, ProjectionInv

LEMMA Reachable == Spec => []IInv
BY InitInv, Invariance, PTL DEF Spec

\* The buckets, markers and memories keep their types, also where a
\* projector makes an entry out of the one it found (kvproj.go, applyOne).
THEOREM ProjectionTyped == Spec => []TypeOK
<1>1. IInv => TypeOK
  BY DEF IInv
<1> QED
  BY <1>1, Reachable, PTL

\* No position past the marker is for p when the consumer has consumed all
\* that is in the log.
LEMMA AllApplied ==
    ASSUME IInv, NEW p \in Projectors, phase = "live", stage[p] = "idle",
           relayed = Len(log), next[p] = Len(stream) + 1
    PROVE  \A m \in mark[p] + 1..Len(log) : ~IsFor(p, m)
<1> SUFFICES ASSUME NEW m \in mark[p] + 1..Len(log), IsFor(p, m)
             PROVE  FALSE
  OBVIOUS
<1>1. m \in 1..relayed
  BY Numbers
<1>2. PICK j \in 1..Len(stream) : stream[j] = m
  BY <1>1 DEF IInv, StreamInv, Covers
<1>3. j \in 1..next[p] - 1
  BY Numbers
<1>4. stream[j] <= pos[p]
  BY <1>2, <1>3 DEF IInv, ConsumerInv
<1>5. pos[p] = mark[p]
  BY DEF IInv, ProjectorInv, Warmed
<1> QED
  BY <1>2, <1>4, <1>5, Numbers

\* A live projector that has nothing left to consume shows the whole log: an
\* event it was not sent while it replayed was in the log before, and one
\* that expired was replayed (runner.go, RunKVProjectors).
THEOREM NothingMissed == Spec => []NoHole
<1>1. IInv => NoHole
  <2> SUFFICES ASSUME IInv, NEW p \in Projectors,
                      phase = "live", stage[p] = "idle",
                      relayed = Len(log), next[p] = Len(stream) + 1, ~torn[p]
               PROVE  IF p = "aliases" THEN aliasKV = AliasTruth(log)
                                       ELSE keysKV = KeysTruth(log)
    BY DEF NoHole
  <2>1. \A m \in mark[p] + 1..Len(log) : ~IsFor(p, m)
    BY AllApplied
  <2>2. /\ LogInv /\ mark[p] \in 0..Len(log)
        /\ Len(log) \in mark[p]..Len(log)
    BY Numbers DEF IInv
  <2>3. SubSeq(log, 1, Len(log)) = log
    BY <2>2, SubSeqFull DEF LogInv
  <2>4. \A n \in 1..Len(log) : ~NextFor(p, n)
    BY <2>1 DEF NextFor
  <2>5. CASE p = "aliases"
    <3>1. aliasKV = AliasesAfter(mark[p])
      BY <2>4, <2>5 DEF IInv, AliasBucketInv
    <3>2. \A m \in mark[p] + 1..Len(log) : log[m].type # "alias"
      BY <2>1, <2>5 DEF IsFor, TypeFor
    <3>3. AliasesAfter(Len(log)) = AliasesAfter(mark[p])
      BY <2>2, <3>2, NothingNew
    <3> QED
      BY <2>3, <2>5, <3>1, <3>3 DEF AliasesAfter
  <2>6. CASE p = "keys"
    <3>1. keysKV = KeysAfter(mark[p])
      BY <2>4, <2>6 DEF IInv, KeyBucketInv
    <3>2. \A m \in mark[p] + 1..Len(log) : log[m].type # "apikey"
      BY <2>1, <2>6 DEF IsFor, TypeFor
    <3>3. KeysAfter(Len(log)) = KeysAfter(mark[p])
      BY <2>2, <3>2, NothingNew
    <3> QED
      BY <2>3, <2>6, <3>1, <3>3 DEF KeysAfter
  <2> QED
    BY <2>5, <2>6 DEF Projectors
<1> QED
  BY <1>1, Reachable, PTL

\* A key that has a hash and is not disabled has an entry.
LEMMA EntryOfKey ==
    ASSUME IInv, NEW n \in 0..Len(log), NEW k \in KeyIds,
           Key(n, k).hash # None, ~Key(n, k).disabled
    PROVE  LET h == Key(n, k).hash
           IN  /\ h \in Hashes /\ KeysAfter(n)[h] \in Entries
               /\ KeysAfter(n)[h].id = k
<1>1. LogInv
  BY DEF IInv
<1>2. PICK h : h = Key(n, k).hash
  OBVIOUS
<1>3. h \in Hashes
  BY <1>1, <1>2, StatesTyped DEF KeyStates
<1>4. KeysAfter(n)[h] = EntryOf(k, Key(n, k))
  BY <1>1, <1>2, <1>3, Held DEF Holds
<1>5. EntryOf(k, Key(n, k)) \in Entries
  BY <1>1, StatesTyped DEF EntryOf, Entries, KeyStates
<1> QED
  BY <1>2, <1>3, <1>4, <1>5 DEF EntryOf

\* No key loses its last entry to a rotation: of the two writes the new entry
\* comes first (kvproj.go, applyOne, the Rotated case).
THEOREM NoKeyWithoutEntry == Spec => []RotationLeavesNoGap
<1>1. IInv => RotationLeavesNoGap
  <2> DEFINE m == mark["keys"]
  <2> SUFFICES ASSUME IInv, NEW k \in KeyIds, ~torn["keys"],
                      Key(m, k).hash # None,
                      ~Load(log, "apikey", k).disabled
               PROVE  \E h \in Hashes : keysKV[h] # None /\ keysKV[h].id = k
    BY DEF RotationLeavesNoGap, Key
  <2>1. /\ LogInv /\ "keys" \in Projectors
        /\ Len(log) \in Nat /\ Len(log) <= MaxLog /\ m \in 0..Len(log)
    BY Numbers DEF IInv, Projectors
  <2>2. ASSUME NEW n \in 0..Len(log) PROVE ~Key(n, k).disabled
    <3>1. Key(Len(log), k) = Load(log, "apikey", k)
      BY <2>1, LoadAll DEF LogInv, Key
    <3>2. Len(log) \in n..Len(log)
      BY <2>1
    <3> QED
      BY <2>1, <3>1, <3>2, KeyLater
  <2>3. ASSUME NEW n \in m..Len(log)
        PROVE  n \in 0..Len(log) /\ Key(n, k).hash # None
    BY <2>1, KeyLater
  <2>4. ASSUME NEW n \in m..Len(log), keysKV = KeysAfter(n)
        PROVE  \E h \in Hashes : keysKV[h] # None /\ keysKV[h].id = k
    BY <2>2, <2>3, <2>4, EntryOfKey
  <2>5. ASSUME NEW n, NextFor("keys", n), keysKV = Half(n)
        PROVE  \E h \in Hashes : keysKV[h] # None /\ keysKV[h].id = k
    <3>1. n \in m + 1..Len(log) /\ log[n].type = "apikey"
      BY <2>5 DEF NextFor, IsFor, TypeFor
    <3>2. n \in 1..Len(log) /\ n - 1 \in m..Len(log)
      BY <2>1, <3>1
    <3>3. PICK h : h = Key(n - 1, k).hash
      OBVIOUS
    <3>4. h \in Hashes /\ KeysAfter(n - 1)[h] \in Entries
          /\ KeysAfter(n - 1)[h].id = k
      BY <2>2, <2>3, <3>2, <3>3, EntryOfKey
    <3>5. /\ h # n
          /\ KeysAfter(n - 1) \in [Hashes -> Entries \union {None}]
      BY <2>1, <3>1, <3>2, <3>3, AboutKeyEvent
    <3>6. keysKV[h] = KeysAfter(n - 1)[h]
      BY <2>5, <3>4, <3>5 DEF Half
    <3> QED
      BY <3>4, <3>6
  <2>6. \/ keysKV = KeysAfter(m)
        \/ \E n \in 1..Len(log) :
              NextFor("keys", n) /\ (keysKV = KeysAfter(n)
                                     \/ keysKV = Half(n))
    BY DEF IInv, KeyBucketInv
  <2>7. \A n : NextFor("keys", n) => n \in m..Len(log)
    BY <2>1 DEF NextFor
  <2>8. m \in m..Len(log)
    BY <2>1
  <2> QED
    BY <2>4, <2>5, <2>6, <2>7, <2>8
<1> QED
  BY <1>1, Reachable, PTL

\* A rotation that finds its entry missing has deleted it itself.
LEMMA RotationMisses ==
    ASSUME IInv, Missing, ~torn["keys"], Event("keys").kind = "rotated"
    PROVE  job = "run" /\ keysKV[Event("keys").new] # None
<1>1. "keys" \in Projectors /\ LogInv /\ Len(log) <= MaxLog
  BY Numbers DEF Projectors, IInv
<1>2. PICK n, k, e : n = At("keys") /\ k = Id("keys") /\ e = Event("keys")
  OBVIOUS
<1>3. Applying("keys") /\ stage["keys"] = "idle" /\ Reads(e, k) = {e.prev}
  BY <1>2 DEF Missing, Reads
<1>4. /\ NextFor("keys", n) /\ n \in 1..Len(log)
      /\ log[n].id = k /\ log[n].event = e /\ log[n].type = "apikey"
  <2>1. NextFor("keys", n) /\ n \in 1..Len(log)
    BY <1>1, <1>2, <1>3, Applies
  <2> QED
    BY <1>2, <2>1, KeysAt DEF Id, Event
<1>5. /\ e.new = n /\ e.prev \in Hashes /\ e.prev # n
      /\ KeysAfter(n - 1)[e.prev] \in Entries
      /\ KeysAfter(n)[n] = KeysAfter(n - 1)[e.prev]
  BY <1>1, <1>2, <1>4, RotatedStep
<1>6. keysKV[e.prev] = None
  <2>1. e.prev # None
    BY <1>5 DEF Hashes
  <2> QED
    BY <1>2, <1>3, <2>1 DEF Missing
<1>7. keysKV # KeysAfter(n - 1)
  BY <1>5, <1>6
<1>8. keysKV # Half(n)
  <2>1. KeysAfter(n - 1) \in [Hashes -> Entries \union {None}]
    BY <1>1, <1>4, AboutKeyEvent
  <2>2. Half(n)[e.prev] = KeysAfter(n - 1)[e.prev]
    BY <1>5, <2>1 DEF Half
  <2> QED
    BY <1>5, <1>6, <2>2
<1>9. keysKV = KeysAfter(n)
  BY <1>4, <1>7, <1>8, KeysAt
<1>10. job = "run"
  <2> SUFFICES ASSUME job = "resync" PROVE FALSE
    BY DEF IInv, TypeOK
  <2>1. phase = "replayKeys"
    BY <1>3 DEF IInv, ResyncInv, Rebuilding, Applying, Running, Active,
                Replaying
  <2>2. keysKV = KeysAfter(mark["keys"])
    BY <1>3, <2>1 DEF IInv, ResyncInv
  <2>3. n - 1 \in mark["keys"]..n - 1
    BY <1>1, <1>4, Numbers DEF NextFor
  <2>4. KeysAfter(n - 1) = KeysAfter(mark["keys"])
    BY <1>4, <2>3, UpToNext
  <2> QED
    BY <1>7, <2>2, <2>4
<1> QED
  BY <1>2, <1>5, <1>9, <1>10

\* A change that finds its entry missing has been sent to the hash of a
\* rotation to come.
LEMMA ChangeMisses ==
    ASSUME IInv, Missing, ~torn["keys"],
           Event("keys").kind \in {"allowlist", "limits"}
    PROVE  /\ job = "run"
           /\ \E n \in At("keys") + 1..Len(log) :
                 /\ log[n].type = "apikey" /\ log[n].id = Id("keys")
                 /\ log[n].event.kind = "rotated"
<1>1. "keys" \in Projectors /\ LogInv /\ Len(log) <= MaxLog
  BY Numbers DEF Projectors, IInv
<1>2. PICK n, k, e, h : /\ n = At("keys") /\ k = Id("keys")
                        /\ e = Event("keys") /\ h = hashById[k]
  OBVIOUS
<1>3. Applying("keys") /\ stage["keys"] = "idle" /\ Reads(e, k) = {h}
  BY <1>2 DEF Missing, Reads
<1>4. /\ NextFor("keys", n) /\ n \in 1..Len(log) /\ Len(log) \in Nat
      /\ log[n].id = k /\ log[n].event = e /\ log[n].type = "apikey"
  <2>1. NextFor("keys", n) /\ n \in 1..Len(log)
    BY <1>1, <1>2, <1>3, Applies
  <2> QED
    BY <1>1, <1>2, <2>1, KeysAt, Numbers DEF Id, Event
<1>5. PICK g : g = Key(n - 1, k).hash
  OBVIOUS
<1>6. /\ k \in KeyIds /\ g \in Hashes /\ Key(n, k).hash = g
      /\ KeysAfter(n - 1)[g] \in Entries /\ KeysAfter(n)[g] \in Entries
  BY <1>1, <1>2, <1>4, <1>5, ChangedStep
<1>7. h = None \/ keysKV[h] = None
  BY <1>2, <1>3 DEF Missing
<1>8. h # g
  <2>1. keysKV = KeysAfter(n - 1) \/ keysKV = KeysAfter(n)
    BY <1>2, <1>4, KeysAt DEF IsRotation
  <2> QED
    BY <1>6, <1>7, <2>1 DEF Hashes
<1>9. h \in n..Len(log) /\ Gives(h, k)
  BY <1>2, <1>3, <1>5, <1>6, <1>8, Remembered
<1>10. h \in n + 1..Len(log)
  <2>1. h # n
    BY <1>2, <1>4, <1>9 DEF Gives
  <2> QED
    BY <1>4, <1>9, <2>1
<1>11. log[h].event.kind = "rotated"
  <2>1. Fits(h)
    BY <1>1, <1>4, <1>10 DEF LogInv
  <2>2. n \in 0..Len(log) /\ h - 1 \in n..Len(log)
    BY <1>4, <1>10
  <2>3. Key(h - 1, k).hash # None
    <3>1. Key(n, k).hash # None
      BY <1>6 DEF Hashes
    <3> QED
      BY <1>1, <1>6, <2>2, <3>1, KeyLater
  <2> QED
    BY <1>9, <2>1, <2>3 DEF Fits, Gives
<1>12. job = "run"
  <2> SUFFICES ASSUME job = "resync" PROVE FALSE
    BY DEF IInv, TypeOK
  <2>1. phase = "replayKeys"
    BY <1>3 DEF IInv, ResyncInv, Rebuilding, Applying, Running, Active,
                Replaying
  <2>2. Known = mark["keys"]
    BY <1>1, <1>3, <2>1 DEF Known, IInv, ProjectorInv, Warmed
  <2>3. n - 1 \in mark["keys"]..n - 1
    BY <1>1, <1>4, Numbers DEF NextFor
  <2>4. Key(Known, k) = Key(n - 1, k)
    BY <1>4, <2>2, <2>3, UpToNext
  <2>5. Key(Known, k).hash # None => hashById[k] = Key(Known, k).hash
    BY <1>6, <2>1 DEF IInv, ResyncInv
  <2> QED
    BY <1>2, <1>5, <1>6, <1>8, <2>4, <2>5 DEF Hashes
<1> QED
  BY <1>2, <1>9, <1>10, <1>11, <1>12 DEF Gives

\* What a projector misses is its own doing, and a resync misses nothing
\* (kvproj.go, applyOne and Warmup; runner.go, ResyncKV).
THEOREM MissesExplained == Spec => []MissesAreSelfMade
<1>1. IInv => MissesAreSelfMade
  <2> SUFFICES ASSUME IInv, Missing, ~torn["keys"]
               PROVE  LET e == Event("keys")
                      IN  /\ job = "run"
                          /\ e.kind = "rotated" => keysKV[e.new] # None
                          /\ e.kind # "rotated" =>
                                \E n \in At("keys") + 1..Len(log) :
                                   /\ log[n].type = "apikey"
                                   /\ log[n].id = Id("keys")
                                   /\ log[n].event.kind = "rotated"
    BY DEF MissesAreSelfMade
  <2>1. Event("keys").kind \in {"rotated", "allowlist", "limits"}
    BY DEF Missing, Reads
  <2> QED
    BY <2>1, RotationMisses, ChangeMisses
<1> QED
  BY <1>1, Reachable, PTL

-----------------------------------------------------------------------------
(* The refinement of ProjectedView, by both buckets.                       *)

AliasViewStep == [AliasView!Next]_(AliasView!vars)
KeysViewStep == [KeysView!Next]_(KeysView!vars)

\* The next event for a projector is one the view follows.
LEMMA FollowsNext ==
    ASSUME IInv, NEW n
    PROVE  /\ NextFor("aliases", n) => AliasView!Following(n)
           /\ NextFor("keys", n) => KeysView!Following(n)
<1>1. Len(log) \in Nat /\ mark["aliases"] \in Nat /\ mark["keys"] \in Nat
  BY Numbers DEF Projectors
<1>2. ASSUME NextFor("aliases", n) PROVE AliasView!Following(n)
  <2>1. n \in mark["aliases"] + 1..Len(log)
    BY <1>2 DEF NextFor
  <2>2. \A m \in mark["aliases"] + 1..n - 1 : m \in mark["aliases"]..n - 1
    BY <1>1, <2>1
  <2>3. \A m \in mark["aliases"] + 1..n - 1 :
           AliasesAfter(m) = AliasesAfter(mark["aliases"])
    BY <1>2, <2>2, UpToNext
  <2> QED
    BY <2>1, <2>3 DEF AliasView!Following, AliasView!Prefix, AliasesAfter
<1>3. ASSUME NextFor("keys", n) PROVE KeysView!Following(n)
  <2>1. n \in mark["keys"] + 1..Len(log)
    BY <1>3 DEF NextFor
  <2>2. \A m \in mark["keys"] + 1..n - 1 : m \in mark["keys"]..n - 1
    BY <1>1, <2>1
  <2>3. \A m \in mark["keys"] + 1..n - 1 :
           KeysAfter(m) = KeysAfter(mark["keys"])
    BY <1>3, <2>2, UpToNext
  <2> QED
    BY <2>1, <2>3 DEF KeysView!Following, KeysView!Prefix, KeysAfter
<1> QED
  BY <1>2, <1>3

\* An event that is not for the view is one it may pass.
LEMMA FollowsOther ==
    ASSUME IInv, NEW p \in Projectors, NEW n \in 1..Len(log),
           n = mark[p] + 1, ~IsFor(p, n)
    PROVE  /\ p = "aliases" =>
                 /\ AliasView!Following(n)
                 /\ AliasesAfter(n) = AliasesAfter(mark["aliases"])
           /\ p = "keys" =>
                 /\ KeysView!Following(n)
                 /\ KeysAfter(n) = KeysAfter(mark["keys"])
<1>1. LogInv /\ mark[p] \in 0..Len(log) /\ n \in mark[p]..Len(log)
  BY Numbers DEF IInv
<1>2. \A m \in mark[p] + 1..n : log[m].type # TypeFor[p]
  BY <1>1 DEF IsFor
<1>3. n \in mark[p] + 1..Len(log) /\ \A m : m \notin mark[p] + 1..n - 1
  BY <1>1
<1>4. ASSUME p = "aliases"
      PROVE  /\ AliasView!Following(n)
             /\ AliasesAfter(n) = AliasesAfter(mark["aliases"])
  <2>1. \A m \in mark[p] + 1..n : log[m].type # "alias"
    BY <1>2, <1>4 DEF TypeFor
  <2>2. AliasesAfter(n) = AliasesAfter(mark["aliases"])
    BY <1>1, <1>4, <2>1, NothingNew
  <2>3. AliasView!Following(n)
    BY <1>3, <1>4 DEF AliasView!Following
  <2> QED
    BY <2>2, <2>3
<1>5. ASSUME p = "keys"
      PROVE  /\ KeysView!Following(n)
             /\ KeysAfter(n) = KeysAfter(mark["keys"])
  <2>1. \A m \in mark[p] + 1..n : log[m].type # "apikey"
    BY <1>2, <1>5 DEF TypeFor
  <2>2. KeysAfter(n) = KeysAfter(mark["keys"])
    BY <1>1, <1>5, <2>1, NothingNew
  <2>3. KeysView!Following(n)
    BY <1>3, <1>5 DEF KeysView!Following
  <2> QED
    BY <2>2, <2>3
<1> QED
  BY <1>4, <1>5

\* A write shows one slot of the next event.
LEMMA WritesShow ==
    ASSUME IInv, ApplyAlias \/ ApplyKeyPut \/ ApplyKeyDelete
    PROVE  AliasViewStep /\ KeysViewStep
<1>1. /\ "aliases" \in Projectors /\ "keys" \in Projectors
      /\ torn \in [Projectors -> BOOLEAN]
  BY DEF Projectors, IInv, TypeOK
<1>2. UNCHANGED <<log, mark, torn>>
  BY DEF ApplyAlias, ApplyKeyPut, ApplyKeyDelete
<1>3. CASE ApplyAlias
  <2>1. keysKV' = keysKV
    BY <1>3 DEF ApplyAlias
  <2>2. KeysViewStep
    BY <1>2, <2>1 DEF KeysViewStep, KeysView!vars
  <2>3. CASE torn["aliases"]
    BY <1>1, <1>2, <2>2, <2>3 DEF AliasViewStep, AliasView!Next,
                                  AliasView!Discard
  <2>4. CASE ~torn["aliases"]
    <3>1. PICK n, a : n = At("aliases") /\ a = Id("aliases")
      OBVIOUS
    <3>2. NextFor("aliases", n) /\ n \in 1..Len(log)
      BY <1>1, <1>3, <3>1, Applies DEF ApplyAlias
    <3>3. /\ aliasKV' = [aliasKV EXCEPT ![a] = AliasesAfter(n)[a]]
          /\ a \in AliasNames
      BY <1>3, <2>4, <3>1, AliasWrite
    <3>4. aliasKV'[a] = AliasesAfter(n)[a]
      BY <3>3 DEF IInv, TypeOK
    <3>5. AliasView!Following(n)
      BY <3>2, FollowsNext
    <3>6. AliasView!Show
      BY <1>2, <2>4, <3>2, <3>3, <3>4, <3>5 DEF AliasView!Show,
         AliasView!Prefix, AliasesAfter
    <3> QED
      BY <2>2, <3>6 DEF AliasViewStep, AliasView!Next
  <2> QED
    BY <2>3, <2>4
<1>4. CASE ApplyKeyPut \/ ApplyKeyDelete
  <2>1. aliasKV' = aliasKV
    BY <1>4 DEF ApplyKeyPut, ApplyKeyDelete
  <2>2. AliasViewStep
    BY <1>2, <2>1 DEF AliasViewStep, AliasView!vars
  <2>3. CASE torn["keys"]
    BY <1>1, <1>2, <2>2, <2>3 DEF KeysViewStep, KeysView!Next,
                                  KeysView!Discard
  <2>4. CASE ~torn["keys"]
    <3>1. PICK n : n = At("keys")
      OBVIOUS
    <3>2. NextFor("keys", n) /\ n \in 1..Len(log)
      BY <1>1, <1>4, <3>1, Applies DEF ApplyKeyPut, ApplyKeyDelete
    <3>3. Shows(n)
      BY <1>4, <2>4, <3>1, KeyPutWrite, KeyDeleteWrite
    <3>4. PICK h \in Hashes :
             keysKV' = [keysKV EXCEPT ![h] = KeysAfter(n)[h]]
      BY <3>3 DEF Shows
    <3>5. keysKV'[h] = KeysAfter(n)[h]
      BY <3>4 DEF IInv, TypeOK
    <3>6. KeysView!Following(n)
      BY <3>2, FollowsNext
    <3>7. KeysView!Show
      BY <1>2, <2>4, <3>2, <3>4, <3>5, <3>6 DEF KeysView!Show,
         KeysView!Prefix, KeysAfter
    <3> QED
      BY <2>2, <3>7 DEF KeysViewStep, KeysView!Next
  <2> QED
    BY <2>3, <2>4
<1> QED
  BY <1>3, <1>4

\* Saving the marker commits what shows, or passes what changes nothing.
LEMMA SaveCommits ==
    ASSUME IInv, NEW p \in Projectors, Save(p)
    PROVE  AliasViewStep /\ KeysViewStep
<1>1. /\ "aliases" \in Projectors /\ "keys" \in Projectors
      /\ torn \in [Projectors -> BOOLEAN] /\ DOMAIN mark = Projectors
      /\ p = "aliases" \/ p = "keys"
  BY DEF Projectors, IInv, TypeOK
<1>2. PICK n : n = At(p)
  OBVIOUS
<1>3. /\ UNCHANGED <<log, aliasKV, keysKV, torn>>
      /\ mark' = [mark EXCEPT ![p] = n]
  BY <1>2 DEF Save, buckets
<1>4. /\ n \in 1..Len(log)
      /\ \/ stage[p] = "written" /\ NextFor(p, n)
         \/ n = mark[p] + 1 /\ ~IsFor(p, n)
  <2>1. /\ n \in 1..Len(log)
        /\ \/ stage[p] = "written"
           \/ ~Mine(p) /\ n = mark[p] + 1
    BY <1>2, SaveFrame
  <2>2. stage[p] = "written" => NextFor(p, n)
    BY <1>2, Begun
  <2> QED
    BY <1>2, <2>1, <2>2 DEF Mine, IsFor
<1>5. CASE p = "aliases"
  <2>1. /\ mark'["aliases"] = n /\ mark'["keys"] = mark["keys"]
    BY <1>1, <1>3, <1>5
  <2>2. KeysViewStep
    BY <1>3, <2>1 DEF KeysViewStep, KeysView!vars
  <2>3. CASE torn["aliases"]
    BY <1>1, <1>3, <2>2, <2>3 DEF AliasViewStep, AliasView!Next,
                                  AliasView!Discard
  <2>4. CASE ~torn["aliases"]
    <3>1. /\ AliasView!Following(n)
          /\ \/ AliasesAfter(n) = aliasKV
             \/ AliasesAfter(n) = AliasesAfter(mark["aliases"])
      <4>1. CASE stage[p] = "written" /\ NextFor(p, n)
        BY <1>2, <1>5, <2>4, <4>1, FollowsNext DEF IInv, AliasBucketInv
      <4>2. CASE n = mark[p] + 1 /\ ~IsFor(p, n)
        BY <1>4, <1>5, <4>2, FollowsOther
      <4> QED
        BY <1>4, <4>1, <4>2
    <3>2. AliasView!Commit
      BY <1>3, <2>1, <2>4, <3>1 DEF AliasView!Commit, AliasView!Prefix,
                                    AliasesAfter
    <3> QED
      BY <2>2, <3>2 DEF AliasViewStep, AliasView!Next
  <2> QED
    BY <2>3, <2>4
<1>6. CASE p = "keys"
  <2>1. /\ mark'["keys"] = n /\ mark'["aliases"] = mark["aliases"]
    BY <1>1, <1>3, <1>6
  <2>2. AliasViewStep
    BY <1>3, <2>1 DEF AliasViewStep, AliasView!vars
  <2>3. CASE torn["keys"]
    BY <1>1, <1>3, <2>2, <2>3 DEF KeysViewStep, KeysView!Next,
                                  KeysView!Discard
  <2>4. CASE ~torn["keys"]
    <3>1. /\ KeysView!Following(n)
          /\ \/ KeysAfter(n) = keysKV
             \/ KeysAfter(n) = KeysAfter(mark["keys"])
      <4>1. CASE stage[p] = "written" /\ NextFor(p, n)
        BY <1>2, <1>6, <2>4, <4>1, FollowsNext DEF IInv, KeyBucketInv
      <4>2. CASE n = mark[p] + 1 /\ ~IsFor(p, n)
        BY <1>4, <1>6, <4>2, FollowsOther
      <4> QED
        BY <1>4, <4>1, <4>2
    <3>2. KeysView!Commit
      BY <1>3, <2>1, <2>4, <3>1 DEF KeysView!Commit, KeysView!Prefix,
                                    KeysAfter
    <3> QED
      BY <2>2, <3>2 DEF KeysViewStep, KeysView!Next
  <2> QED
    BY <2>3, <2>4
<1> QED
  BY <1>1, <1>5, <1>6

\* A rebuild discards the view and starts it over.
LEMMA RebuildStartsOver ==
    ASSUME IInv, ResetAliases \/ ResetKeys \/ ZeroAliases \/ ZeroKeys
    PROVE  AliasViewStep /\ KeysViewStep
<1>1. /\ "aliases" \in Projectors /\ "keys" \in Projectors
      /\ torn \in [Projectors -> BOOLEAN] /\ DOMAIN mark = Projectors
      /\ LogInv /\ ResyncInv
  BY DEF Projectors, IInv, TypeOK
<1>2. CASE ResetAliases
  <2>1. /\ torn'["aliases"] = TRUE /\ torn'["keys"] = torn["keys"]
        /\ UNCHANGED <<log, mark, keysKV>>
    BY <1>1, <1>2 DEF ResetAliases
  <2> QED
    BY <2>1 DEF AliasViewStep, KeysViewStep, AliasView!Next,
                AliasView!Discard, KeysView!vars
<1>3. CASE ResetKeys
  <2>1. /\ torn'["keys"] = TRUE /\ torn'["aliases"] = torn["aliases"]
        /\ UNCHANGED <<log, mark, aliasKV>>
    BY <1>1, <1>3 DEF ResetKeys
  <2> QED
    BY <2>1 DEF AliasViewStep, KeysViewStep, KeysView!Next,
                KeysView!Discard, AliasView!vars
<1>4. CASE ZeroAliases
  <2>1. /\ torn'["aliases"] = FALSE /\ torn'["keys"] = torn["keys"]
        /\ mark'["aliases"] = 0 /\ mark'["keys"] = mark["keys"]
        /\ UNCHANGED <<log, aliasKV, keysKV>> /\ phase = "zeroAliases"
    BY <1>1, <1>4 DEF ZeroAliases, Zero
  <2>2. torn["aliases"] /\ aliasKV = AliasTruth(<< >>)
    BY <1>1, <2>1, NothingYet DEF ResyncInv
  <2>3. AliasView!StartOver
    BY <2>1, <2>2 DEF AliasView!StartOver
  <2> QED
    BY <2>1, <2>3 DEF AliasViewStep, KeysViewStep, AliasView!Next,
                      KeysView!vars
<1>5. CASE ZeroKeys
  <2>1. /\ torn'["keys"] = FALSE /\ torn'["aliases"] = torn["aliases"]
        /\ mark'["keys"] = 0 /\ mark'["aliases"] = mark["aliases"]
        /\ UNCHANGED <<log, aliasKV, keysKV>> /\ phase = "zeroKeys"
    BY <1>1, <1>5 DEF ZeroKeys, Zero
  <2>2. torn["keys"] /\ keysKV = KeysTruth(<< >>)
    BY <1>1, <2>1, NothingYet DEF ResyncInv
  <2>3. KeysView!StartOver
    BY <2>1, <2>2 DEF KeysView!StartOver
  <2> QED
    BY <2>1, <2>3 DEF AliasViewStep, KeysViewStep, KeysView!Next,
                      AliasView!vars
<1> QED
  BY <1>2, <1>3, <1>4, <1>5

\* A command extends the log.
LEMMA RecordExtends ==
    ASSUME IInv, AppendKey \/ AppendAlias
    PROVE  AliasViewStep /\ KeysViewStep
<1>1. LogInv /\ StreamInv /\ Len(log) <= MaxLog
  BY DEF IInv, TypeOK
<1>2. /\ Len(log') = Len(log) + 1 /\ SubSeq(log', 1, Len(log)) = log
      /\ UNCHANGED <<mark, aliasKV, keysKV, torn>>
  BY <1>1, Recorded DEF buckets
<1> QED
  BY <1>2 DEF AliasViewStep, KeysViewStep, AliasView!Next, KeysView!Next,
              AliasView!Extend, KeysView!Extend

\* No other step is seen.
LEMMA OthersStutter ==
    ASSUME \/ RelayPublish \/ RelayRepeat \/ Expire \/ UNCHANGED vars
           \/ Start \/ AliasesReplayed \/ KeysReplayed \/ Halt \/ Crash
           \/ Restart \/ Resync \/ ResyncFails \/ FailMissing
           \/ \E p \in Projectors : Skip(p) \/ Redeliver(p) \/ FailError(p)
    PROVE  AliasViewStep /\ KeysViewStep
<1>1. UNCHANGED <<log, mark, aliasKV, keysKV, torn>>
  BY DEF RelayPublish, RelayRepeat, Expire, vars, Start, AliasesReplayed,
         KeysReplayed, Halt, Crash, Restart, Resync, ResyncFails,
         FailMissing, Skip, Redeliver, FailError, Fail, buckets
<1> QED
  BY <1>1 DEF AliasViewStep, KeysViewStep, AliasView!vars, KeysView!vars

\* ALIASES and KEYS are projected views: every entry follows the log one
\* event at a time, and the marker passes no event that does not show
\* (kvproj.go, apply and saveMarker).
THEOREM BucketsAreViews == Spec => BucketsFollowLog
<1>1. Init => AliasView!Init /\ KeysView!Init
  <2> SUFFICES ASSUME Init PROVE AliasView!Init /\ KeysView!Init
    OBVIOUS
  <2>1. LogInv
    BY InitInv DEF IInv
  <2>2. /\ log = << >> /\ mark = Each(0) /\ torn = Each(FALSE)
        /\ aliasKV = EmptyAliases /\ keysKV = EmptyKeys
    BY DEF Init
  <2> QED
    BY <2>1, <2>2, NothingYet DEF AliasView!Init, KeysView!Init, Each,
                                  Projectors
<1>2. IInv /\ [Next]_vars => AliasViewStep /\ KeysViewStep
  <2> SUFFICES ASSUME IInv, [Next]_vars PROVE AliasViewStep /\ KeysViewStep
    OBVIOUS
  <2>1. CASE ApplyAlias \/ ApplyKeyPut \/ ApplyKeyDelete
    BY <2>1, WritesShow
  <2>2. CASE \E p \in Projectors : Save(p)
    BY <2>2, SaveCommits
  <2>3. CASE ResetAliases \/ ResetKeys \/ ZeroAliases \/ ZeroKeys
    BY <2>3, RebuildStartsOver
  <2>4. CASE AppendKey \/ AppendAlias
    BY <2>4, RecordExtends
  <2>5. CASE \/ RelayPublish \/ RelayRepeat \/ Expire \/ UNCHANGED vars
             \/ Start \/ AliasesReplayed \/ KeysReplayed \/ Halt \/ Crash
             \/ Restart \/ Resync \/ ResyncFails \/ FailMissing
             \/ \E p \in Projectors : Skip(p) \/ Redeliver(p) \/ FailError(p)
    BY <2>5, OthersStutter
  <2> QED
    BY <2>1, <2>2, <2>3, <2>4, <2>5 DEF Next, Progress, Project
<1> QED
  BY <1>1, <1>2, Reachable, PTL DEF Spec, BucketsFollowLog, AliasView!Spec,
     KeysView!Spec, AliasViewStep, KeysViewStep

=============================================================================
