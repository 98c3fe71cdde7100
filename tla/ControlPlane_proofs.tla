-------------------------- MODULE ControlPlane_proofs --------------------------
(***************************************************************************)
(* Theorems about the control plane, for any number of requests, members,  *)
(* projects, keys, aliases and events, and any faults.                     *)
(*                                                                         *)
(* A request carries what it decided on a state that the log may have      *)
(* passed since.  DecidedInv ties the two: while the version is still the  *)
(* one the request has loaded, its events are what it would decide now, so *)
(* an append that is not refused is a decision on the present state, and   *)
(* FitInv follows from the aggregates alone.  A key's project is not in    *)
(* the aggregate that is written: HomeInv, because a project never         *)
(* vanishes.  For the read model, RowInv says which prefix of the log each *)
(* row shows, and which after the writes for an event are done.            *)
(***************************************************************************)
EXTENDS ControlPlane, ControlEvents_proofs

-----------------------------------------------------------------------------
(* The inductive invariant.                                                *)

OrgStates == [name : Names \union {None},
              members : [Subs -> Roles \union {None}],
              projects : [Projects -> {"live", "archived", None}]]
KeyStates == [hash : Nat \union {None}, home : Projects \union {None},
              allow : Vals \union {None}, limits : Vals \union {None},
              disabled : BOOLEAN]
AliasStates == [target : Targets \union {None}, deleted : BOOLEAN]
KeyRows == [home : Projects \union {None}, allow : Vals \union {None},
            limits : Vals \union {None}, disabled : BOOLEAN] \union {None}

AnyId == {OrgId} \union KeyIds \union AliasNames
AnyCommand == OrgCommands \union KeyCommands \union AliasCommands
Serving == [stage : {"check", "load", "append"},
            type : {"org", "apikey", "alias"}, id : AnyId, cmd : AnyCommand,
            hash : SUBSET Nat, out : Seq(LogEntries), at : Nat,
            tries : 0..2]

RowTypes ==
    /\ rows \in [org : OrgStates, keys : [KeyIds -> KeyRows],
                 aliases : [AliasNames -> Targets \union {None}]]
    /\ mark \in 0..Len(log)
    /\ written \in 0..2
    /\ written > 0 => mark < Len(log) /\ written <= Writes

Types ==
    /\ log \in Seq(LogEntries)
    /\ room \in 0..MaxAppends
    /\ RowTypes
    /\ phase \in {"live", "failed", "stopped"}
    /\ projFailed \in BOOLEAN /\ relayFailed \in BOOLEAN
    /\ left \in 0..MaxFaults

\* The three properties of the log.
Fits(l) == OwnerKept(l) /\ KeyEventsFit(l) /\ ProjectEventsFit(l)
FitInv == Fits(log)

\* A new key's project is looked up first.
CreatesKey(r) == r.type = "apikey" /\ r.cmd.kind = "create"

StageInv(r) ==
    /\ r.stage = "check" => CreatesKey(r) /\ r.tries = 0
    /\ r.stage = "load" => r.tries < 2
    /\ (r.stage = "append") = (r.out # << >>)

HomeInv(r) ==
    CreatesKey(r) /\ r.stage # "check" =>
        Load(log, "org", OrgId).projects[r.cmd.home] # None

DecidedInv(r) ==
    /\ r.at <= Version(log, r.type, r.id)
    /\ r.stage = "append" /\ r.at = Version(log, r.type, r.id) =>
          r.out = Envelopes(r.type, r.id,
                      Decide(r.type, Load(log, r.type, r.id), r.cmd))

ReqOk(r) == /\ r \in Serving
            /\ Addressed(r.type, r.id, r.cmd)
            /\ IsFiniteSet(r.hash)
            /\ StageInv(r) /\ HomeInv(r) /\ DecidedInv(r)

ReqInv == /\ req \in [Callers -> Serving \union {Idle}]
          /\ \A c \in Callers : req[c] # Idle => ReqOk(req[c])

\* All that there is to write for the event after the marker is written.
Done == written > 0 /\ written = Writes

Now   == {n \in mark..mark + 1 : n <= Len(log) /\ (Done => n = mark + 1)}
Later == {n \in mark..Len(log) : Done => n > mark}

RowInv ==
    /\ \A m \in Subs : \E n \in Now :
          rows.org.members[m] = Org(n).members[m]
    /\ \A p \in Projects : \E n \in Now :
          rows.org.projects[p] = Org(n).projects[p]
    /\ \A a \in AliasNames : \E n \in Now : rows.aliases[a] = Alias(n, a)
    /\ \A k \in KeyIds : \E n \in Later : rows.keys[k] = Key(n, k)

IInv == Types /\ FitInv /\ ReqInv /\ RowInv

USE NoneAssumption, ControlPlaneAssumption

-----------------------------------------------------------------------------
(* The aggregates: what an event makes of a state, and what is decided.    *)

LEMMA EvolveOrgType ==
    ASSUME NEW s \in OrgStates, NEW e \in OrgEvents
    PROVE  /\ EvolveOrg(s, e) \in OrgStates
           /\ \A p \in Projects : s.projects[p] # None =>
                 EvolveOrg(s, e).projects[p] # None
<1>1. CASE e \in [kind : {"orgCreated"}, name : Names, sub : Subs]
  BY <1>1 DEF OrgStates, EvolveOrg, Roles
<1>2. CASE e \in [kind : {"renamed"}, name : Names]
  BY <1>2 DEF OrgStates, EvolveOrg
<1>3. CASE e \in [kind : {"memberUpserted"}, sub : Subs, role : Roles]
  BY <1>3 DEF OrgStates, EvolveOrg
<1>4. CASE e \in [kind : {"memberRemoved"}, sub : Subs]
  BY <1>4 DEF OrgStates, EvolveOrg
<1>5. CASE e \in [kind : {"projectCreated", "projectArchived"},
                  project : Projects]
  BY <1>5 DEF OrgStates, EvolveOrg
<1> QED
  BY <1>1, <1>2, <1>3, <1>4, <1>5 DEF OrgEvents

LEMMA EvolveKeyType ==
    ASSUME NEW s \in KeyStates, NEW e \in KeyEvents
    PROVE  /\ EvolveKey(s, e) \in KeyStates
           /\ s.hash # None \/ e.kind = "created" =>
                 EvolveKey(s, e).hash # None
<1>1. CASE e \in [kind : {"created"}, new : Nat, home : Projects,
                  val : Vals]
  BY <1>1 DEF KeyStates, EvolveKey
<1>2. CASE e \in [kind : {"rotated"}, new : Nat, prev : Nat]
  BY <1>2 DEF KeyStates, EvolveKey
<1>3. CASE e \in [kind : {"disabled"}, prev : Nat]
  BY <1>3 DEF KeyStates, EvolveKey
<1>4. CASE e \in [kind : {"allowlist", "limits"}, val : Vals]
  BY <1>4 DEF KeyStates, EvolveKey
<1> QED
  BY <1>1, <1>2, <1>3, <1>4 DEF KeyEvents

LEMMA EvolveAliasType ==
    ASSUME NEW s \in AliasStates, NEW e \in AliasEvents
    PROVE  EvolveAlias(s, e) \in AliasStates
<1>1. CASE e \in [kind : {"set"}, target : Targets]
  BY <1>1 DEF AliasStates, EvolveAlias
<1>2. CASE e \in [kind : {"deleted"}]
  BY <1>2 DEF AliasStates, EvolveAlias
<1> QED
  BY <1>1, <1>2 DEF AliasEvents

\* What is emitted for a key fits its state; where a new key belongs is what
\* was asked for.
LEMMA KeyDecision ==
    ASSUME NEW s \in KeyStates, s.disabled => s.hash # None,
           NEW c \in KeyCommands, DecideKey(s, c).out # << >>,
           NEW o, c.kind = "create" => o.projects[c.home] # None
    PROVE  \E e \in KeyEvents :
              DecideKey(s, c).out = <<e>> /\ KeyEventFits(s, o, e)
<1> USE DEF DecideKey, DecideLiveKey, Emit, Reject, Nothing, KeyEvents,
            KeyStates, KeyEventFits
<1>1. CASE c \in [kind : {"create"}, hash : Nat, home : Projects,
                  val : Vals]
  <2> DEFINE e == [kind |-> "created", new |-> c.hash, home |-> c.home,
                   val |-> c.val]
  <2>1. s.hash = None /\ DecideKey(s, c).out = <<e>>
    BY <1>1
  <2>2. e \in KeyEvents
    BY <1>1
  <2> QED
    BY <1>1, <2>1, <2>2
<1>2. CASE c \in [kind : {"rotate"}, hash : Nat]
  <2> DEFINE e == [kind |-> "rotated", new |-> c.hash, prev |-> s.hash]
  <2>1. s.hash # None /\ ~s.disabled /\ DecideKey(s, c).out = <<e>>
    BY <1>2
  <2>2. e \in KeyEvents
    BY <1>2, <2>1
  <2> QED
    BY <1>2, <2>1, <2>2
<1>3. CASE c \in [kind : {"disable"}]
  <2> DEFINE e == [kind |-> "disabled", prev |-> s.hash]
  <2>1. s.hash # None /\ ~s.disabled /\ DecideKey(s, c).out = <<e>>
    BY <1>3
  <2>2. e \in KeyEvents
    BY <1>3, <2>1
  <2> QED
    BY <1>3, <2>1, <2>2
<1>4. CASE c \in [kind : {"allowlist", "limits"}, val : Vals]
  <2> DEFINE e == [kind |-> c.kind, val |-> c.val]
  <2>1. s.hash # None /\ ~s.disabled /\ DecideKey(s, c).out = <<e>>
    BY <1>4
  <2>2. e \in KeyEvents
    BY <1>4
  <2> QED
    BY <1>4, <2>1, <2>2
<1> QED
  BY <1>1, <1>2, <1>3, <1>4 DEF KeyCommands

LEMMA AliasDecision ==
    ASSUME NEW s \in AliasStates, NEW c \in AliasCommands,
           DecideAlias(s, c).out # << >>
    PROVE  \E e \in AliasEvents : DecideAlias(s, c).out = <<e>>
<1> USE DEF DecideAlias, Emit, Reject, Nothing, AliasEvents
<1>1. CASE c \in [kind : {"set"}, target : Targets \union {None},
                  reserved : BOOLEAN]
  <2> DEFINE e == [kind |-> "set", target |-> c.target]
  <2>1. c.target # None /\ DecideAlias(s, c).out = <<e>>
    BY <1>1
  <2>2. e \in AliasEvents
    BY <1>1, <2>1
  <2> QED
    BY <2>1, <2>2
<1>2. CASE c \in [kind : {"delete"}]
  <2> DEFINE e == [kind |-> "deleted"]
  <2>1. DecideAlias(s, c).out = <<e>> /\ e \in AliasEvents
    BY <1>2
  <2> QED
    BY <2>1
<1> QED
  BY <1>1, <1>2 DEF AliasCommands

\* An owner who is not the only one leaves another.
LEMMA OtherOwner ==
    ASSUME NEW s, NEW m, s.members[m] = "owner", m \in Subs,
           ~SoleOwner(s, m)
    PROVE  \E x \in Owners(s) : x # m
<1> SUFFICES ASSUME \A x \in Owners(s) : x = m PROVE FALSE
  OBVIOUS
<1>1. Owners(s) = {m}
  BY DEF Owners
<1>2. Cardinality(Owners(s)) = 1
  BY <1>1, FS_Singleton
<1> QED
  BY <1>2 DEF SoleOwner

\* An owner stays one unless the event is about that member.
LEMMA OwnerStays ==
    ASSUME NEW s \in OrgStates, NEW e \in OrgEvents, NEW x \in Owners(s),
           e.kind \in {"memberUpserted", "memberRemoved"} =>
               x # e.sub \/ (e.kind = "memberUpserted" /\ e.role = "owner")
    PROVE  x \in Owners(EvolveOrg(s, e))
<1> USE DEF OrgStates, EvolveOrg, Owners
<1>1. CASE e \in [kind : {"orgCreated"}, name : Names, sub : Subs]
  BY <1>1
<1>2. CASE e \in [kind : {"renamed"}, name : Names]
  BY <1>2
<1>3. CASE e \in [kind : {"memberUpserted"}, sub : Subs, role : Roles]
  BY <1>3
<1>4. CASE e \in [kind : {"memberRemoved"}, sub : Subs]
  BY <1>4
<1>5. CASE e \in [kind : {"projectCreated", "projectArchived"},
                  project : Projects]
  <2>1. CASE e.kind = "projectCreated"
    BY <2>1
  <2>2. CASE e.kind = "projectArchived"
    BY <2>2
  <2> QED
    BY <1>5, <2>1, <2>2
<1> QED
  BY <1>1, <1>2, <1>3, <1>4, <1>5 DEF OrgEvents

\* Event e fits state s of the org: what ProjectEventsFit says of it, and it
\* leaves an owner.
OrgEventFits(s, e) ==
    /\ ProjectEventFits(s, e)
    /\ (s.name # None => Owners(s) # {}) =>
          (EvolveOrg(s, e).name # None => Owners(EvolveOrg(s, e)) # {})

\* What is emitted for the org fits its state.
LEMMA OrgDecision ==
    ASSUME NEW s \in OrgStates, NEW c \in OrgCommands,
           DecideOrg(s, c).out # << >>
    PROVE  \E e \in OrgEvents :
              DecideOrg(s, c).out = <<e>> /\ OrgEventFits(s, e)
<1> USE DEF DecideOrg, DecideMember, DecideProject, Emit, Reject, Nothing,
            OrgEvents, OrgEventFits, ProjectEventFits
<1>1. CASE c \in [kind : {"create"}, name : Names, sub : Subs]
  <2> DEFINE e == [kind |-> "orgCreated", name |-> c.name, sub |-> c.sub]
  <2>1. DecideOrg(s, c).out = <<e>> /\ e \in OrgEvents
    BY <1>1
  <2>2. c.sub \in Owners(EvolveOrg(s, e))
    BY <1>1 DEF EvolveOrg, Owners, OrgStates
  <2> QED
    BY <2>1, <2>2
<1>2. CASE c \in [kind : {"rename"}, name : Names]
  <2> DEFINE e == [kind |-> "renamed", name |-> c.name]
  <2>1. s.name # None /\ DecideOrg(s, c).out = <<e>> /\ e \in OrgEvents
    BY <1>2
  <2>2. \A x \in Owners(s) : x \in Owners(EvolveOrg(s, e))
    BY <2>1, OwnerStays
  <2> QED
    BY <2>1, <2>2
<1>3. CASE c \in [kind : {"upsertMember"}, sub : Subs,
                  role : Roles \union {None}]
  <2> DEFINE e == [kind |-> "memberUpserted", sub |-> c.sub,
                   role |-> c.role]
  <2>1. /\ s.name # None /\ DecideOrg(s, c).out = <<e>> /\ e \in OrgEvents
        /\ c.role # "owner" => ~SoleOwner(s, c.sub)
    BY <1>3
  <2>2. ASSUME NEW x \in Owners(s) PROVE Owners(EvolveOrg(s, e)) # {}
    <3>1. CASE c.role = "owner" \/ x # c.sub
      BY <2>1, <3>1, OwnerStays
    <3>2. CASE c.role # "owner" /\ x = c.sub
      <4>1. s.members[c.sub] = "owner" /\ c.sub \in Subs
        BY <3>2 DEF Owners
      <4>2. PICK y \in Owners(s) : y # c.sub
        BY <2>1, <3>2, <4>1, OtherOwner
      <4> QED
        BY <2>1, <4>2, OwnerStays
    <3> QED
      BY <3>1, <3>2
  <2> QED
    BY <2>1, <2>2
<1>4. CASE c \in [kind : {"removeMember"}, sub : Subs]
  <2> DEFINE e == [kind |-> "memberRemoved", sub |-> c.sub]
  <2>1. /\ s.name # None /\ DecideOrg(s, c).out = <<e>> /\ e \in OrgEvents
        /\ ~SoleOwner(s, c.sub)
    BY <1>4
  <2>2. ASSUME NEW x \in Owners(s) PROVE Owners(EvolveOrg(s, e)) # {}
    <3>1. CASE x # c.sub
      BY <2>1, <3>1, OwnerStays
    <3>2. CASE x = c.sub
      <4>1. s.members[c.sub] = "owner" /\ c.sub \in Subs
        BY <3>2 DEF Owners
      <4>2. PICK y \in Owners(s) : y # c.sub
        BY <2>1, <4>1, OtherOwner
      <4> QED
        BY <2>1, <4>2, OwnerStays
    <3> QED
      BY <3>1, <3>2
  <2> QED
    BY <2>1, <2>2
<1>5. CASE c \in [kind : {"createProject", "archiveProject"},
                  project : Projects]
  <2> DEFINE e == [kind |-> IF c.kind = "createProject"
                            THEN "projectCreated" ELSE "projectArchived",
                   project |-> c.project]
  <2>1. s.name # None /\ DecideOrg(s, c).out = <<e>> /\ e \in OrgEvents
    BY <1>5
  <2>2. /\ e.kind = "projectCreated" => s.projects[e.project] = None
        /\ e.kind = "projectArchived" => s.projects[e.project] = "live"
    BY <1>5 DEF OrgStates
  <2>3. \A x \in Owners(s) : x \in Owners(EvolveOrg(s, e))
    BY <2>1, OwnerStays
  <2> QED
    BY <2>1, <2>2, <2>3
<1> QED
  BY <1>1, <1>2, <1>3, <1>4, <1>5 DEF OrgCommands

-----------------------------------------------------------------------------
(* The aggregates as they are loaded from a log.                           *)

LEMMA EntryTypes ==
    ASSUME NEW x \in LogEntries
    PROVE  /\ x.type = "org" => x.event \in OrgEvents /\ x.id = OrgId
           /\ x.type = "apikey" => x.event \in KeyEvents /\ x.id \in KeyIds
           /\ x.type = "alias" =>
                 x.event \in AliasEvents /\ x.id \in AliasNames
           /\ x.type \in {"org", "apikey", "alias"}
BY DEF LogEntries

\* The n-th envelope of a log and the states around it.
LEMMA Around ==
    ASSUME NEW l \in Seq(LogEntries), NEW n \in 1..Len(l),
           NEW type, NEW id
    PROVE  /\ l[n] \in LogEntries /\ n \in DOMAIN l
           /\ n - 1 \in 0..Len(l)
           /\ Load(Before(l, n), type, id) = History(l, type, id)[n - 1]
           /\ History(l, type, id)[n] =
                 IF Within(l[n], type, id)
                 THEN Evolve(type, History(l, type, id)[n - 1], l[n].event)
                 ELSE History(l, type, id)[n - 1]
<1>1. /\ Len(l) \in Nat /\ n - 1 \in 0..Len(l) /\ n \in DOMAIN l
      /\ l[n] \in LogEntries
  BY LenProperties, ElementOfSeq
<1>2. Load(Before(l, n), type, id) = History(l, type, id)[n - 1]
  BY <1>1, LoadPrefix DEF Before
<1> QED
  BY <1>1, <1>2, HistoryStates

LEMMA OrgLoads ==
    ASSUME NEW l \in Seq(LogEntries)
    PROVE  \A n \in 0..Len(l) : History(l, "org", OrgId)[n] \in OrgStates
<1> DEFINE h == History(l, "org", OrgId)
           len == Len(l)
<1>1. len \in Nat /\ 0 \in 0..len /\ len \in 0..len
  BY LenProperties
<1>2. h[0] \in OrgStates
  <2>1. h[0] = Initial("org")
    BY <1>1, HistoryStates
  <2>2. Initial("org") = NewOrg
    BY DEF Initial
  <2>3. NewOrg \in OrgStates
    BY DEF NewOrg, OrgStates
  <2> QED
    BY <2>1, <2>2, <2>3
<1>3. ASSUME NEW n \in 0 + 1..len, h[n - 1] \in OrgStates
      PROVE  h[n] \in OrgStates
  <2>1. /\ l[n] \in LogEntries
        /\ h[n] = IF Within(l[n], "org", OrgId)
                  THEN Evolve("org", h[n - 1], l[n].event) ELSE h[n - 1]
    BY Around
  <2> HIDE DEF h
  <2>2. CASE Within(l[n], "org", OrgId)
    <3>1. l[n].event \in OrgEvents
      BY <2>1, <2>2, EntryTypes DEF Within
    <3> QED
      BY <1>3, <2>1, <2>2, <3>1, EvolveOrgType DEF Evolve
  <2> QED
    BY <1>3, <2>1, <2>2
<1> HIDE DEF len
<1> QED
  BY <1>1, <1>2, <1>3, HistoryStays DEF len

LEMMA AliasLoads ==
    ASSUME NEW l \in Seq(LogEntries), NEW a
    PROVE  \A n \in 0..Len(l) : History(l, "alias", a)[n] \in AliasStates
<1> DEFINE h == History(l, "alias", a)
           len == Len(l)
<1>1. len \in Nat /\ 0 \in 0..len /\ len \in 0..len
  BY LenProperties
<1>2. h[0] \in AliasStates
  <2>1. h[0] = Initial("alias")
    BY <1>1, HistoryStates
  <2>2. Initial("alias") = NewAlias
    BY DEF Initial
  <2>3. NewAlias \in AliasStates
    BY DEF NewAlias, AliasStates
  <2> QED
    BY <2>1, <2>2, <2>3
<1>3. ASSUME NEW n \in 0 + 1..len, h[n - 1] \in AliasStates
      PROVE  h[n] \in AliasStates
  <2>1. /\ l[n] \in LogEntries
        /\ h[n] = IF Within(l[n], "alias", a)
                  THEN Evolve("alias", h[n - 1], l[n].event) ELSE h[n - 1]
    BY Around
  <2> HIDE DEF h
  <2>2. CASE Within(l[n], "alias", a)
    <3>1. l[n].event \in AliasEvents
      BY <2>1, <2>2, EntryTypes DEF Within
    <3> QED
      BY <1>3, <2>1, <2>2, <3>1, EvolveAliasType DEF Evolve
  <2> QED
    BY <1>3, <2>1, <2>2
<1> HIDE DEF len
<1> QED
  BY <1>1, <1>2, <1>3, HistoryStays DEF len

\* A key that is disabled has been created.
DisabledHasHash(s) == s.disabled => s.hash # None

LEMMA KeyLoads ==
    ASSUME NEW l \in Seq(LogEntries), KeyEventsFit(l), NEW k
    PROVE  \A n \in 0..Len(l) :
              /\ History(l, "apikey", k)[n] \in KeyStates
              /\ DisabledHasHash(History(l, "apikey", k)[n])
<1> DEFINE h == History(l, "apikey", k)
           len == Len(l)
           States == {s \in KeyStates : DisabledHasHash(s)}
<1>1. len \in Nat /\ 0 \in 0..len /\ len \in 0..len
  BY LenProperties
<1>2. h[0] \in States
  <2>1. h[0] = Initial("apikey")
    BY <1>1, HistoryStates
  <2>2. Initial("apikey") = NewKey
    BY DEF Initial
  <2>3. NewKey \in States
    BY DEF NewKey, KeyStates, DisabledHasHash
  <2> QED
    BY <2>1, <2>2, <2>3
<1>3. ASSUME NEW n \in 0 + 1..len, h[n - 1] \in States
      PROVE  h[n] \in States
  <2>1. /\ l[n] \in LogEntries /\ n \in DOMAIN l
        /\ Load(Before(l, n), "apikey", k) = h[n - 1]
        /\ h[n] = IF Within(l[n], "apikey", k)
                  THEN Evolve("apikey", h[n - 1], l[n].event) ELSE h[n - 1]
    BY Around
  <2> HIDE DEF h
  <2>2. CASE Within(l[n], "apikey", k)
    <3>1. l[n].event \in KeyEvents
      BY <2>1, <2>2, EntryTypes DEF Within
    <3>2. (l[n].event.kind = "created") = (h[n - 1].hash = None)
      BY <2>1, <2>2 DEF KeyEventsFit, KeyEventFits, Within
    <3>3. h[n - 1].hash # None \/ l[n].event.kind = "created"
      BY <3>2
    <3>4. /\ EvolveKey(h[n - 1], l[n].event) \in KeyStates
          /\ EvolveKey(h[n - 1], l[n].event).hash # None
      BY <1>3, <3>1, <3>3, EvolveKeyType
    <3> QED
      BY <2>1, <2>2, <3>4 DEF Evolve, DisabledHasHash
  <2> QED
    BY <1>3, <2>1, <2>2
<1>4. \A n \in 0..len : h[n] \in States
  <2> HIDE DEF States, len
  <2> QED
    BY <1>1, <1>2, <1>3, HistoryStays DEF len
<1> QED
  BY <1>4

\* The whole log.
LEMMA Loaded ==
    ASSUME NEW l \in Seq(LogEntries), KeyEventsFit(l)
    PROVE  /\ Load(l, "org", OrgId) \in OrgStates
           /\ \A k : Load(l, "apikey", k) \in KeyStates
                     /\ DisabledHasHash(Load(l, "apikey", k))
           /\ \A a : Load(l, "alias", a) \in AliasStates
<1>1. Len(l) \in 0..Len(l)
  BY LenProperties
<1>2. Load(l, "org", OrgId) \in OrgStates
  BY <1>1, OrgLoads DEF Load
<1>3. ASSUME NEW k
      PROVE  /\ Load(l, "apikey", k) \in KeyStates
             /\ DisabledHasHash(Load(l, "apikey", k))
  BY <1>1, KeyLoads DEF Load
<1>4. ASSUME NEW a PROVE Load(l, "alias", a) \in AliasStates
  BY <1>1, AliasLoads DEF Load
<1> QED
  BY <1>2, <1>3, <1>4

\* An archived project stays archived.
LEMMA ArchivedStays ==
    ASSUME NEW l \in Seq(LogEntries), ProjectEventsFit(l),
           NEW p \in Projects, NEW a \in 0..Len(l),
           History(l, "org", OrgId)[a].projects[p] = "archived"
    PROVE  Load(l, "org", OrgId).projects[p] = "archived"
<1> DEFINE h == History(l, "org", OrgId)
           len == Len(l)
           States == {s \in OrgStates : s.projects[p] = "archived"}
<1>1. len \in Nat /\ len \in a..len /\ a \in 0..len
  BY LenProperties
<1>2. h[a] \in States
  BY OrgLoads
<1>3. ASSUME NEW n \in a + 1..len, h[n - 1] \in States
      PROVE  h[n] \in States
  <2>0. n \in 1..len /\ n \in 0..len
    BY <1>1
  <2>1. /\ l[n] \in LogEntries /\ n \in DOMAIN l /\ h[n] \in OrgStates
        /\ Load(Before(l, n), "org", OrgId) = h[n - 1]
        /\ h[n] = IF Within(l[n], "org", OrgId)
                  THEN Evolve("org", h[n - 1], l[n].event) ELSE h[n - 1]
    BY <2>0, Around, OrgLoads
  <2> HIDE DEF h
  <2>2. CASE Within(l[n], "org", OrgId)
    <3>1. l[n].event \in OrgEvents
      BY <2>1, <2>2, EntryTypes DEF Within
    <3>2. ProjectEventFits(h[n - 1], l[n].event)
      BY <2>1, <2>2 DEF ProjectEventsFit, Within
    <3>3. h[n] = EvolveOrg(h[n - 1], l[n].event)
      BY <2>1, <2>2 DEF Evolve
    <3> DEFINE e == l[n].event
               s == h[n - 1]
    <3> HIDE DEF e, s
    <3>4. EvolveOrg(s, e).projects[p] = "archived"
      BY <1>3, <3>1, <3>2
         DEF OrgEvents, OrgStates, EvolveOrg, ProjectEventFits, e, s
    <3> QED
      BY <2>1, <3>3, <3>4 DEF e, s
  <2> QED
    BY <1>3, <2>1, <2>2
<1>4. \A n \in a..len : h[n] \in States
  <2> HIDE DEF States, len
  <2> QED
    BY <1>1, <1>2, <1>3, HistoryStays DEF len
<1> QED
  BY <1>1, <1>4 DEF Load

-----------------------------------------------------------------------------
(* What an append makes of the log.                                        *)

\* One more event fits if it fits the present states.
LEMMA KeyFitAppend ==
    ASSUME NEW l \in Seq(LogEntries), NEW x \in LogEntries, KeyEventsFit(l),
           x.type = "apikey" =>
              KeyEventFits(Load(l, "apikey", x.id), Load(l, "org", OrgId),
                           x.event)
    PROVE  KeyEventsFit(Append(l, x))
<1> DEFINE m == Append(l, x)
<1>1. /\ DOMAIN m = 1..Len(l) + 1 /\ DOMAIN l = 1..Len(l)
      /\ Len(l) \in Nat /\ m[Len(l) + 1] = x
      /\ \A i \in 1..Len(l) : m[i] = l[i]
  BY AppendProperties, LenProperties
<1>2. ASSUME NEW i \in DOMAIN m PROVE Before(m, i) = SubSeq(l, 1, i - 1)
  BY <1>1, PrefixOfAppend DEF Before
<1>3. SubSeq(l, 1, Len(l)) = l
  BY SubSeqFull
<1> HIDE DEF m
<1>4. ASSUME NEW i \in DOMAIN m, m[i].type = "apikey"
      PROVE  KeyEventFits(Load(Before(m, i), "apikey", m[i].id),
                          Load(Before(m, i), "org", OrgId), m[i].event)
  <2>1. CASE i = Len(l) + 1
    <3>1. i - 1 = Len(l) /\ m[i] = x
      BY <1>1, <2>1
    <3>2. Before(m, i) = l
      BY <1>2, <1>3, <3>1
    <3> QED
      BY <1>4, <3>1, <3>2
  <2>2. CASE i \in 1..Len(l)
    <3>1. Before(m, i) = Before(l, i) /\ m[i] = l[i] /\ i \in DOMAIN l
      BY <1>1, <1>2, <2>2 DEF Before
    <3> QED
      BY <1>4, <3>1 DEF KeyEventsFit
  <2> QED
    BY <1>1, <2>1, <2>2
<1> QED
  BY <1>4 DEF KeyEventsFit, m

LEMMA ProjectFitAppend ==
    ASSUME NEW l \in Seq(LogEntries), NEW x \in LogEntries,
           ProjectEventsFit(l),
           x.type = "org" =>
              ProjectEventFits(Load(l, "org", OrgId), x.event)
    PROVE  ProjectEventsFit(Append(l, x))
<1> DEFINE m == Append(l, x)
<1>1. /\ DOMAIN m = 1..Len(l) + 1 /\ DOMAIN l = 1..Len(l)
      /\ Len(l) \in Nat /\ m[Len(l) + 1] = x
      /\ \A i \in 1..Len(l) : m[i] = l[i]
  BY AppendProperties, LenProperties
<1>2. ASSUME NEW i \in DOMAIN m PROVE Before(m, i) = SubSeq(l, 1, i - 1)
  BY <1>1, PrefixOfAppend DEF Before
<1>3. SubSeq(l, 1, Len(l)) = l
  BY SubSeqFull
<1> HIDE DEF m
<1>4. ASSUME NEW i \in DOMAIN m, m[i].type = "org"
      PROVE  ProjectEventFits(Load(Before(m, i), "org", OrgId), m[i].event)
  <2>1. CASE i = Len(l) + 1
    <3>1. i - 1 = Len(l) /\ m[i] = x
      BY <1>1, <2>1
    <3>2. Before(m, i) = l
      BY <1>2, <1>3, <3>1
    <3> QED
      BY <1>4, <3>1, <3>2
  <2>2. CASE i \in 1..Len(l)
    <3>1. Before(m, i) = Before(l, i) /\ m[i] = l[i] /\ i \in DOMAIN l
      BY <1>1, <1>2, <2>2 DEF Before
    <3> QED
      BY <1>4, <3>1 DEF ProjectEventsFit
  <2> QED
    BY <1>1, <2>1, <2>2
<1> QED
  BY <1>4 DEF ProjectEventsFit, m

\* A decision on the present state can be appended.
LEMMA DecisionFits ==
    ASSUME NEW l \in Seq(LogEntries), Fits(l), NEW type, NEW id, NEW cmd,
           Addressed(type, id, cmd),
           Decide(type, Load(l, type, id), cmd).out # << >>,
           type = "apikey" /\ cmd.kind = "create" =>
              Load(l, "org", OrgId).projects[cmd.home] # None
    PROVE  \E x \in LogEntries :
              /\ Envelopes(type, id, Decide(type, Load(l, type, id), cmd))
                    = <<x>>
              /\ x.type = type /\ x.id = id
              /\ Fits(Append(l, x))
<1> DEFINE s == Load(l, type, id)
           d == Decide(type, s, cmd)
           o == Load(l, "org", OrgId)
<1>1. CASE type = "org" /\ id = OrgId /\ cmd \in OrgCommands
  <2>1. /\ d = DecideOrg(s, cmd) /\ s \in OrgStates /\ s = o
        /\ d.out # << >>
    BY <1>1, Loaded DEF Decide, Fits
  <2>2. PICK e \in OrgEvents : d.out = <<e>> /\ OrgEventFits(s, e)
    <3> HIDE DEF s, d
    <3> QED
      BY <1>1, <2>1, OrgDecision
  <2> DEFINE x == [type |-> type, id |-> id, event |-> e]
  <2>3. x \in LogEntries /\ x.type = "org" /\ x.id = OrgId
    BY <1>1 DEF LogEntries
  <2>4. Envelopes(type, id, d) = <<x>>
    <3> HIDE DEF d
    <3> QED
      BY <2>2, OneEnvelope
  <2>5. Load(Append(l, x), "org", OrgId) = EvolveOrg(o, e)
    <3>1. Load(Append(l, x), "org", OrgId) =
             IF Within(x, "org", OrgId) THEN Evolve("org", o, x.event)
             ELSE o
      BY <2>3, LoadAppend
    <3> QED
      BY <2>3, <3>1 DEF Within, Evolve
  <2>6. OwnerKept(Append(l, x))
    <3> HIDE DEF x, s, o
    <3> QED
      BY <2>1, <2>2, <2>5 DEF OrgEventFits, OwnerKept, Fits, o
  <2>7. KeyEventsFit(Append(l, x))
    <3>1. x.type # "apikey"
      BY <2>3
    <3> HIDE DEF x
    <3> QED
      BY <2>3, <3>1, KeyFitAppend DEF Fits
  <2>8. ProjectEventsFit(Append(l, x))
    <3>1. ProjectEventFits(o, x.event)
      BY <2>1, <2>2 DEF OrgEventFits
    <3> HIDE DEF x
    <3> QED
      BY <2>3, <3>1, ProjectFitAppend DEF Fits, o
  <2> QED
    BY <2>3, <2>4, <2>6, <2>7, <2>8 DEF Fits
<1>2. ASSUME NEW x \in LogEntries, x.type # "org",
             x.type = "apikey" =>
                KeyEventFits(Load(l, "apikey", x.id), o, x.event)
      PROVE  Fits(Append(l, x))
  <2>1. Load(Append(l, x), "org", OrgId) = o
    <3>1. ~Within(x, "org", OrgId)
      BY <1>2 DEF Within
    <3> QED
      BY <3>1, LoadAppend
  <2>2. OwnerKept(Append(l, x))
    BY <2>1 DEF OwnerKept, Fits
  <2> QED
    BY <1>2, <2>2, KeyFitAppend, ProjectFitAppend DEF Fits
<1>3. CASE type = "apikey" /\ id \in KeyIds /\ cmd \in KeyCommands
  <2>1. /\ d = DecideKey(s, cmd) /\ s \in KeyStates
        /\ s.disabled => s.hash # None
        /\ d.out # << >>
    BY <1>3, Loaded DEF Decide, Fits, DisabledHasHash
  <2>2. PICK e \in KeyEvents : d.out = <<e>> /\ KeyEventFits(s, o, e)
    <3> HIDE DEF s, o, d
    <3>1. cmd.kind = "create" => o.projects[cmd.home] # None
      BY <1>3 DEF o
    <3> QED
      BY <1>3, <2>1, <3>1, KeyDecision
  <2> DEFINE x == [type |-> type, id |-> id, event |-> e]
  <2>3. x \in LogEntries /\ x.type = "apikey" /\ x.id = id /\ x.event = e
    BY <1>3 DEF LogEntries
  <2>4. Envelopes(type, id, d) = <<x>>
    <3> HIDE DEF d
    <3> QED
      BY <2>2, OneEnvelope
  <2>5. Fits(Append(l, x))
    <3>1. KeyEventFits(Load(l, "apikey", x.id), o, x.event)
      BY <1>3, <2>2, <2>3
    <3> HIDE DEF x, o
    <3> QED
      BY <1>2, <2>3, <3>1
  <2> QED
    BY <1>3, <2>3, <2>4, <2>5
<1>4. CASE type = "alias" /\ id \in AliasNames /\ cmd \in AliasCommands
  <2>1. d = DecideAlias(s, cmd) /\ s \in AliasStates /\ d.out # << >>
    BY <1>4, Loaded DEF Decide, Fits
  <2>2. PICK e \in AliasEvents : d.out = <<e>>
    <3> HIDE DEF s, d
    <3> QED
      BY <1>4, <2>1, AliasDecision
  <2> DEFINE x == [type |-> type, id |-> id, event |-> e]
  <2>3. x \in LogEntries /\ x.type = "alias" /\ x.id = id
    BY <1>4 DEF LogEntries
  <2>4. Envelopes(type, id, d) = <<x>>
    <3> HIDE DEF d
    <3> QED
      BY <2>2, OneEnvelope
  <2>5. Fits(Append(l, x))
    <3> HIDE DEF x, o
    <3> QED
      BY <1>2, <2>3
  <2> QED
    BY <1>4, <2>3, <2>4, <2>5
<1> QED
  BY <1>1, <1>3, <1>4 DEF Addressed

-----------------------------------------------------------------------------
(* What the read model is compared with.                                   *)

LEMMA ViewTypes ==
    ASSUME log \in Seq(LogEntries), KeyEventsFit(log),
           NEW n \in 0..Len(log)
    PROVE  /\ Org(n) \in OrgStates
           /\ \A k \in KeyIds : Key(n, k) \in KeyRows
           /\ \A a \in AliasNames : Alias(n, a) \in Targets \union {None}
<1>1. Org(n) \in OrgStates
  BY OrgLoads, LoadPrefix DEF Org, Prefix
<1>2. ASSUME NEW k \in KeyIds PROVE Key(n, k) \in KeyRows
  <2>1. Load(Prefix(n), "apikey", k) \in KeyStates
    BY KeyLoads, LoadPrefix DEF Prefix
  <2> QED
    BY <2>1 DEF Key, KeyStates, KeyRows
<1>3. ASSUME NEW a \in AliasNames
      PROVE  Alias(n, a) \in Targets \union {None}
  <2>1. Load(Prefix(n), "alias", a) \in AliasStates
    BY AliasLoads, LoadPrefix DEF Prefix
  <2> QED
    BY <2>1 DEF Alias, AliasStates
<1> QED
  BY <1>1, <1>2, <1>3

\* What one event changes.
LEMMA ViewStep ==
    ASSUME log \in Seq(LogEntries), NEW n \in 1..Len(log)
    PROVE  /\ log[n] \in LogEntries
           /\ Org(n) = IF log[n].type = "org"
                       THEN EvolveOrg(Org(n - 1), log[n].event)
                       ELSE Org(n - 1)
           /\ \A k \in KeyIds : log[n].type # "apikey" \/ log[n].id # k =>
                 Key(n, k) = Key(n - 1, k)
           /\ \A a \in AliasNames :
                 Alias(n, a) = IF log[n].type = "alias" /\ log[n].id = a
                               THEN AliasWrite(log[n].event)
                               ELSE Alias(n - 1, a)
<1>1. log[n] \in LogEntries
  BY ElementOfSeq
<1>2. ASSUME NEW type, NEW id
      PROVE  Load(Prefix(n), type, id) =
                IF Within(log[n], type, id)
                THEN Evolve(type, Load(Prefix(n - 1), type, id),
                            log[n].event)
                ELSE Load(Prefix(n - 1), type, id)
  BY LoadStep DEF Prefix
<1>3. Org(n) = IF log[n].type = "org"
               THEN EvolveOrg(Org(n - 1), log[n].event) ELSE Org(n - 1)
  <2>1. Within(log[n], "org", OrgId) <=> log[n].type = "org"
    BY <1>1, EntryTypes DEF Within
  <2>2. ASSUME NEW s, NEW e PROVE Evolve("org", s, e) = EvolveOrg(s, e)
    BY DEF Evolve
  <2> QED
    BY <1>2, <2>1, <2>2, Zenon DEF Org
<1>4. ASSUME NEW k \in KeyIds, log[n].type # "apikey" \/ log[n].id # k
      PROVE  Key(n, k) = Key(n - 1, k)
  <2>1. ~Within(log[n], "apikey", k)
    BY <1>4 DEF Within
  <2>2. Load(Prefix(n), "apikey", k) = Load(Prefix(n - 1), "apikey", k)
    BY <1>2, <2>1
  <2> QED
    BY <2>2 DEF Key
<1>5. ASSUME NEW a \in AliasNames
      PROVE  Alias(n, a) = IF log[n].type = "alias" /\ log[n].id = a
                           THEN AliasWrite(log[n].event)
                           ELSE Alias(n - 1, a)
  <2> DEFINE s == Load(Prefix(n - 1), "alias", a)
             e == log[n].event
  <2>1. CASE ~Within(log[n], "alias", a)
    <3>1. Load(Prefix(n), "alias", a) = s
      BY <1>2, <2>1
    <3>2. ~(log[n].type = "alias" /\ log[n].id = a)
      BY <2>1 DEF Within
    <3> QED
      BY <3>1, <3>2 DEF Alias
  <2>2. CASE Within(log[n], "alias", a)
    <3>1. Load(Prefix(n), "alias", a) = EvolveAlias(s, e)
      BY <1>2, <2>2 DEF Evolve
    <3>2. log[n].type = "alias" /\ log[n].id = a /\ e \in AliasEvents
      BY <1>1, <2>2, EntryTypes DEF Within
    <3>3. s \in AliasStates
      <4>1. Len(log) \in Nat /\ n - 1 \in 0..Len(log)
        BY LenProperties
      <4> QED
        BY <4>1, AliasLoads, LoadPrefix DEF Prefix
    <3> HIDE DEF s, e
    <3>4. IF EvolveAlias(s, e).deleted THEN AliasWrite(e) = None
          ELSE AliasWrite(e) = EvolveAlias(s, e).target
      BY <3>2, <3>3 DEF AliasEvents, AliasStates, EvolveAlias, AliasWrite
    <3> QED
      BY <3>1, <3>2, <3>4 DEF Alias, e
  <2> QED
    BY <2>1, <2>2
<1> QED
  BY <1>1, <1>3, <1>4, <1>5

\* A key that has been created is not forgotten.
LEMMA KeyStays ==
    ASSUME NEW l \in Seq(LogEntries), KeyEventsFit(l), NEW k,
           NEW a \in 0..Len(l), History(l, "apikey", k)[a].hash # None
    PROVE  Load(l, "apikey", k).hash # None
<1> DEFINE h == History(l, "apikey", k)
           len == Len(l)
           States == {s \in KeyStates : s.hash # None}
<1>1. len \in Nat /\ len \in a..len /\ a \in 0..len
  BY LenProperties
<1>2. h[a] \in States
  BY KeyLoads
<1>3. ASSUME NEW n \in a + 1..len, h[n - 1] \in States
      PROVE  h[n] \in States
  <2>1. n \in 1..len
    BY <1>1
  <2>2. /\ l[n] \in LogEntries
        /\ h[n] = IF Within(l[n], "apikey", k)
                  THEN Evolve("apikey", h[n - 1], l[n].event) ELSE h[n - 1]
    BY <2>1, Around
  <2> HIDE DEF h
  <2>3. CASE Within(l[n], "apikey", k)
    <3>1. l[n].event \in KeyEvents
      BY <2>2, <2>3, EntryTypes DEF Within
    <3> QED
      BY <1>3, <2>2, <2>3, <3>1, EvolveKeyType DEF Evolve
  <2> QED
    BY <1>3, <2>2, <2>3
<1>4. \A n \in a..len : h[n] \in States
  <2> HIDE DEF States, len
  <2> QED
    BY <1>1, <1>2, <1>3, HistoryStays DEF len
<1> QED
  BY <1>1, <1>4 DEF Load

-----------------------------------------------------------------------------
(* The requests.                                                           *)

\* There is always a hash that nobody has.
LEMMA FreshType ==
    ASSUME log \in Seq(LogEntries), ReqInv
    PROVE  Fresh \in Nat
<1> DEFINE L == {NewHash(log[i]) : i \in DOMAIN log}
           B == {b \in Callers : req[b] # Idle}
           R == {req[c].hash : c \in B}
<1>1. DOMAIN log = 1..Len(log) /\ Len(log) \in Nat
  BY LenProperties
<1>2. IsFiniteSet(L)
  <2> DEFINE f == [i \in 1..Len(log) |-> NewHash(log[i])]
  <2>1. f \in Surjection(1..Len(log), L)
    BY <1>1 DEF Surjection
  <2>2. IsFiniteSet(1..Len(log))
    BY <1>1, UpTo
  <2> HIDE DEF f, L
  <2> QED
    BY <2>1, <2>2, FS_Surjection
<1>3. IsFiniteSet(R)
  <2> DEFINE f == [c \in B |-> req[c].hash]
  <2>1. f \in Surjection(B, R)
    BY DEF Surjection
  <2>2. B \in SUBSET Callers
    OBVIOUS
  <2> HIDE DEF f, B, R
  <2>3. IsFiniteSet(B)
    BY <2>2, FS_Subset
  <2> QED
    BY <2>1, <2>3, FS_Surjection
<1>4. \A T \in L : IsFiniteSet(T)
  <2>1. ASSUME NEW i \in DOMAIN log
        PROVE  IsFiniteSet(NewHash(log[i]))
    <3>1. NewHash(log[i]) = {} \/ NewHash(log[i]) = {log[i].event.new}
      BY DEF NewHash
    <3>2. IsFiniteSet({})
      BY FS_EmptySet
    <3>3. IsFiniteSet({log[i].event.new})
      BY FS_Singleton
    <3> QED
      BY <3>1, <3>2, <3>3, Zenon
  <2> QED
    BY <2>1
<1>5. \A T \in R : IsFiniteSet(T)
  BY DEF ReqInv, ReqOk
<1>6. Used = UNION (L \union R)
  BY DEF Used
<1> HIDE DEF L, R
<1>7. IsFiniteSet(Used)
  <2>1. IsFiniteSet(L \union R)
    BY <1>2, <1>3, FS_Union
  <2> QED
    BY <1>4, <1>5, <1>6, <2>1, FS_UNION
<1> DEFINE n == Cardinality(Used) + 1
<1>8. n \in Nat /\ n > Cardinality(Used)
  BY <1>7, FS_CardinalityType
<1>9. \E h \in 1..n : h \notin Used
  <2> SUFFICES ASSUME 1..n \in SUBSET Used PROVE FALSE
    OBVIOUS
  <2> HIDE DEF n
  <2>1. Cardinality(1..n) = n
    BY <1>8, UpTo
  <2>2. Cardinality(1..n) <= Cardinality(Used)
    BY <1>7, FS_Subset
  <2>3. Cardinality(Used) \in Nat
    BY <1>7, FS_CardinalityType
  <2> QED
    BY <1>8, <2>1, <2>2, <2>3
<1>10. Fresh \in 1..n
  BY <1>9 DEF Fresh
<1> QED
  BY <1>8, <1>10

\* While the log stands still a request may be replaced by a sound one.
LEMMA ReqStep ==
    ASSUME ReqInv, NEW c \in Callers, NEW r,
           r = Idle \/ ReqOk(r),
           req' = [req EXCEPT ![c] = r], log' = log
    PROVE  ReqInv'
<1>1. ASSUME NEW q, ReqOk(q) PROVE ReqOk(q)'
  BY <1>1 DEF ReqOk, HomeInv, DecidedInv, StageInv
<1>2. r \in Serving \union {Idle}
  BY DEF ReqOk
<1>3. req' \in [Callers -> Serving \union {Idle}]
  BY <1>2 DEF ReqInv
<1>4. ASSUME NEW b \in Callers, req'[b] # Idle PROVE ReqOk(req[b])'
  <2>1. PICK q : q = req'[b]
    OBVIOUS
  <2>2. ReqOk(q)
    BY <1>4, <2>1 DEF ReqInv
  <2>3. ReqOk(q)'
    BY <1>1, <2>2
  <2> QED
    BY <2>1, <2>3 DEF ReqOk, HomeInv, DecidedInv, StageInv
<1> QED
  BY <1>3, <1>4 DEF ReqInv

LEMMA AcceptStep ==
    ASSUME IInv, NEW c \in Callers, Accept(c)
    PROVE  ReqInv'
<1>1. PICK m \in Commands :
         LET checks == m.type = "apikey" /\ m.cmd.kind = "create"
             made   == checks \/ m.cmd.kind = "rotate"
         IN  req' = [req EXCEPT ![c] =
                [stage |-> IF checks THEN "check" ELSE "load",
                 type |-> m.type, id |-> m.id,
                 cmd |-> IF made THEN [m.cmd EXCEPT !.hash = Fresh]
                                 ELSE m.cmd,
                 hash |-> IF made THEN {Fresh} ELSE {},
                 out |-> << >>, at |-> 0, tries |-> 0]]
  BY DEF Accept
<1>2. log \in Seq(LogEntries) /\ ReqInv /\ log' = log
  BY DEF IInv, Types, Accept, events
<1>3. PICK h \in Nat : h = Fresh
  BY <1>2, FreshType
<1> DEFINE checks == m.type = "apikey" /\ m.cmd.kind = "create"
           made   == checks \/ m.cmd.kind = "rotate"
           cmd    == IF made THEN [m.cmd EXCEPT !.hash = h] ELSE m.cmd
           r      == [stage |-> IF checks THEN "check" ELSE "load",
                      type |-> m.type, id |-> m.id, cmd |-> cmd,
                      hash |-> IF made THEN {h} ELSE {},
                      out |-> << >>, at |-> 0, tries |-> 0]
<1>4. Addressed(m.type, m.id, m.cmd)
  BY CommandsAssumption
<1>5. Addressed(m.type, m.id, cmd) /\ cmd.kind = m.cmd.kind
  <2>1. CASE m.type = "org" /\ m.id = OrgId /\ m.cmd \in OrgCommands
    <3>1. m.cmd.kind # "rotate"
      BY <2>1 DEF OrgCommands
    <3> QED
      BY <2>1, <3>1 DEF Addressed
  <2>2. CASE m.type = "apikey" /\ m.id \in KeyIds /\ m.cmd \in KeyCommands
    <3>1. cmd \in KeyCommands /\ cmd.kind = m.cmd.kind
      BY <2>2 DEF KeyCommands
    <3> QED
      BY <2>2, <3>1 DEF Addressed
  <2>3. CASE /\ m.type = "alias" /\ m.id \in AliasNames
             /\ m.cmd \in AliasCommands
    <3>1. m.cmd.kind # "rotate"
      BY <2>3 DEF AliasCommands
    <3> QED
      BY <2>3, <3>1 DEF Addressed
  <2> QED
    BY <1>4, <2>1, <2>2, <2>3 DEF Addressed
<1> HIDE DEF cmd
<1>6. r \in Serving
  <2>1. /\ m.id \in AnyId /\ cmd \in AnyCommand
        /\ m.type \in {"org", "apikey", "alias"}
    BY <1>5 DEF Addressed, AnyId, AnyCommand
  <2>2. << >> \in Seq(LogEntries)
    BY EmptySeq
  <2> QED
    BY <2>1, <2>2 DEF Serving
<1>7. IsFiniteSet(r.hash)
  <2>1. IsFiniteSet({}) /\ IsFiniteSet({h})
    BY FS_EmptySet, FS_Singleton
  <2> QED
    BY <2>1
<1>8. StageInv(r) /\ HomeInv(r)
  BY <1>5 DEF StageInv, HomeInv, CreatesKey
<1>9. DecidedInv(r)
  <2>1. /\ Version(log, m.type, m.id) \in 0..Len(log)
        /\ Len(log) \in Nat
    BY <1>2, VersionType, LenProperties
  <2> QED
    BY <2>1 DEF DecidedInv
<1>10. ReqOk(r)
  BY <1>5, <1>6, <1>7, <1>8, <1>9 DEF ReqOk
<1>11. req' = [req EXCEPT ![c] = r]
  BY <1>1, <1>3 DEF cmd
<1> HIDE DEF r
<1> QED
  BY <1>2, <1>10, <1>11, ReqStep

LEMMA FinishStep ==
    ASSUME ReqInv, NEW c \in Callers, Finish(c), log' = log
    PROVE  ReqInv'
<1>1. Idle = Idle \/ ReqOk(Idle)
  OBVIOUS
<1> QED
  BY <1>1, ReqStep DEF Finish

LEMMA CheckStep ==
    ASSUME IInv, NEW c \in Callers, CheckProject(c)
    PROVE  ReqInv'
<1>1. ReqInv /\ log' = log
  BY DEF IInv, CheckProject, events
<1>2. PICK q : q = req[c]
  OBVIOUS
<1>3. q.stage = "check" /\ ReqOk(q)
  BY <1>1, <1>2 DEF CheckProject, At, Idle, ReqInv
<1>4. CASE /\ Load(log, "org", OrgId).projects[req[c].cmd.home] # None
           /\ Goto(c, "load")
  <2> DEFINE r == [q EXCEPT !.stage = "load"]
  <2>1. /\ r \in Serving /\ r.stage = "load"
        /\ r.type = q.type /\ r.id = q.id /\ r.cmd = q.cmd
        /\ r.hash = q.hash /\ r.out = q.out /\ r.at = q.at
        /\ r.tries = q.tries
    BY <1>3 DEF ReqOk, Serving
  <2> HIDE DEF r
  <2>2. ReqOk(r)
    BY <1>2, <1>3, <1>4, <2>1
       DEF ReqOk, StageInv, HomeInv, DecidedInv, CreatesKey
  <2>3. req' = [req EXCEPT ![c] = r]
    BY <1>2, <1>4 DEF Goto, r
  <2> QED
    BY <1>1, <2>2, <2>3, ReqStep
<1>5. CASE Finish(c)
  BY <1>1, <1>5, FinishStep
<1> QED
  BY <1>4, <1>5 DEF CheckProject

LEMMA LoadStepDecides ==
    ASSUME IInv, NEW c \in Callers, LoadDecide(c)
    PROVE  ReqInv'
<1>1. ReqInv /\ log' = log /\ log \in Seq(LogEntries) /\ Fits(log)
  BY DEF IInv, LoadDecide, events, Types, FitInv
<1>2. PICK q : q = req[c]
  OBVIOUS
<1>3. q.stage = "load" /\ ReqOk(q)
  BY <1>1, <1>2 DEF LoadDecide, At, Idle, ReqInv
<1> DEFINE v == Version(log, q.type, q.id)
           d == Decide(q.type, Load(log, q.type, q.id), q.cmd)
           out == Envelopes(q.type, q.id, d)
           r == [q EXCEPT !.stage = "append", !.out = out, !.at = v,
                          !.tries = q.tries + 1]
<1>4. CASE d.out = << >>
  BY <1>1, <1>2, <1>4, FinishStep DEF LoadDecide
<1>5. CASE d.out # << >>
  <2>1. PICK x \in LogEntries : out = <<x>>
    <3>1. /\ Addressed(q.type, q.id, q.cmd)
          /\ q.type = "apikey" /\ q.cmd.kind = "create" =>
                Load(log, "org", OrgId).projects[q.cmd.home] # None
      BY <1>3 DEF ReqOk, HomeInv, CreatesKey
    <3> QED
      BY <1>1, <1>5, <3>1, DecisionFits
  <2>2. out \in Seq(LogEntries) /\ out # << >>
    BY <2>1
  <2>3. v \in Nat
    BY <1>1, VersionType, LenProperties
  <2>4. req' = [req EXCEPT ![c].stage = "append", ![c].out = out,
                           ![c].at = v, ![c].tries = q.tries + 1]
    BY <1>2, <1>5 DEF LoadDecide
  <2> HIDE DEF v, out
  <2>5. req' = [req EXCEPT ![c] = r]
    BY <1>2, <2>4
  <2>6. q \in Serving /\ q.tries \in 0..1
    BY <1>3 DEF ReqOk, StageInv, Serving
  <2>7. /\ r \in Serving /\ r.stage = "append"
        /\ r.type = q.type /\ r.id = q.id /\ r.cmd = q.cmd
        /\ r.hash = q.hash /\ r.out = out /\ r.at = v
    <3> DEFINE q1 == [q EXCEPT !.stage = "append", !.out = out]
    <3>1. /\ q1 \in Serving /\ q1.stage = "append" /\ q1.out = out
          /\ q1.type = q.type /\ q1.id = q.id /\ q1.cmd = q.cmd
          /\ q1.hash = q.hash
      BY <2>2, <2>6 DEF Serving
    <3> DEFINE t == q.tries + 1
    <3>2. t \in 0..2
      BY <2>6
    <3>3. r = [q1 EXCEPT !.at = v, !.tries = t]
      OBVIOUS
    <3> HIDE DEF q1, t, r
    <3> QED
      BY <2>3, <3>1, <3>2, <3>3 DEF Serving
  <2> HIDE DEF r
  <2>8. ReqOk(r)
    BY <1>3, <2>2, <2>3, <2>7
       DEF ReqOk, StageInv, HomeInv, DecidedInv, CreatesKey, v, out
  <2> QED
    BY <1>1, <2>5, <2>8, ReqStep
<1> QED
  BY <1>4, <1>5

LEMMA ConflictStep ==
    ASSUME IInv, NEW c \in Callers, Conflict(c)
    PROVE  ReqInv'
<1>1. ReqInv /\ log' = log
  BY DEF IInv, Conflict, events
<1>2. PICK q : q = req[c]
  OBVIOUS
<1>3. q.stage = "append" /\ ReqOk(q)
  BY <1>1, <1>2 DEF Conflict, At, Idle, ReqInv
<1>4. CASE /\ q.tries < 2
           /\ req' = [req EXCEPT ![c].stage = "load", ![c].out = << >>]
  <2> DEFINE r == [q EXCEPT !.stage = "load", !.out = << >>]
  <2>1. req' = [req EXCEPT ![c] = r]
    BY <1>2, <1>4
  <2>2. << >> \in Seq(LogEntries)
    BY EmptySeq
  <2>3. /\ r \in Serving /\ r.stage = "load"
        /\ r.type = q.type /\ r.id = q.id /\ r.cmd = q.cmd
        /\ r.hash = q.hash /\ r.out = << >> /\ r.at = q.at
        /\ r.tries = q.tries
    BY <1>3, <2>2 DEF ReqOk, Serving
  <2> HIDE DEF r
  <2>4. ReqOk(r)
    BY <1>3, <1>4, <2>3
       DEF ReqOk, StageInv, HomeInv, DecidedInv, CreatesKey
  <2> QED
    BY <1>1, <2>1, <2>4, ReqStep
<1>5. CASE Finish(c)
  BY <1>1, <1>5, FinishStep
<1> QED
  BY <1>2, <1>4, <1>5 DEF Conflict

-----------------------------------------------------------------------------
(* The append.                                                             *)

\* What is not refused is one envelope, decided on the present state.
LEMMA AppendedEnvelope ==
    ASSUME IInv, NEW c \in Callers, AppendEvents(c)
    PROVE  \E x \in LogEntries : /\ log' = Append(log, x)
                                 /\ Fits(Append(log, x))
<1>1. ReqInv /\ log \in Seq(LogEntries) /\ Fits(log)
  BY DEF IInv, Types, FitInv
<1>2. PICK q : q = req[c]
  OBVIOUS
<1>3. q.stage = "append" /\ ReqOk(q) /\ q.at = Version(log, q.type, q.id)
  BY <1>1, <1>2 DEF AppendEvents, At, Idle, ReqInv, Conflicts
<1> DEFINE d == Decide(q.type, Load(log, q.type, q.id), q.cmd)
<1>4. q.out = Envelopes(q.type, q.id, d) /\ q.out # << >>
  BY <1>3 DEF ReqOk, DecidedInv, StageInv
<1>5. d.out # << >>
  <2> SUFFICES ASSUME d.out = << >> PROVE q.out = << >>
    BY <1>4
  <2> HIDE DEF d
  <2>1. Envelopes(q.type, q.id, d)
           = [i \in 1..0 |-> [type |-> q.type, id |-> q.id,
                              event |-> d.out[i]]]
    BY DEF Envelopes
  <2> QED
    BY <1>4, <2>1
<1>6. /\ Addressed(q.type, q.id, q.cmd)
      /\ q.type = "apikey" /\ q.cmd.kind = "create" =>
            Load(log, "org", OrgId).projects[q.cmd.home] # None
  BY <1>3 DEF ReqOk, HomeInv, CreatesKey
<1>7. PICK x \in LogEntries :
         Envelopes(q.type, q.id, d) = <<x>> /\ Fits(Append(log, x))
  BY <1>1, <1>5, <1>6, DecisionFits
<1>8. log' = log \o <<x>>
  BY <1>2, <1>4, <1>7 DEF AppendEvents
<1>9. log' = Append(log, x)
  BY <1>1, <1>8, AppendIsConcat
<1> QED
  BY <1>7, <1>9

\* What a request knows outlives the append of another.
LEMMA ReqOutlives ==
    ASSUME log \in Seq(LogEntries), Fits(log), NEW x \in LogEntries,
           log' = Append(log, x), NEW r, ReqOk(r)
    PROVE  ReqOk(r)'
<1>1. HomeInv(r)'
  <2> SUFFICES ASSUME CreatesKey(r), r.stage # "check"
               PROVE  Load(log', "org", OrgId).projects[r.cmd.home] # None
    BY DEF HomeInv, CreatesKey
  <2> DEFINE o == Load(log, "org", OrgId)
             p == r.cmd.home
  <2>1. o \in OrgStates
    BY Loaded DEF Fits
  <2>2. p \in Projects
    BY DEF ReqOk, Addressed, CreatesKey, KeyCommands
  <2>3. o.projects[p] # None
    BY DEF ReqOk, HomeInv
  <2>4. Load(log', "org", OrgId) =
           IF Within(x, "org", OrgId) THEN Evolve("org", o, x.event) ELSE o
    BY LoadAppend
  <2> HIDE DEF o, p
  <2>5. CASE Within(x, "org", OrgId)
    <3>1. x.event \in OrgEvents
      BY <2>5, EntryTypes DEF Within
    <3>2. EvolveOrg(o, x.event).projects[p] # None
      BY <2>1, <2>2, <2>3, <3>1, EvolveOrgType
    <3> QED
      BY <2>4, <2>5, <3>2 DEF Evolve, p
  <2> QED
    BY <2>3, <2>4, <2>5 DEF p
<1>2. DecidedInv(r)'
  <2>1. Version(log', r.type, r.id) =
           IF Within(x, r.type, r.id) THEN Version(log, r.type, r.id) + 1
           ELSE Version(log, r.type, r.id)
    BY VersionAppend
  <2>2. ~Within(x, r.type, r.id) =>
           Load(log', r.type, r.id) = Load(log, r.type, r.id)
    BY LoadAppend
  <2>3. Version(log, r.type, r.id) \in Nat /\ r.at \in Nat
    BY VersionType, LenProperties DEF ReqOk, Serving
  <2>4. /\ r.at <= Version(log, r.type, r.id)
        /\ r.stage = "append" /\ r.at = Version(log, r.type, r.id) =>
              r.out = Envelopes(r.type, r.id,
                          Decide(r.type, Load(log, r.type, r.id), r.cmd))
    BY DEF ReqOk, DecidedInv
  <2>5. CASE Within(x, r.type, r.id)
    BY <2>1, <2>3, <2>4, <2>5 DEF DecidedInv
  <2>6. CASE ~Within(x, r.type, r.id)
    BY <2>1, <2>2, <2>4, <2>6 DEF DecidedInv
  <2> QED
    BY <2>5, <2>6
<1> QED
  BY <1>1, <1>2 DEF ReqOk, StageInv

LEMMA AppendStep ==
    ASSUME IInv, NEW c \in Callers, AppendEvents(c)
    PROVE  IInv'
<1> USE DEF readModel, health
<1>1. /\ Types /\ Fits(log) /\ ReqInv /\ RowInv
      /\ log \in Seq(LogEntries) /\ Len(log) \in Nat
  BY LenProperties DEF IInv, Types, FitInv
<1>2. PICK x \in LogEntries : log' = Append(log, x) /\ Fits(Append(log, x))
  BY AppendedEnvelope
<1>3. /\ log' \in Seq(LogEntries) /\ Len(log') = Len(log) + 1
      /\ \A i \in 1..Len(log) : log'[i] = log[i]
  BY <1>1, <1>2, AppendProperties
<1>4. UNCHANGED <<rows, mark, written, phase, projFailed, relayFailed, left>>
  BY DEF AppendEvents
<1>5. mark \in 0..Len(log) /\ written \in 0..2
      /\ (written > 0 => mark < Len(log) /\ written <= Writes)
  BY <1>1 DEF Types, RowTypes
<1>6. written > 0 => Writes' = Writes
  BY <1>1, <1>3, <1>4, <1>5 DEF Writes, Next1
<1>7. Types'
  <2>1. room' \in 0..MaxAppends
    BY <1>1 DEF Types, AppendEvents
  <2>2. mark \in 0..Len(log') /\ (mark < Len(log) => mark < Len(log'))
    BY <1>1, <1>3, <1>5
  <2>3. RowTypes'
    BY <1>1, <1>4, <1>5, <1>6, <2>2 DEF Types, RowTypes
  <2> QED
    BY <1>1, <1>3, <1>4, <2>1, <2>3 DEF Types
<1>8. ReqInv'
  <2>1. req' = [req EXCEPT ![c] = Idle]
    BY DEF AppendEvents, Finish
  <2>2. req' \in [Callers -> Serving \union {Idle}]
    BY <1>1, <2>1 DEF ReqInv
  <2>3. ASSUME NEW b \in Callers, req'[b] # Idle PROVE ReqOk(req[b])'
    <3>1. PICK q : q = req'[b]
      OBVIOUS
    <3>2. ReqOk(q)
      BY <1>1, <2>1, <2>3, <3>1 DEF ReqInv
    <3>3. ReqOk(q)'
      BY <1>1, <1>2, <3>2, ReqOutlives
    <3> QED
      BY <3>1, <3>3 DEF ReqOk, HomeInv, DecidedInv, StageInv, CreatesKey
  <2> QED
    BY <2>2, <2>3 DEF ReqInv
<1>9. RowInv'
  <2>1. Done' <=> Done
    BY <1>4, <1>6 DEF Done
  <2>2. /\ \A n \in Now : n \in Now' /\ n \in 0..Len(log)
        /\ \A n \in Later : n \in Later' /\ n \in 0..Len(log)
    BY <1>1, <1>3, <1>4, <1>5, <2>1 DEF Now, Later
  <2>3. ASSUME NEW n \in 0..Len(log)
        PROVE  /\ Org(n)' = Org(n)
               /\ \A a : Alias(n, a)' = Alias(n, a)
               /\ \A k : Key(n, k)' = Key(n, k)
    <3>1. SubSeq(log', 1, n) = SubSeq(log, 1, n)
      BY <1>1, <1>2, PrefixOfAppend
    <3> QED
      BY <3>1 DEF Org, Alias, Key, Prefix
  <2>4. ASSUME NEW m \in Subs
        PROVE  \E n \in Now' : rows'.org.members[m] = Org(n)'.members[m]
    BY <1>1, <1>4, <2>2, <2>3 DEF RowInv
  <2>5. ASSUME NEW p \in Projects
        PROVE  \E n \in Now' : rows'.org.projects[p] = Org(n)'.projects[p]
    BY <1>1, <1>4, <2>2, <2>3 DEF RowInv
  <2>6. ASSUME NEW a \in AliasNames
        PROVE  \E n \in Now' : rows'.aliases[a] = Alias(n, a)'
    BY <1>1, <1>4, <2>2, <2>3 DEF RowInv
  <2>7. ASSUME NEW k \in KeyIds
        PROVE  \E n \in Later' : rows'.keys[k] = Key(n, k)'
    BY <1>1, <1>4, <2>2, <2>3 DEF RowInv
  <2> QED
    BY <2>4, <2>5, <2>6, <2>7 DEF RowInv
<1> QED
  BY <1>2, <1>7, <1>8, <1>9 DEF IInv, FitInv

-----------------------------------------------------------------------------
(* The SQL projector.                                                      *)

\* An org row o shows state s or the one after event e; with the event written
\* it shows the latter.
LEMMA OrgRowFollows ==
    ASSUME NEW o \in OrgStates, NEW s \in OrgStates, NEW e \in OrgEvents,
           e.kind # "orgCreated",
           \A m \in Subs : \/ o.members[m] = s.members[m]
                           \/ o.members[m] = EvolveOrg(s, e).members[m],
           \A p \in Projects : \/ o.projects[p] = s.projects[p]
                               \/ o.projects[p] = EvolveOrg(s, e).projects[p]
    PROVE  /\ EvolveOrg(o, e) \in OrgStates
           /\ EvolveOrg(o, e).members = EvolveOrg(s, e).members
           /\ EvolveOrg(o, e).projects = EvolveOrg(s, e).projects
<1> DEFINE w == EvolveOrg(o, e)
           t == EvolveOrg(s, e)
<1>1. w \in OrgStates /\ t \in OrgStates
  BY EvolveOrgType
<1>2. /\ w.members \in [Subs -> Roles \union {None}]
      /\ t.members \in [Subs -> Roles \union {None}]
      /\ w.projects \in [Projects -> {"live", "archived", None}]
      /\ t.projects \in [Projects -> {"live", "archived", None}]
  <2> HIDE DEF w, t
  <2> QED
    BY <1>1 DEF OrgStates
<1>3. /\ \A m \in Subs : w.members[m] = t.members[m]
      /\ \A p \in Projects : w.projects[p] = t.projects[p]
  <2> USE DEF OrgStates, EvolveOrg
  <2>2. CASE e \in [kind : {"renamed"}, name : Names]
    BY <2>2
  <2>3. CASE e \in [kind : {"memberUpserted"}, sub : Subs, role : Roles]
    BY <2>3
  <2>4. CASE e \in [kind : {"memberRemoved"}, sub : Subs]
    BY <2>4
  <2>5. CASE e \in [kind : {"projectCreated", "projectArchived"},
                    project : Projects]
    BY <2>5
  <2> QED
    BY <2>2, <2>3, <2>4, <2>5 DEF OrgEvents
<1>4. w.members = t.members
  <2> HIDE DEF w, t
  <2> QED
    BY <1>2, <1>3
<1>5. w.projects = t.projects
  <2> HIDE DEF w, t
  <2> QED
    BY <1>2, <1>3
<1> QED
  BY <1>1, <1>4, <1>5

\* The creation of an org changes one member's role.
LEMMA OrgCreation ==
    ASSUME NEW s \in OrgStates, NEW e \in OrgEvents, e.kind = "orgCreated"
    PROVE  /\ e.sub \in Subs /\ e.name \in Names
           /\ EvolveOrg(s, e).members = [s.members EXCEPT ![e.sub] = "owner"]
           /\ EvolveOrg(s, e).projects = s.projects
<1>1. e \in [kind : {"orgCreated"}, name : Names, sub : Subs]
  BY DEF OrgEvents
<1> QED
  BY <1>1 DEF OrgStates, EvolveOrg

\* What is written for an event of the org is what the event does, although
\* an archived project is reloaded.
LEMMA OrgWriteEvolves ==
    ASSUME log \in Seq(LogEntries), Fits(log), NEW n \in 1..Len(log),
           log[n].type = "org", log[n].event.kind # "orgCreated",
           NEW i
    PROVE  OrgWrite(log[n].event, i) = EvolveOrg(rows.org, log[n].event)
<1> DEFINE e == log[n].event
<1>1. e \in OrgEvents /\ n \in 0..Len(log)
  BY ElementOfSeq, EntryTypes, LenProperties
<1>2. CASE e.kind # "projectArchived"
  <2> HIDE DEF e
  <2>1. OrgWrite(e, i) = EvolveOrg(rows.org, e)
    BY <1>1, <1>2 DEF OrgWrite, OrgEvents, e
  <2> QED
    BY <2>1 DEF e
<1>3. CASE e.kind = "projectArchived"
  <2>1. e \in [kind : {"projectCreated", "projectArchived"},
               project : Projects]
    BY <1>1, <1>3 DEF OrgEvents
  <2>2. Org(n) = EvolveOrg(Org(n - 1), e) /\ Org(n - 1) \in OrgStates
    <3>1. n - 1 \in 0..Len(log)
      BY LenProperties
    <3>2. Org(n - 1) \in OrgStates
      BY <3>1, ViewTypes DEF Fits
    <3> QED
      BY <3>2, ViewStep
  <2>3. Org(n).projects[e.project] = "archived"
    <3> HIDE DEF e
    <3> QED
      BY <1>3, <2>1, <2>2 DEF EvolveOrg, OrgStates
  <2>4. Org(n) = History(log, "org", OrgId)[n]
    BY <1>1, LoadPrefix DEF Org, Prefix
  <2>5. Load(log, "org", OrgId).projects[e.project] = "archived"
    <3> HIDE DEF e
    <3> QED
      BY <1>1, <2>1, <2>3, <2>4, ArchivedStays DEF Fits
  <2> HIDE DEF e
  <2>6. OrgWrite(e, i) = EvolveOrg(rows.org, e)
    BY <1>3, <2>5 DEF OrgWrite, EvolveOrg
  <2> QED
    BY <2>6 DEF e
<1> QED
  BY <1>2, <1>3

\* Around a write: event n is the one after the marker, rows may show its
\* state, and must once all is written.
WriteOf(n) ==
    /\ n = mark + 1 /\ n - 1 = mark /\ n - 1 \in 0..Len(log)
    /\ n \in 0..Len(log)
    /\ Next1 = log[n] /\ log[n] \in LogEntries
    /\ written \in 0..1 /\ written < Writes /\ ~Done
    /\ Now = {n - 1, n} /\ Later = n - 1..Len(log)

Wrote(n) ==
    /\ log' = log /\ mark' = mark /\ written' = written + 1
    /\ written' \in 0..2 /\ written' <= Writes' /\ mark' < Len(log')
    /\ n \in Now' /\ (~Done' => n - 1 \in Now')
    /\ n..Len(log) \subseteq Later' /\ Len(log) \in Later'
    /\ Done' <=> written + 1 = Writes

LEMMA WriteFrame ==
    ASSUME IInv, ApplyRow
    PROVE  \E n \in 1..Len(log) : WriteOf(n) /\ Wrote(n)
<1>1. /\ log \in Seq(LogEntries) /\ Len(log) \in Nat
      /\ mark \in 0..Len(log) /\ written \in 0..2
  BY LenProperties DEF IInv, Types, RowTypes
<1>2. /\ mark < Len(log) /\ written < Writes /\ written' = written + 1
      /\ log' = log /\ mark' = mark
  BY DEF ApplyRow, Pending, events
<1>3. PICK n : n = mark + 1
  OBVIOUS
<1>4. /\ n \in 1..Len(log) /\ n \in 0..Len(log) /\ n - 1 = mark
      /\ n - 1 \in 0..Len(log)
  BY <1>1, <1>2, <1>3
<1>5. log[n] \in LogEntries /\ Next1 = log[n]
  BY <1>1, <1>3, <1>4, ElementOfSeq DEF Next1
<1>6. Writes \in {1, 2} /\ Writes' = Writes
  BY <1>2 DEF Writes, Next1
<1>7. written \in 0..1 /\ ~Done
  BY <1>1, <1>2, <1>6 DEF Done
<1>8. Now = {n - 1, n} /\ Later = n - 1..Len(log)
  BY <1>1, <1>4, <1>7 DEF Now, Later
<1>9. WriteOf(n)
  BY <1>2, <1>3, <1>4, <1>5, <1>7, <1>8 DEF WriteOf
<1>10. Done' <=> written + 1 = Writes
  BY <1>2, <1>6, <1>7 DEF Done
<1>11. /\ n \in Now' /\ (~Done' => n - 1 \in Now')
       /\ n..Len(log) \subseteq Later' /\ Len(log) \in Later'
  BY <1>1, <1>2, <1>3, <1>4 DEF Now, Later
<1>12. Wrote(n)
  BY <1>1, <1>2, <1>6, <1>7, <1>10, <1>11 DEF Wrote
<1> QED
  BY <1>4, <1>9, <1>12

\* Rows that the event does not touch show its state as they showed the one
\* before.
LEMMA OrgUntouched ==
    ASSUME IInv, NEW n \in 1..Len(log), WriteOf(n), Wrote(n),
           rows'.org = rows.org, log[n].type # "org"
    PROVE  /\ \A m \in Subs : rows'.org.members[m] = Org(n)'.members[m]
           /\ \A p \in Projects : rows'.org.projects[p] = Org(n)'.projects[p]
<1>1. log \in Seq(LogEntries) /\ RowInv
  BY DEF IInv, Types
<1>2. Org(n)' = Org(n) /\ Org(n) = Org(n - 1)
  BY <1>1, ViewStep DEF Wrote, Org, Prefix
<1>3. \A j \in Now : Org(j) = Org(n)
  BY <1>2 DEF WriteOf
<1> QED
  BY <1>1, <1>2, <1>3 DEF RowInv

LEMMA AliasUntouched ==
    ASSUME IInv, NEW n \in 1..Len(log), WriteOf(n), Wrote(n),
           NEW a \in AliasNames, rows'.aliases[a] = rows.aliases[a],
           log[n].type # "alias" \/ log[n].id # a
    PROVE  rows'.aliases[a] = Alias(n, a)'
<1>1. log \in Seq(LogEntries) /\ RowInv
  BY DEF IInv, Types
<1>2. Alias(n, a)' = Alias(n, a)
  BY DEF Wrote, Alias, Prefix
<1>3. Alias(n, a) = Alias(n - 1, a)
  BY <1>1, ViewStep
<1>4. PICK j \in Now : rows.aliases[a] = Alias(j, a)
  BY <1>1 DEF RowInv
<1>5. j = n - 1 \/ j = n
  BY DEF WriteOf
<1> QED
  BY <1>2, <1>3, <1>4, <1>5

LEMMA KeyUntouched ==
    ASSUME IInv, NEW n \in 1..Len(log), WriteOf(n), Wrote(n),
           NEW k \in KeyIds, rows'.keys[k] = rows.keys[k],
           log[n].type # "apikey" \/ log[n].id # k
    PROVE  \E j \in Later' : rows'.keys[k] = Key(j, k)'
<1>1. log \in Seq(LogEntries) /\ RowInv /\ Len(log) \in Nat
  BY LenProperties DEF IInv, Types
<1>2. PICK j \in Later : rows.keys[k] = Key(j, k)
  BY <1>1 DEF RowInv
<1>3. Key(n, k) = Key(n - 1, k)
  BY <1>1, ViewStep
<1>4. ASSUME NEW i PROVE Key(i, k)' = Key(i, k)
  BY DEF Wrote, Key, Prefix
<1>5. CASE j = n - 1
  BY <1>2, <1>3, <1>4, <1>5 DEF Wrote
<1>6. CASE j \in n..Len(log)
  BY <1>2, <1>4, <1>6 DEF Wrote
<1>7. j = n - 1 \/ j \in n..Len(log)
  <2>1. j \in n - 1..Len(log)
    BY DEF WriteOf
  <2> QED
    BY <1>1, <2>1
<1> QED
  BY <1>5, <1>6, <1>7

LEMMA ApplyOrg ==
    ASSUME IInv, ApplyRow, NEW n \in 1..Len(log), WriteOf(n), Wrote(n),
           log[n].type = "org"
    PROVE  /\ rows'.org \in OrgStates
           /\ rows' = [rows EXCEPT !.org = rows'.org]
           /\ \A m \in Subs : \E j \in Now' :
                 rows'.org.members[m] = Org(j)'.members[m]
           /\ \A p \in Projects : \E j \in Now' :
                 rows'.org.projects[p] = Org(j)'.projects[p]
<1> DEFINE e == log[n].event
           o == rows.org
           s == Org(n - 1)
           t == Org(n)
<1>1. /\ log \in Seq(LogEntries) /\ Fits(log) /\ KeyEventsFit(log)
      /\ o \in OrgStates /\ RowInv
      /\ rows \in [org : OrgStates, keys : [KeyIds -> KeyRows],
                   aliases : [AliasNames -> Targets \union {None}]]
  BY DEF IInv, Types, RowTypes, FitInv, Fits
<1>2. e \in OrgEvents
  BY EntryTypes DEF WriteOf
<1>3. s \in OrgStates /\ t = EvolveOrg(s, e)
  BY <1>1, ViewTypes, ViewStep DEF WriteOf
<1>4. rows' = [rows EXCEPT !.org = OrgWrite(e, written)]
  BY DEF ApplyRow, WriteOf
<1>5. /\ rows' = [rows EXCEPT !.org = rows'.org]
      /\ rows'.org = OrgWrite(e, written)
  BY <1>1, <1>4
<1>6. \A j \in {n - 1, n} : Org(j)' = Org(j)
  BY DEF Wrote, Org, Prefix
<1>7. /\ \A m \in Subs :
            o.members[m] = s.members[m] \/ o.members[m] = t.members[m]
      /\ \A p \in Projects :
            o.projects[p] = s.projects[p] \/ o.projects[p] = t.projects[p]
  BY <1>1 DEF RowInv, WriteOf
<1> HIDE DEF e
<1>8. CASE e.kind # "orgCreated"
  <2>1. rows'.org = EvolveOrg(o, e)
    BY <1>1, <1>5, <1>8, OrgWriteEvolves DEF e
  <2> HIDE DEF o, s, t
  <2>2. /\ rows'.org \in OrgStates
        /\ rows'.org.members = t.members
        /\ rows'.org.projects = t.projects
    <3>1. /\ \A m \in Subs : \/ o.members[m] = s.members[m]
                            \/ o.members[m] = EvolveOrg(s, e).members[m]
          /\ \A p \in Projects : \/ o.projects[p] = s.projects[p]
                                \/ o.projects[p]
                                      = EvolveOrg(s, e).projects[p]
      BY <1>3, <1>7
    <3>2. /\ EvolveOrg(o, e) \in OrgStates
          /\ EvolveOrg(o, e).members = EvolveOrg(s, e).members
          /\ EvolveOrg(o, e).projects = EvolveOrg(s, e).projects
      <4>1. o \in OrgStates /\ s \in OrgStates /\ e \in OrgEvents
        BY <1>1, <1>2, <1>3
      <4>2. PICK a \in OrgStates, b \in OrgStates, x \in OrgEvents :
               a = o /\ b = s /\ x = e
        BY <4>1
      <4>3. /\ x.kind # "orgCreated"
            /\ \A m \in Subs : \/ a.members[m] = b.members[m]
                               \/ a.members[m] = EvolveOrg(b, x).members[m]
            /\ \A p \in Projects :
                  \/ a.projects[p] = b.projects[p]
                  \/ a.projects[p] = EvolveOrg(b, x).projects[p]
        BY <1>8, <3>1, <4>2
      <4>4. /\ EvolveOrg(a, x) \in OrgStates
            /\ EvolveOrg(a, x).members = EvolveOrg(b, x).members
            /\ EvolveOrg(a, x).projects = EvolveOrg(b, x).projects
        BY <4>3, OrgRowFollows
      <4> QED
        BY <4>2, <4>4
    <3> QED
      BY <1>3, <2>1, <3>2
  <2>3. n \in Now' /\ Org(n)' = t
    BY <1>6 DEF Wrote, t
  <2> QED
    BY <1>5, <2>2, <2>3
<1>9. CASE e.kind = "orgCreated"
  <2>1. /\ e.sub \in Subs /\ e.name \in Names
        /\ t.members = [s.members EXCEPT ![e.sub] = "owner"]
        /\ t.projects = s.projects
    BY <1>2, <1>3, <1>9, OrgCreation
  <2>2. Writes = 2
    BY <1>9 DEF Writes, WriteOf, e
  <2> HIDE DEF o, s, t
  <2>3. CASE written = 0
    <3>1. rows'.org = [o EXCEPT !.name = e.name]
      BY <1>5, <1>9, <2>3 DEF OrgWrite, o
    <3>2. /\ rows'.org \in OrgStates /\ rows'.org.members = o.members
          /\ rows'.org.projects = o.projects
      BY <1>1, <2>1, <3>1 DEF OrgStates
    <3>3. n \in Now' /\ n - 1 \in Now'
      BY <2>2, <2>3 DEF Wrote
    <3>4. Org(n)' = t /\ Org(n - 1)' = s
      BY <1>6 DEF s, t
    <3> QED
      BY <1>5, <1>7, <3>2, <3>3, <3>4
  <2>4. CASE written = 1
    <3>1. rows'.org = [o EXCEPT !.members[e.sub] = "owner"]
      BY <1>5, <1>9, <2>4 DEF OrgWrite, o
    <3>2. /\ rows'.org \in OrgStates
          /\ rows'.org.members = [o.members EXCEPT ![e.sub] = "owner"]
          /\ rows'.org.projects = o.projects
      <4>1. "owner" \in Roles
        BY DEF Roles
      <4>2. o \in OrgStates /\ e.sub \in Subs
        BY <1>1, <2>1
      <4> QED
        BY <3>1, <4>1, <4>2 DEF OrgStates
    <3>3. \A m \in Subs : rows'.org.members[m] = t.members[m]
      BY <1>1, <1>3, <1>7, <2>1, <3>2 DEF OrgStates
    <3>4. \A p \in Projects : rows'.org.projects[p] = t.projects[p]
      BY <1>7, <2>1, <3>2
    <3>5. n \in Now' /\ Org(n)' = t
      BY <1>6 DEF Wrote, t
    <3> QED
      BY <1>5, <3>2, <3>3, <3>4, <3>5
  <2> QED
    BY <2>3, <2>4 DEF WriteOf
<1> QED
  BY <1>8, <1>9

LEMMA ApplyKey ==
    ASSUME IInv, ApplyRow, NEW n \in 1..Len(log), WriteOf(n), Wrote(n),
           log[n].type = "apikey", NEW k, k = log[n].id
    PROVE  /\ rows' = [rows EXCEPT !.keys[k] = rows'.keys[k]]
           /\ rows'.keys[k] \in KeyRows
           /\ \E j \in Later' : rows'.keys[k] = Key(j, k)'
<1> DEFINE len == Len(log)
           now == Load(log, "apikey", k)
<1>1. /\ log \in Seq(LogEntries) /\ KeyEventsFit(log)
      /\ rows \in [org : OrgStates, keys : [KeyIds -> KeyRows],
                   aliases : [AliasNames -> Targets \union {None}]]
  BY DEF IInv, Types, RowTypes, FitInv, Fits
<1>2. k \in KeyIds /\ log[n].event \in KeyEvents
  BY EntryTypes DEF WriteOf
<1>3. rows' = [rows EXCEPT !.keys[k] = KeyRow(now)]
  BY DEF ApplyRow, WriteOf
<1>4. now.hash # None
  <2> DEFINE h == History(log, "apikey", k)
  <2>1. /\ h[n - 1] \in KeyStates
        /\ Load(Before(log, n), "apikey", k) = h[n - 1] /\ n \in DOMAIN log
        /\ h[n] = IF Within(log[n], "apikey", k)
                  THEN Evolve("apikey", h[n - 1], log[n].event)
                  ELSE h[n - 1]
    BY <1>1, Around, KeyLoads DEF WriteOf
  <2> HIDE DEF h
  <2>2. h[n] = EvolveKey(h[n - 1], log[n].event)
    BY <2>1 DEF Within, Evolve
  <2>3. h[n - 1].hash # None \/ log[n].event.kind = "created"
    BY <1>1, <2>1 DEF KeyEventsFit, KeyEventFits
  <2>4. h[n].hash # None
    BY <1>2, <2>1, <2>2, <2>3, EvolveKeyType
  <2> QED
    BY <1>1, <2>4, KeyStays DEF h, WriteOf
<1>5. now \in KeyStates
  BY <1>1, Loaded
<1>6. KeyRow(now) \in KeyRows
  BY <1>5 DEF KeyRow, KeyRows, KeyStates
<1>7. rows'.keys[k] = KeyRow(now)
  BY <1>1, <1>2, <1>3
<1>8. KeyRow(now) = Key(len, k)
  <2>1. Load(Prefix(len), "apikey", k) = now
    BY <1>1, LoadAll DEF Prefix
  <2> HIDE DEF now
  <2> QED
    BY <1>4, <2>1 DEF Key, KeyRow
<1>9. Key(len, k)' = Key(len, k) /\ len \in Later'
  BY DEF Wrote, Key, Prefix
<1>10. PICK j : j = len
  OBVIOUS
<1>11. j \in Later' /\ rows'.keys[k] = Key(j, k)'
  BY <1>7, <1>8, <1>9, <1>10 DEF Wrote, Key, Prefix
<1> QED
  BY <1>3, <1>6, <1>7, <1>11

\* Rows of one kind are written at a time.
LEMMA ApplyStep ==
    ASSUME IInv, ApplyRow
    PROVE  IInv'
<1> USE DEF events, health
<1>1. /\ Types /\ Fits(log) /\ ReqInv /\ RowInv
      /\ rows \in [org : OrgStates, keys : [KeyIds -> KeyRows],
                   aliases : [AliasNames -> Targets \union {None}]]
  BY DEF IInv, Types, RowTypes, FitInv
<1>2. PICK n \in 1..Len(log) : WriteOf(n) /\ Wrote(n)
  BY WriteFrame
<1>3. UNCHANGED <<log, room, req, mark, phase, projFailed, relayFailed, left>>
  BY DEF ApplyRow
<1> DEFINE id == log[n].id
           e == log[n].event
<1>4. log[n] \in LogEntries /\ n \in Now'
  BY <1>2 DEF WriteOf, Wrote
<1>5. /\ rows' \in [org : OrgStates, keys : [KeyIds -> KeyRows],
                    aliases : [AliasNames -> Targets \union {None}]]
      /\ RowInv'
  <2>1. CASE log[n].type = "org"
    <3>1. /\ rows'.org \in OrgStates
          /\ rows' = [rows EXCEPT !.org = rows'.org]
          /\ \A m \in Subs : \E j \in Now' :
                rows'.org.members[m] = Org(j)'.members[m]
          /\ \A p \in Projects : \E j \in Now' :
                rows'.org.projects[p] = Org(j)'.projects[p]
      BY <1>2, <2>1, ApplyOrg
    <3>2. rows'.keys = rows.keys /\ rows'.aliases = rows.aliases
      BY <1>1, <3>1
    <3>3. \A a \in AliasNames : rows'.aliases[a] = Alias(n, a)'
      BY <1>2, <2>1, <3>2, AliasUntouched
    <3>4. \A k \in KeyIds : \E j \in Later' : rows'.keys[k] = Key(j, k)'
      BY <1>2, <2>1, <3>2, KeyUntouched
    <3>5. rows' \in [org : OrgStates, keys : [KeyIds -> KeyRows],
                    aliases : [AliasNames -> Targets \union {None}]]
      BY <1>1, <3>1
    <3> QED
      BY <1>4, <3>1, <3>3, <3>4, <3>5 DEF RowInv
  <2>2. CASE log[n].type = "apikey"
    <3>0. PICK q : q = id
      OBVIOUS
    <3>1. /\ rows' = [rows EXCEPT !.keys[q] = rows'.keys[q]]
          /\ rows'.keys[q] \in KeyRows
          /\ \E j \in Later' : rows'.keys[q] = Key(j, q)'
      BY <1>2, <2>2, <3>0, ApplyKey
    <3>2. rows'.org = rows.org /\ rows'.aliases = rows.aliases
      BY <1>1, <3>1
    <3>3. rows'.keys = [rows.keys EXCEPT ![q] = rows'.keys[q]]
      BY <1>1, <3>1
    <3>4. /\ \A m \in Subs : rows'.org.members[m] = Org(n)'.members[m]
          /\ \A p \in Projects :
                rows'.org.projects[p] = Org(n)'.projects[p]
      BY <1>2, <2>2, <3>2, OrgUntouched
    <3>5. \A a \in AliasNames : rows'.aliases[a] = Alias(n, a)'
      BY <1>2, <2>2, <3>2, AliasUntouched
    <3>6. ASSUME NEW k \in KeyIds
          PROVE  \E j \in Later' : rows'.keys[k] = Key(j, k)'
      <4>1. CASE k = q
        BY <3>1, <4>1
      <4>2. CASE k # q
        <5>1. rows'.keys[k] = rows.keys[k]
          BY <1>1, <3>3, <4>2
        <5> QED
          BY <1>2, <3>0, <4>2, <5>1, KeyUntouched
      <4> QED
        BY <4>1, <4>2
    <3>7. rows' \in [org : OrgStates, keys : [KeyIds -> KeyRows],
                    aliases : [AliasNames -> Targets \union {None}]]
      <4>1. rows' = [rows EXCEPT !.keys = rows'.keys]
        BY <1>1, <3>1
      <4>2. rows'.keys \in [KeyIds -> KeyRows]
        BY <1>1, <3>1, <3>3
      <4> QED
        BY <1>1, <4>1, <4>2
    <3> QED
      BY <1>4, <3>4, <3>5, <3>6, <3>7 DEF RowInv
  <2>3. CASE log[n].type = "alias"
    <3> DEFINE v == AliasWrite(e)
    <3>1. rows' = [rows EXCEPT !.aliases[id] = v]
      BY <1>2, <2>3 DEF ApplyRow, WriteOf
    <3>2. id \in AliasNames /\ e \in AliasEvents
      BY <1>4, <2>3, EntryTypes
    <3>3. v \in Targets \union {None}
      BY <3>2 DEF AliasWrite, AliasEvents
    <3> HIDE DEF v
    <3>4. /\ rows'.org = rows.org /\ rows'.keys = rows.keys
          /\ rows'.aliases = [rows.aliases EXCEPT ![id] = v]
      BY <1>1, <3>1
    <3>5. /\ \A m \in Subs : rows'.org.members[m] = Org(n)'.members[m]
          /\ \A p \in Projects :
                rows'.org.projects[p] = Org(n)'.projects[p]
      BY <1>2, <2>3, <3>4, OrgUntouched
    <3>6. \A k \in KeyIds : \E j \in Later' : rows'.keys[k] = Key(j, k)'
      BY <1>2, <2>3, <3>4, KeyUntouched
    <3>7. ASSUME NEW a \in AliasNames
          PROVE  rows'.aliases[a] = Alias(n, a)'
      <4>1. CASE a = id
        <5>1. rows'.aliases[a] = v
          BY <1>1, <3>2, <3>4, <4>1
        <5>2. Alias(n, a) = v
          BY <1>1, <2>3, <4>1, ViewStep DEF Types, v
        <5>3. Alias(n, a)' = Alias(n, a)
          BY <1>2 DEF Wrote, Alias, Prefix
        <5> QED
          BY <5>1, <5>2, <5>3
      <4>2. CASE a # id
        <5>1. rows'.aliases[a] = rows.aliases[a]
          BY <1>1, <3>4, <4>2
        <5> QED
          BY <1>2, <4>2, <5>1, AliasUntouched
      <4> QED
        BY <4>1, <4>2
    <3>8. rows' \in [org : OrgStates, keys : [KeyIds -> KeyRows],
                    aliases : [AliasNames -> Targets \union {None}]]
      BY <1>1, <3>1, <3>3
    <3> QED
      BY <1>4, <3>5, <3>6, <3>7, <3>8 DEF RowInv
  <2> QED
    BY <1>4, <2>1, <2>2, <2>3, EntryTypes
<1>6. RowTypes'
  BY <1>1, <1>2, <1>3, <1>5 DEF RowTypes, Types, Wrote
<1>7. Types'
  BY <1>1, <1>3, <1>6 DEF Types
<1>8. ReqInv'
  BY <1>1, <1>3
     DEF ReqInv, ReqOk, HomeInv, DecidedInv, StageInv, CreatesKey
<1> QED
  BY <1>1, <1>3, <1>5, <1>7, <1>8 DEF IInv, FitInv

\* Rows that are not written show what they showed.
LEMMA RowsKept ==
    ASSUME RowInv, UNCHANGED <<log, rows>>,
           Now \subseteq Now', Later \subseteq Later'
    PROVE  RowInv'
<1>1. ASSUME NEW n
      PROVE  /\ Org(n)' = Org(n)
             /\ \A a : Alias(n, a)' = Alias(n, a)
             /\ \A k : Key(n, k)' = Key(n, k)
  BY DEF Org, Alias, Key, Prefix
<1>2. \A m \in Subs : \E n \in Now' :
         rows'.org.members[m] = Org(n)'.members[m]
  BY <1>1 DEF RowInv
<1>3. \A p \in Projects : \E n \in Now' :
         rows'.org.projects[p] = Org(n)'.projects[p]
  BY <1>1 DEF RowInv
<1>4. ASSUME NEW a \in AliasNames
      PROVE  \E n \in Now' : rows'.aliases[a] = Alias(n, a)'
  <2>1. PICK n \in Now : rows.aliases[a] = Alias(n, a)
    BY DEF RowInv
  <2>2. Alias(n, a)' = Alias(n, a)
    BY <1>1
  <2> QED
    BY <2>1, <2>2
<1>5. ASSUME NEW k \in KeyIds
      PROVE  \E n \in Later' : rows'.keys[k] = Key(n, k)'
  <2>1. PICK n \in Later : rows.keys[k] = Key(n, k)
    BY DEF RowInv
  <2>2. Key(n, k)' = Key(n, k)
    BY <1>1
  <2> QED
    BY <2>1, <2>2
<1> QED
  BY <1>2, <1>3, <1>4, <1>5 DEF RowInv

\* The marker moves when everything shows the event, and what is begun again
\* promises less than what is done.
LEMMA MarkStep ==
    ASSUME IInv, UNCHANGED <<events, rows>>, ReqInv',
           left' \in 0..MaxFaults,
           \/ SaveMarker
           \/ mark' = mark /\ written' = 0,
           phase' \in {"live", "failed", "stopped"},
           projFailed' \in BOOLEAN, relayFailed' \in BOOLEAN
    PROVE  IInv'
<1> USE DEF events
<1>1. /\ Types /\ Fits(log) /\ ReqInv /\ RowInv
      /\ log \in Seq(LogEntries) /\ Len(log) \in Nat
      /\ mark \in 0..Len(log)
  BY LenProperties DEF IInv, Types, RowTypes, FitInv
<1>2. /\ Now \subseteq Now' /\ Later \subseteq Later'
      /\ mark' \in 0..Len(log) /\ written' = 0
  <2>1. CASE SaveMarker
    <3>1. /\ Done /\ mark < Len(log) /\ mark' = mark + 1 /\ written' = 0
      <4>1. Writes \in {1, 2}
        BY DEF Writes
      <4> QED
        BY <2>1, <4>1 DEF SaveMarker, Pending, Done
    <3>2. ~Done'
      BY <3>1 DEF Done
    <3> QED
      BY <1>1, <3>1, <3>2 DEF Now, Later
  <2>2. CASE mark' = mark /\ written' = 0
    <3>1. ~Done'
      BY <2>2 DEF Done
    <3> QED
      BY <1>1, <2>2, <3>1 DEF Now, Later
  <2> QED
    BY <2>1, <2>2
<1>3. RowTypes'
  BY <1>1, <1>2 DEF Types, RowTypes
<1>4. Types'
  BY <1>1, <1>3 DEF Types
<1>5. RowInv'
  BY <1>1, <1>2, RowsKept
<1> QED
  BY <1>1, <1>4, <1>5 DEF IInv, FitInv

-----------------------------------------------------------------------------
(* Invariance.                                                             *)

\* What a request does to itself leaves the rest.
LEMMA OnlyRequests ==
    ASSUME IInv, UNCHANGED <<events, readModel, phase, health, left>>, ReqInv'
    PROVE  IInv'
<1> USE DEF events, readModel, health
<1>1. Types' /\ FitInv'
  BY DEF IInv, Types, RowTypes, FitInv, Writes, Next1
<1>2. Now' = Now /\ Later' = Later
  BY DEF Now, Later, Done, Writes, Next1
<1>3. RowInv'
  BY <1>2, RowsKept DEF IInv
<1> QED
  BY <1>1, <1>3 DEF IInv

\* And so does what the runner makes of a failure.
LEMMA OnlyRunner ==
    ASSUME IInv, UNCHANGED <<log, room, req, rows, mark, written>>,
           phase' \in {"live", "failed", "stopped"},
           projFailed' \in BOOLEAN, relayFailed' \in BOOLEAN,
           left' \in 0..MaxFaults
    PROVE  IInv'
<1>1. Types' /\ FitInv'
  BY DEF IInv, Types, RowTypes, FitInv, Writes, Next1
<1>2. ReqInv'
  BY DEF IInv, ReqInv, ReqOk, HomeInv, DecidedInv, StageInv, CreatesKey
<1>3. Now' = Now /\ Later' = Later
  BY DEF Now, Later, Done, Writes, Next1
<1>4. RowInv'
  BY <1>3, RowsKept DEF IInv
<1> QED
  BY <1>1, <1>2, <1>4 DEF IInv

LEMMA InitInv == Init => IInv
<1> SUFFICES ASSUME Init PROVE IInv
  OBVIOUS
<1>1. log \in Seq(LogEntries) /\ Fits(log) /\ Len(log) \in 0..Len(log)
  BY HistoriesAssumption, LenProperties DEF Init, Fits
<1>2. PICK n : n = Len(log)
  OBVIOUS
<1>3. /\ Org(n) \in OrgStates
      /\ \A k \in KeyIds : Key(n, k) \in KeyRows
      /\ \A a \in AliasNames : Alias(n, a) \in Targets \union {None}
  BY <1>1, <1>2, ViewTypes DEF Fits
<1>4. rows = [org |-> Org(n), keys |-> [k \in KeyIds |-> Key(n, k)],
              aliases |-> [a \in AliasNames |-> Alias(n, a)]]
  BY <1>2 DEF Init
<1>5. /\ mark = n /\ written = 0 /\ mark \in 0..Len(log) /\ ~Done
      /\ n \in Now /\ n \in Later
  BY <1>1, <1>2 DEF Init, Done, Now, Later
<1>6. Types
  <2>1. rows \in [org : OrgStates, keys : [KeyIds -> KeyRows],
                 aliases : [AliasNames -> Targets \union {None}]]
    BY <1>3, <1>4
  <2>2. RowTypes
    BY <1>5, <2>1 DEF RowTypes
  <2>3. room \in 0..MaxAppends /\ left \in 0..MaxFaults
    <3>1. room = MaxAppends /\ left = MaxFaults
      BY DEF Init
    <3> QED
      BY <3>1
  <2>4. phase = "live" /\ projFailed = FALSE /\ relayFailed = FALSE
    BY DEF Init
  <2> QED
    BY <1>1, <2>2, <2>3, <2>4 DEF Types
<1>7. ReqInv
  BY DEF Init, ReqInv
<1>8. RowInv
  BY <1>4, <1>5 DEF RowInv
<1> QED
  BY <1>1, <1>6, <1>7, <1>8 DEF IInv, FitInv

LEMMA Invariance == IInv /\ [Next]_vars => IInv'
<1> USE DEF events, readModel, health
<1> SUFFICES ASSUME IInv, [Next]_vars PROVE IInv'
  OBVIOUS
<1>0. /\ ReqInv /\ log \in Seq(LogEntries) /\ mark \in 0..Len(log)
      /\ phase \in {"live", "failed", "stopped"}
      /\ projFailed \in BOOLEAN /\ relayFailed \in BOOLEAN
      /\ left \in 0..MaxFaults
  BY DEF IInv, Types, RowTypes
<1>1. ASSUME NEW c \in Callers, Accept(c) PROVE IInv'
  BY <1>1, AcceptStep, OnlyRequests DEF Accept
<1>2. ASSUME NEW c \in Callers, CheckProject(c) PROVE IInv'
  BY <1>2, CheckStep, OnlyRequests DEF CheckProject
<1>3. ASSUME NEW c \in Callers, LoadDecide(c) PROVE IInv'
  BY <1>3, LoadStepDecides, OnlyRequests DEF LoadDecide
<1>4. ASSUME NEW c \in Callers, AppendEvents(c) PROVE IInv'
  BY <1>4, AppendStep
<1>5. ASSUME NEW c \in Callers, Conflict(c) PROVE IInv'
  BY <1>5, ConflictStep, OnlyRequests DEF Conflict
<1>6. ASSUME NEW c \in Callers, Hangup(c) PROVE IInv'
  <2>1. ReqInv'
    BY <1>0, <1>6, FinishStep DEF Hangup
  <2> QED
    BY <1>6, <2>1, OnlyRequests DEF Hangup
<1>7. CASE ApplyRow
  BY <1>7, ApplyStep
<1>8. CASE SaveMarker
  <2>1. ReqInv'
    BY <1>0, <1>8 DEF SaveMarker, ReqInv, ReqOk, HomeInv, DecidedInv,
                      StageInv, CreatesKey
  <2> QED
    BY <1>0, <1>8, <2>1, MarkStep DEF SaveMarker
<1>9. ASSUME \/ SQLFails \/ NoticeFailure \/ KVFails \/ RelayFails
             \/ StartProjectors
      PROVE  IInv'
  <2>1. UNCHANGED <<log, room, req, rows, mark, written>>
    BY <1>9 DEF SQLFails, NoticeFailure, KVFails, RelayFails,
                StartProjectors
  <2>2. left' \in 0..MaxFaults
    BY <1>0, <1>9 DEF SQLFails, NoticeFailure, KVFails, RelayFails,
                      StartProjectors, Spend
  <2>3. phase' \in {"live", "failed", "stopped"}
    BY <1>0, <1>9 DEF SQLFails, NoticeFailure, KVFails, RelayFails,
                      StartProjectors
  <2>4. projFailed' \in BOOLEAN /\ relayFailed' \in BOOLEAN
    <3>1. \/ projFailed' = projFailed \/ projFailed' = TRUE
          \/ projFailed' = FALSE
      BY <1>9 DEF SQLFails, NoticeFailure, KVFails, RelayFails,
                  StartProjectors
    <3>2. relayFailed' = relayFailed \/ relayFailed' = TRUE
      BY <1>9 DEF SQLFails, NoticeFailure, KVFails, RelayFails,
                  StartProjectors
    <3> QED
      BY <1>0, <3>1, <3>2
  <2> QED
    BY <2>1, <2>2, <2>3, <2>4, OnlyRunner
<1>10. ASSUME StopProjectors PROVE IInv'
  <2>1. /\ UNCHANGED <<log, room, req, rows, mark>> /\ written' = 0
        /\ phase' \in {"live", "failed", "stopped"}
        /\ projFailed' \in BOOLEAN /\ relayFailed' \in BOOLEAN
        /\ left' \in 0..MaxFaults
    BY <1>0, <1>10 DEF StopProjectors, Spend
  <2>2. ReqInv'
    BY <1>0, <2>1 DEF ReqInv, ReqOk, HomeInv, DecidedInv, StageInv,
                      CreatesKey
  <2> QED
    BY <2>1, <2>2, MarkStep
<1>11. ASSUME Reboot PROVE IInv'
  <2>1. /\ UNCHANGED <<log, room, rows, mark>> /\ written' = 0
        /\ req' = [c \in Callers |-> Idle]
        /\ phase' = "live" /\ projFailed' = FALSE /\ relayFailed' = FALSE
    BY <1>11 DEF Reboot
  <2>2. left' \in 0..MaxFaults
    BY <1>0, <1>11 DEF Reboot, Spend
  <2>3. ReqInv'
    BY <2>1 DEF ReqInv
  <2>4. /\ phase' \in {"live", "failed", "stopped"}
        /\ projFailed' \in BOOLEAN /\ relayFailed' \in BOOLEAN
    BY <2>1
  <2> QED
    BY <2>1, <2>2, <2>3, <2>4, MarkStep
<1>12. CASE UNCHANGED vars
  <2>1. ReqInv'
    BY <1>0, <1>12 DEF vars, ReqInv, ReqOk, HomeInv, DecidedInv, StageInv,
                       CreatesKey
  <2> QED
    BY <1>12, <2>1, OnlyRequests DEF vars
<1> QED
  BY <1>1, <1>2, <1>3, <1>4, <1>5, <1>6, <1>7, <1>8, <1>9, <1>10, <1>11,
     <1>12 DEF Next, Handle

LEMMA Reachable == Spec => []IInv
BY InitInv, Invariance, PTL DEF Spec

-----------------------------------------------------------------------------
(* The theorems.                                                           *)

\* Every request is at a stage of its handler, carries events exactly when it
\* is about to append them, and a version the log has reached; the rows hold
\* roles and states of projects, the marker points into the log.
THEOREM ControlPlaneTyped == Spec => []TypeOK
<1>1. IInv => TypeOK
  <2> SUFFICES ASSUME IInv PROVE TypeOK
    OBVIOUS
  <2>1. /\ Types /\ ReqInv /\ log \in Seq(LogEntries) /\ Len(log) \in Nat
    BY LenProperties DEF IInv, Types
  <2>2. ASSUME NEW c \in Callers, req[c] # Idle
        PROVE  /\ req[c].stage \in {"check", "load", "append"}
               /\ req[c].tries \in 0..2
               /\ req[c].at \in 0..Len(log)
               /\ (req[c].stage = "append") = (req[c].out # << >>)
    <3>1. PICK r : r = req[c]
      OBVIOUS
    <3>2. r \in Serving /\ StageInv(r) /\ DecidedInv(r)
      BY <2>1, <2>2, <3>1 DEF ReqInv, ReqOk
    <3>3. r.at \in Nat /\ r.at <= Version(log, r.type, r.id)
      BY <3>2 DEF Serving, DecidedInv
    <3>4. Version(log, r.type, r.id) \in 0..Len(log)
      BY <2>1, VersionType
    <3>5. r.at \in 0..Len(log)
      BY <2>1, <3>3, <3>4
    <3> QED
      BY <3>1, <3>2, <3>5 DEF Serving, StageInv
  <2>3. /\ rows.org.members \in [Subs -> Roles \union {None}]
        /\ rows.org.projects \in [Projects -> {"live", "archived", None}]
    BY <2>1 DEF Types, RowTypes, OrgStates
  <2> QED
    BY <2>1, <2>2, <2>3 DEF TypeOK, Types, RowTypes
<1> QED
  BY <1>1, Reachable, PTL

\* An org that exists has an owner, however the requests that change its
\* members race (org.Decide's sole-owner check behind the appended version).
THEOREM OwnerStaysForever == Spec => []OrgKeepsAnOwner
<1>1. IInv => OrgKeepsAnOwner
  BY DEF IInv, FitInv, Fits, OrgKeepsAnOwner
<1> QED
  BY <1>1, Reachable, PTL

\* Every event of a key or a project fits what preceded it: a key is created
\* once, in a project that had been created, each rotation and the disabling
\* name the hash it had, and nothing follows the disabling; a project is
\* created at most once and archived at most once after that (apikey.Decide and
\* org.Decide behind the appended version, createKey behind a project's never
\* being removed).
THEOREM HistoriesFit == Spec => []EventsFitTheLog
<1>1. IInv => EventsFitTheLog
  BY DEF IInv, FitInv, Fits, EventsFitTheLog
<1> QED
  BY <1>1, Reachable, PTL

\* Whoever authorizeOrg lets through held a sufficient role in a state of the
\* org no older than the marker of the read model.
THEOREM NobodyWithoutARole == Spec => []AuthorizedByARoleOnceHeld
<1>1. IInv => AuthorizedByARoleOnceHeld
  <2> SUFFICES ASSUME IInv, NEW sub \in Subs, NEW need,
                      Permitted(sub, need)
               PROVE  \E n \in mark..Len(log) :
                         Authorize(Org(n).members[sub], need)
    BY DEF AuthorizedByARoleOnceHeld
  <2>1. mark \in 0..Len(log) /\ Len(log) \in Nat
    BY LenProperties DEF IInv, Types, RowTypes
  <2>2. PICK n \in Now : rows.org.members[sub] = Org(n).members[sub]
    BY DEF IInv, RowInv
  <2>3. n \in mark..Len(log)
    BY <2>1, <2>2 DEF Now
  <2> QED
    BY <2>2, <2>3 DEF Permitted
<1> QED
  BY <1>1, Reachable, PTL

\* Every row of the read model shows a state no older than the marker, whose
\* writes a failure may have cut short (readmodel.go's apply).
THEOREM RowsNeverOlder == Spec => []RowsCoverMarker
<1>1. IInv => RowsCoverMarker
  <2> SUFFICES ASSUME IInv PROVE RowsCoverMarker
    OBVIOUS
  <2>1. RowInv
    BY DEF IInv
  <2> DEFINE now == {n \in mark..mark + 1 : n <= Len(log)}
  <2>2. Now \subseteq now /\ Later \subseteq mark..Len(log)
    BY DEF Now, Later
  <2>3. /\ \A p \in Projects : \E n \in now :
              rows.org.projects[p] = Org(n).projects[p]
        /\ \A a \in AliasNames : \E n \in now : rows.aliases[a] = Alias(n, a)
        /\ \A k \in KeyIds : \E n \in mark..Len(log) :
              rows.keys[k] = Key(n, k)
    <3> HIDE DEF now
    <3> QED
      BY <2>1, <2>2 DEF RowInv
  <2> QED
    BY <2>3 DEF RowsCoverMarker
<1> QED
  BY <1>1, Reachable, PTL

=============================================================================
