----------------------------- MODULE ControlPlane -----------------------------
(***************************************************************************)
(* The admin API of the control plane (internal/controlplane/admin.go,     *)
(* auth.go): handlers that authorize a caller against the SQL read model,  *)
(* decide a command on a loaded aggregate and append with the version they *)
(* loaded; the SQL projector that feeds that read model (readmodel.go);    *)
(* and what the runner makes of its projectors: a health signal, and       *)
(* generations that are stopped and started around a resync (runner.go).   *)
(*                                                                         *)
(* There is one org.  The projector reads the log in order here: that the  *)
(* relay, the durable consumer and the replay give it every event once or  *)
(* more and none too early is the subject of KVProjection.                 *)
(***************************************************************************)
EXTENDS ControlEvents

CONSTANTS
    Platform,   \* the bootstrap identity, a platform admin
    KeyIds,     \* the ids of the org's keys
    AliasNames, \* the ids of the aliases, the org's and the global ones
    Global,     \* those of the global scope
    Names,      \* what the org may be called
    Vals,       \* a key's allowlists and limits
    Targets,    \* what an alias may point to
    Callers,    \* the requests served at the same time
    Commands,   \* the requests that are sent
    Histories,  \* the logs the process may find
    MaxAppends, \* bound: events appended to it
    Faults,     \* what may go wrong in this instance
    MaxFaults   \* bound: how often

OrgId == "org"

-----------------------------------------------------------------------------
(* What is sent and what is logged.  A hash is a number; a role that is    *)
(* none of the three and a target without a slug are None.                 *)

OrgCommands ==
    [kind : {"create"}, name : Names, sub : Subs]
        \union [kind : {"rename"}, name : Names]
        \union [kind : {"upsertMember"}, sub : Subs,
                role : Roles \union {None}]
        \union [kind : {"removeMember"}, sub : Subs]
        \union [kind : {"createProject", "archiveProject"},
                project : Projects]

KeyCommands ==
    [kind : {"create"}, hash : Nat, home : Projects, val : Vals]
        \union [kind : {"rotate"}, hash : Nat]
        \union [kind : {"disable"}]
        \union [kind : {"allowlist", "limits"}, val : Vals]

AliasCommands ==
    [kind : {"set"}, target : Targets \union {None}, reserved : BOOLEAN]
        \union [kind : {"delete"}]

\* A command and the aggregate it is for.
Addressed(type, id, cmd) ==
    \/ type = "org" /\ id = OrgId /\ cmd \in OrgCommands
    \/ type = "apikey" /\ id \in KeyIds /\ cmd \in KeyCommands
    \/ type = "alias" /\ id \in AliasNames /\ cmd \in AliasCommands

OrgEvents ==
    [kind : {"orgCreated"}, name : Names, sub : Subs]
        \union [kind : {"renamed"}, name : Names]
        \union [kind : {"memberUpserted"}, sub : Subs, role : Roles]
        \union [kind : {"memberRemoved"}, sub : Subs]
        \union [kind : {"projectCreated", "projectArchived"},
                project : Projects]

KeyEvents ==
    [kind : {"created"}, new : Nat, home : Projects, val : Vals]
        \union [kind : {"rotated"}, new : Nat, prev : Nat]
        \union [kind : {"disabled"}, prev : Nat]
        \union [kind : {"allowlist", "limits"}, val : Vals]

AliasEvents == [kind : {"set"}, target : Targets]
                   \union [kind : {"deleted"}]

LogEntries ==
    [type : {"org"}, id : {OrgId}, event : OrgEvents]
        \union [type : {"apikey"}, id : KeyIds, event : KeyEvents]
        \union [type : {"alias"}, id : AliasNames, event : AliasEvents]

\* What the handlers make of a log, whoever they race with.
Before(l, i) == SubSeq(l, 1, i - 1)

OwnerKept(l) ==
    LET s == Load(l, "org", OrgId)
    IN  s.name # None => Owners(s) # {}

\* Event e of a key whose state is s, in an org whose state is o.
KeyEventFits(s, o, e) ==
    /\ (e.kind = "created") = (s.hash = None)
    /\ ~s.disabled
    /\ e.kind \in {"rotated", "disabled"} => e.prev = s.hash
    /\ e.kind = "created" => o.projects[e.home] # None

KeyEventsFit(l) ==
    \A i \in DOMAIN l : l[i].type = "apikey" =>
        KeyEventFits(Load(Before(l, i), "apikey", l[i].id),
                     Load(Before(l, i), "org", OrgId), l[i].event)

ProjectEventFits(o, e) ==
    /\ e.kind = "projectCreated" => o.projects[e.project] = None
    /\ e.kind = "projectArchived" => o.projects[e.project] = "live"

ProjectEventsFit(l) ==
    \A i \in DOMAIN l : l[i].type = "org" =>
        ProjectEventFits(Load(Before(l, i), "org", OrgId), l[i].event)

-----------------------------------------------------------------------------
ASSUME ControlPlaneAssumption ==
    /\ IsFiniteSet(Callers)
    /\ IsFiniteSet(Subs)
    /\ Platform \notin Subs
    /\ Global \subseteq AliasNames
    /\ MaxAppends \in Nat
    /\ MaxFaults \in Nat
    /\ Faults \subseteq {"crash",   \* the process ends
                         "sql",     \* the SQL projector fails
                         "kv",      \* the KV projectors fail
                         "relay",   \* the relay fails
                         "resync"}  \* an operator asks for a resync

\* The log has been written by earlier runs of this program.
ASSUME HistoriesAssumption ==
    \A l \in Histories : /\ l \in Seq(LogEntries)
                         /\ OwnerKept(l)
                         /\ KeyEventsFit(l)
                         /\ ProjectEventsFit(l)

ASSUME CommandsAssumption ==
    \A m \in Commands : Addressed(m.type, m.id, m.cmd)

VARIABLES
    log,          \* the event log
    room,         \* bound: the events that may still be appended
    req,          \* the requests being handled
    rows,         \* the tables of the read model
    mark,         \* the SQL projector's marker, which is its pos as well
    written,      \* the writes done for the event after it
    phase,        \* what the SQL projector does
    projFailed,   \* the current generation's failed channel is closed
    relayFailed,  \* and the relay's
    left          \* bound: the faults that may still happen

readModel == <<rows, mark, written>>
health == <<projFailed, relayFailed>>
events == <<log, room>>
vars == <<events, req, readModel, phase, health, left>>

Idle == [stage |-> "idle"]
Prefix(n) == SubSeq(log, 1, n)
Org(n) == Load(Prefix(n), "org", OrgId)
Key(n, k) == LET s == Load(Prefix(n), "apikey", k)
             IN  IF s.hash = None THEN None
                 ELSE [home |-> s.home, allow |-> s.allow,
                       limits |-> s.limits, disabled |-> s.disabled]
Alias(n, a) == LET s == Load(Prefix(n), "alias", a)
               IN  IF s.deleted THEN None ELSE s.target

TypeOK ==
    /\ room \in 0..MaxAppends
    /\ \A c \in Callers : req[c] # Idle =>
          /\ req[c].stage \in {"check", "load", "append"}
          /\ req[c].tries \in 0..2
          /\ req[c].at \in 0..Len(log)
          /\ (req[c].stage = "append") = (req[c].out # << >>)
    /\ rows.org.members \in [Subs -> Roles \union {None}]
    /\ rows.org.projects \in [Projects -> {"live", "archived", None}]
    /\ mark \in 0..Len(log)
    /\ written \in 0..2
    /\ phase \in {"live", "failed", "stopped"}
    /\ projFailed \in BOOLEAN /\ relayFailed \in BOOLEAN
    /\ left \in 0..MaxFaults

\* The process finds a log and a read model that has caught up with it.
Init ==
    /\ log \in Histories /\ room = MaxAppends
    /\ req = [c \in Callers |-> Idle]
    /\ rows = [org |-> Org(Len(log)),
               keys |-> [k \in KeyIds |-> Key(Len(log), k)],
               aliases |-> [a \in AliasNames |-> Alias(Len(log), a)]]
    /\ mark = Len(log) /\ written = 0
    /\ phase = "live" /\ projFailed = FALSE /\ relayFailed = FALSE
    /\ left = MaxFaults

Spend(kind) ==
    /\ kind \in Faults
    /\ left > 0
    /\ left' = left - 1

-----------------------------------------------------------------------------
(* Authorization.                                                          *)

Healthy == ~relayFailed /\ ~projFailed

Authorize(role, need) ==
    \/ role = "owner"
    \/ role = "admin" /\ need \in {"read", "manage_keys"}
    \/ role = "viewer" /\ need = "read"

\* authorizeOrg of a caller who is no platform admin.
Permitted(sub, need) ==
    /\ Healthy
    /\ rows.org.name # None
    /\ Authorize(rows.org.members[sub], need)

Authorized(m) == IF m.sub = Platform THEN TRUE
                 ELSE m.need # "platform" /\ Permitted(m.sub, m.need)

-----------------------------------------------------------------------------
(* The routes: what a request needs of its sender, the aggregate it is     *)
(* about and the command it becomes.  A body that does not parse is not    *)
(* among them.                                                             *)

Request(sub, need, type, id, cmd) ==
    [sub |-> sub, need |-> need, type |-> type, id |-> id, cmd |-> cmd]

OnOrg(sub, cmd) == Request(sub, "manage_org", "org", OrgId, cmd)
OnKey(sub, k, cmd) == Request(sub, "manage_keys", "apikey", k, cmd)
OnAlias(sub, a, cmd) ==
    Request(sub, IF a \in Global THEN "platform" ELSE "manage_keys",
            "alias", a, cmd)

createOrg(sub, name, owner) ==
    Request(sub, "platform", "org", OrgId,
            [kind |-> "create", name |-> name, sub |-> owner])
renameOrg(sub, name) == OnOrg(sub, [kind |-> "rename", name |-> name])
upsertMember(sub, member, role) ==
    OnOrg(sub, [kind |-> "upsertMember", sub |-> member, role |-> role])
removeMember(sub, member) ==
    OnOrg(sub, [kind |-> "removeMember", sub |-> member])
createProject(sub, p) ==
    OnOrg(sub, [kind |-> "createProject", project |-> p])
archiveProject(sub, p) ==
    OnOrg(sub, [kind |-> "archiveProject", project |-> p])

\* The hash is generated when the request is accepted.
createKey(sub, k, p, val) ==
    OnKey(sub, k, [kind |-> "create", hash |-> 0, home |-> p, val |-> val])
rotateKey(sub, k) == OnKey(sub, k, [kind |-> "rotate", hash |-> 0])
disableKey(sub, k) == OnKey(sub, k, [kind |-> "disable"])
setAllowlist(sub, k, val) ==
    OnKey(sub, k, [kind |-> "allowlist", val |-> val])
setLimits(sub, k, val) == OnKey(sub, k, [kind |-> "limits", val |-> val])

setAlias(sub, a, target, reserved) ==
    OnAlias(sub, a, [kind |-> "set", target |-> target,
                     reserved |-> reserved])
deleteAlias(sub, a) == OnAlias(sub, a, [kind |-> "delete"])

-----------------------------------------------------------------------------
(* The handlers.                                                           *)

At(c, stage) == req[c].stage = stage
Finish(c) == req' = [req EXCEPT ![c] = Idle]
Goto(c, stage) == req' = [req EXCEPT ![c].stage = stage]

NewHash(e) == IF e.type = "apikey" /\ e.event.kind \in {"created", "rotated"}
              THEN {e.event.new} ELSE {}
Used == UNION ({NewHash(log[i]) : i \in DOMAIN log} \union
               {req[c].hash : c \in {b \in Callers : req[b] # Idle}})
\* GenerateKey: a hash nobody has.
Fresh == CHOOSE h \in 1..Cardinality(Used) + 1 : h \notin Used

\* A request arrives and is let through: a key must exist before its org is
\* looked up.  One answered 401, 503, 404 or 403 here leaves no trace.
Accept(c) ==
    /\ req[c] = Idle
    /\ room > 0
    /\ \E m \in Commands :
          /\ m.type = "apikey" /\ m.cmd.kind # "create" =>
                Load(log, "apikey", m.id).hash # None
          /\ Authorized(m)
          /\ LET checks == m.type = "apikey" /\ m.cmd.kind = "create"
                 made   == checks \/ m.cmd.kind = "rotate"
             IN  req' = [req EXCEPT ![c] =
                    [stage |-> IF checks THEN "check" ELSE "load",
                     type |-> m.type, id |-> m.id,
                     cmd |-> IF made THEN [m.cmd EXCEPT !.hash = Fresh]
                                     ELSE m.cmd,
                     hash |-> IF made THEN {Fresh} ELSE {},
                     out |-> << >>, at |-> 0, tries |-> 0]]
    /\ UNCHANGED <<events, readModel, phase, health, left>>

\* Mutant: only the org is looked up.
CheckOrgOnly(c) ==
    /\ At(c, "check")
    /\ IF Load(log, "org", OrgId).name # None THEN Goto(c, "load")
                                             ELSE Finish(c)
    /\ UNCHANGED <<events, readModel, phase, health, left>>

\* createKey looks its org and project up in the aggregate.
CheckProject(c) ==
    /\ At(c, "check")
    /\ LET s == Load(log, "org", OrgId)
       IN  IF s.name # None /\ s.projects[req[c].cmd.home] # None
           THEN Goto(c, "load") ELSE Finish(c)
    /\ UNCHANGED <<events, readModel, phase, health, left>>

\* Runtime.Handle loads and decides; without an event it is done.
LoadDecide(c) ==
    /\ At(c, "load")
    /\ LET r == req[c]
           v == Version(log, r.type, r.id)
           d == Decide(r.type, Load(log, r.type, r.id), r.cmd)
       IN  IF d.out = << >>
           THEN Finish(c)
           ELSE req' = [req EXCEPT
                   ![c].stage = "append",
                   ![c].out = Envelopes(r.type, r.id, d),
                   ![c].at = v,
                   ![c].tries = r.tries + 1]
    /\ UNCHANGED <<events, readModel, phase, health, left>>

\* Mutant: an append does not compare versions.
ConflictsNever(c) == FALSE

Conflicts(c) == Version(log, req[c].type, req[c].id) # req[c].at

AppendEvents(c) ==
    /\ At(c, "append")
    /\ ~Conflicts(c)
    /\ room > 0
    /\ room' = room - 1
    /\ log' = log \o req[c].out
    /\ Finish(c)
    /\ UNCHANGED <<readModel, phase, health, left>>

\* Mutant: it is retried twice.
ConflictTwice(c) ==
    /\ At(c, "append")
    /\ Conflicts(c)
    /\ IF req[c].tries < 3
       THEN req' = [req EXCEPT ![c].stage = "load", ![c].out = << >>]
       ELSE Finish(c)
    /\ UNCHANGED <<events, readModel, phase, health, left>>

\* handleWithRetry: once more on the first conflict, 409 on the second.
Conflict(c) ==
    /\ At(c, "append")
    /\ Conflicts(c)
    /\ IF req[c].tries < 2
       THEN req' = [req EXCEPT ![c].stage = "load", ![c].out = << >>]
       ELSE Finish(c)
    /\ UNCHANGED <<events, readModel, phase, health, left>>

\* The client hangs up, which cancels what the request waits for.
Hangup(c) ==
    /\ req[c] # Idle
    /\ Finish(c)
    /\ UNCHANGED <<events, readModel, phase, health, left>>

-----------------------------------------------------------------------------
(* The SQL projector: rows, then the marker.                               *)

Next1 == log[mark + 1]
Pending == phase = "live" /\ mark < Len(log)

\* Mutant: the removal of a member is not projected.
OrgWriteKeepsMembers(e, step) ==
    CASE e.kind = "orgCreated" /\ step = 0 ->
            [rows.org EXCEPT !.name = e.name]
      [] e.kind = "orgCreated" /\ step = 1 ->
            [rows.org EXCEPT !.members[e.sub] = "owner"]
      [] e.kind = "memberRemoved" -> rows.org
      [] e.kind \notin {"orgCreated", "memberRemoved"} ->
            EvolveOrg(rows.org, e)

\* OrgCreated takes two upserts.  An archived project is written as the
\* reloaded aggregate has it.
OrgWrite(e, step) ==
    LET o == rows.org
    IN  CASE e.kind = "orgCreated" /\ step = 0 -> [o EXCEPT !.name = e.name]
          [] e.kind = "orgCreated" /\ step = 1 ->
                [o EXCEPT !.members[e.sub] = "owner"]
          [] e.kind = "projectArchived" ->
                [o EXCEPT !.projects[e.project] =
                    Load(log, "org", OrgId).projects[e.project]]
          [] e.kind \notin {"orgCreated", "projectArchived"} ->
                EvolveOrg(o, e)

\* Mutant: a disabled key is not shown as such.
KeyRowEnabled(s) == [home |-> s.home, allow |-> s.allow,
                     limits |-> s.limits, disabled |-> FALSE]

\* Whatever happened to a key, its row is written from its current state.
KeyRow(s) == [home |-> s.home, allow |-> s.allow, limits |-> s.limits,
              disabled |-> s.disabled]

AliasWrite(e) == IF e.kind = "set" THEN e.target ELSE None

\* Mutant: the creator of an org is not made a member.
WritesOrgOnly == 1

Writes == IF Next1.type = "org" /\ Next1.event.kind = "orgCreated"
          THEN 2 ELSE 1

ApplyRow ==
    /\ Pending
    /\ written < Writes
    /\ written' = written + 1
    /\ LET t == Next1.type
           id == Next1.id
       IN  rows' = CASE t = "org"    -> [rows EXCEPT !.org =
                                            OrgWrite(Next1.event, written)]
                     [] t = "apikey" -> [rows EXCEPT !.keys[id] =
                                            KeyRow(Load(log, t, id))]
                     [] t = "alias"  -> [rows EXCEPT !.aliases[id] =
                                            AliasWrite(Next1.event)]
    /\ UNCHANGED <<events, req, mark, phase, health, left>>

SaveMarker ==
    /\ Pending
    /\ written = Writes
    /\ mark' = mark + 1
    /\ written' = 0
    /\ UNCHANGED <<events, req, rows, phase, health, left>>

-----------------------------------------------------------------------------
(* The runner.                                                             *)

\* The latch of the SQL projector; its generation's channel is closed later.
SQLFails ==
    /\ Pending
    /\ Spend("sql")
    /\ phase' = "failed"
    /\ UNCHANGED <<events, req, readModel, health>>

NoticeFailure ==
    /\ phase = "failed" /\ ~projFailed
    /\ projFailed' = TRUE
    /\ UNCHANGED <<events, req, readModel, phase, relayFailed, left>>

KVFails ==
    /\ phase # "stopped" /\ ~projFailed
    /\ Spend("kv")
    /\ projFailed' = TRUE
    /\ UNCHANGED <<events, req, readModel, phase, relayFailed>>

RelayFails ==
    /\ ~relayFailed
    /\ Spend("relay")
    /\ relayFailed' = TRUE
    /\ UNCHANGED <<events, req, readModel, phase, projFailed>>

\* resyncFn stops both projectors and waits, for the notice of a failure as
\* well; the health it leaves is that of the generation it stopped.
StopProjectors ==
    /\ phase = "live" \/ (phase = "failed" /\ projFailed)
    /\ Spend("resync")
    /\ phase' = "stopped"
    /\ written' = 0
    /\ UNCHANGED <<events, req, rows, mark, health>>

\* After ResyncKV, whatever it returned.
StartProjectors ==
    /\ phase = "stopped"
    /\ phase' = "live"
    /\ projFailed' = FALSE
    /\ UNCHANGED <<events, req, readModel, relayFailed, left>>

\* The process ends, as a failed relay makes it, and is started again.
Reboot ==
    /\ IF relayFailed THEN UNCHANGED left ELSE Spend("crash")
    /\ req' = [c \in Callers |-> Idle]
    /\ written' = 0
    /\ phase' = "live" /\ projFailed' = FALSE /\ relayFailed' = FALSE
    /\ UNCHANGED <<events, rows, mark>>

-----------------------------------------------------------------------------
Handle(c) == \/ CheckProject(c) \/ LoadDecide(c)
             \/ AppendEvents(c) \/ Conflict(c)

Next ==
    \/ \E c \in Callers : Accept(c) \/ Handle(c) \/ Hangup(c)
    \/ ApplyRow \/ SaveMarker
    \/ SQLFails \/ NoticeFailure \/ KVFails \/ RelayFails
    \/ StopProjectors \/ StartProjectors \/ Reboot

\* The projector runs, a resync ends, a process whose relay failed ends and
\* is started again.
Fairness ==
    /\ WF_vars(ApplyRow \/ SaveMarker)
    /\ WF_vars(StartProjectors)
    /\ WF_vars(relayFailed /\ Reboot)

Spec == Init /\ [][Next]_vars
FairSpec == Spec /\ Fairness

-----------------------------------------------------------------------------
(* Properties.                                                             *)

\* However commands race, an org that exists has an owner: two owners who
\* remove each other cannot both succeed (org.Decide behind the version).
OrgKeepsAnOwner == OwnerKept(log)

\* The events of keys and projects fit what was in the log before them.  A key
\* is created once and before anything else happens to it, a rotation names the
\* hash the key had just then, and nothing follows a disabling, so KEYS is told
\* of every hash that has to go; and a key's project had been created, although
\* createKey checks one aggregate and writes another.  A project is created
\* once, archived once after that and never revived: of two requests for an id
\* only one is told that it succeeded.
EventsFitTheLog == KeyEventsFit(log) /\ ProjectEventsFit(log)

\* A caller that is let through held a sufficient role in a state of the org
\* no older than the marker: a read model that lags, a projector that fails
\* between two writes or a resync may let a removed member in, but never past
\* the events it has acknowledged.
AuthorizedByARoleOnceHeld ==
    \A sub \in Subs, need \in {"read", "manage_keys", "manage_org"} :
        Permitted(sub, need) =>
            \E n \in mark..Len(log) : Authorize(Org(n).members[sub], need)

\* A row shows a state no older than the marker: a project's (although it is
\* reloaded when it is archived) and an alias's that of the marker or of the
\* event being applied, a key's any later one, because it is reloaded.
RowsCoverMarker ==
    LET now == {n \in mark..mark + 1 : n <= Len(log)}
    IN  /\ \A p \in Projects :
              \E n \in now : rows.org.projects[p] = Org(n).projects[p]
        /\ \A a \in AliasNames :
              \E n \in now : rows.aliases[a] = Alias(n, a)
        /\ \A k \in KeyIds :
              \E n \in mark..Len(log) : rows.keys[k] = Key(n, k)

\* A projector that stays up shows the whole log in the end: each role that
\* was granted or taken away is noticed, after a resync and a restart too.
RowsConverge ==
    <>[](\/ phase = "failed"
         \/ /\ rows.org = Org(Len(log))
            /\ \A k \in KeyIds : rows.keys[k] = Key(Len(log), k)
            /\ \A a \in AliasNames :
                  rows.aliases[a] = Alias(Len(log), a))

=============================================================================
