----------------------------- MODULE ControlEvents -----------------------------
(***************************************************************************)
(* The three aggregates of the control plane as pure operators: the        *)
(* deciders of internal/controlplane/org, apikey and alias (what a command *)
(* emits or why it is refused, and how an event changes the state), and    *)
(* the loading of an aggregate from the event log.                         *)
(*                                                                         *)
(* The log is a sequence of envelopes; an envelope's GlobalPosition is its *)
(* index.  A decision is a record of an error, "ok" when there is none,    *)
(* and of the events to append, of which there is at most one.             *)
(***************************************************************************)
EXTENDS Naturals, Sequences, FiniteSets

CONSTANTS
    None,     \* the empty string: no id, no hash, no target, no role
    Subs,     \* the subjects that can be members of an org
    Projects  \* the project ids of an org

Roles == {"owner", "admin", "viewer"}

ASSUME NoneAssumption ==
    None \notin Roles \union {"live", "archived"} \union Nat

Reject(why) == [err |-> why, out |-> <<>>]
Nothing     == [err |-> "ok", out |-> <<>>]
Emit(event) == [err |-> "ok", out |-> <<event>>]

-----------------------------------------------------------------------------
(* The apikey aggregate.  allow and limits stand for the allowlist and for *)
(* the rate limit and budget; home is the key's org and project.           *)

NewKey == [hash |-> None, home |-> None, allow |-> None, limits |-> None,
           disabled |-> FALSE]

DecideLiveKey(s, c) ==
    CASE c.kind = "rotate"    -> Emit([kind |-> "rotated", new |-> c.hash,
                                       prev |-> s.hash])
      [] c.kind = "disable"   -> Emit([kind |-> "disabled", prev |-> s.hash])
      [] c.kind = "allowlist" -> Emit([kind |-> "allowlist", val |-> c.val])
      [] c.kind = "limits"    -> Emit([kind |-> "limits", val |-> c.val])

DecideKey(s, c) ==
    CASE c.kind = "create" ->
            IF s.hash # None THEN Reject("already exists")
            ELSE Emit([kind |-> "created", new |-> c.hash, home |-> c.home,
                       val |-> c.val])
      [] c.kind # "create" /\ s.hash = None -> Reject("not found")
      [] c.kind # "create" /\ s.hash # None /\ s.disabled ->
            IF c.kind = "disable" THEN Nothing ELSE Reject("disabled")
      [] OTHER -> DecideLiveKey(s, c)

EvolveKey(s, e) ==
    CASE e.kind = "created"   -> [hash |-> e.new, home |-> e.home,
                                  allow |-> e.val, limits |-> e.val,
                                  disabled |-> FALSE]
      [] e.kind = "rotated"   -> [s EXCEPT !.hash = e.new]
      [] e.kind = "disabled"  -> [s EXCEPT !.disabled = TRUE]
      [] e.kind = "allowlist" -> [s EXCEPT !.allow = e.val]
      [] e.kind = "limits"    -> [s EXCEPT !.limits = e.val]

-----------------------------------------------------------------------------
(* The alias aggregate.  A command's target is None when it has no slug;   *)
(* reserved says that its params name "model" or "stream".                 *)

NewAlias == [target |-> None, deleted |-> FALSE]

DecideAlias(s, c) ==
    CASE c.kind = "set" /\ c.target = None -> Reject("invalid target")
      [] c.kind = "set" /\ c.target # None /\ c.reserved ->
            Reject("reserved param")
      [] c.kind = "set" /\ c.target # None /\ ~c.reserved ->
            Emit([kind |-> "set", target |-> c.target])
      [] c.kind = "delete" ->
            IF s.target = None \/ s.deleted THEN Nothing
            ELSE Emit([kind |-> "deleted"])

EvolveAlias(s, e) ==
    CASE e.kind = "set"     -> [target |-> e.target, deleted |-> FALSE]
      [] e.kind = "deleted" -> [s EXCEPT !.deleted = TRUE]

-----------------------------------------------------------------------------
(* The org aggregate.  members gives a role or None, projects "live",      *)
(* "archived" or None.                                                     *)

NewOrg == [name |-> None, members |-> [m \in Subs |-> None],
           projects |-> [p \in Projects |-> None]]

Owners(s) == {m \in Subs : s.members[m] = "owner"}

\* Taking the owner role from m would leave the org without an owner.
SoleOwner(s, m) == s.members[m] = "owner" /\ Cardinality(Owners(s)) <= 1

DecideMember(s, c) ==
    CASE c.kind = "upsertMember" ->
            IF c.role \notin Roles THEN Reject("invalid role")
            ELSE IF c.role # "owner" /\ SoleOwner(s, c.sub)
                 THEN Reject("last owner")
                 ELSE Emit([kind |-> "memberUpserted", sub |-> c.sub,
                            role |-> c.role])
      [] c.kind = "removeMember" ->
            IF s.members[c.sub] = None THEN Nothing
            ELSE IF SoleOwner(s, c.sub) THEN Reject("last owner")
                 ELSE Emit([kind |-> "memberRemoved", sub |-> c.sub])

DecideProject(s, c) ==
    CASE c.kind = "createProject" ->
            IF s.projects[c.project] # None THEN Reject("already exists")
            ELSE Emit([kind |-> "projectCreated", project |-> c.project])
      [] c.kind = "archiveProject" ->
            IF s.projects[c.project] = None THEN Reject("no such project")
            ELSE IF s.projects[c.project] = "archived" THEN Nothing
                 ELSE Emit([kind |-> "projectArchived",
                            project |-> c.project])

DecideOrg(s, c) ==
    CASE c.kind = "create" ->
            IF s.name # None THEN Reject("already exists")
            ELSE Emit([kind |-> "orgCreated", name |-> c.name,
                       sub |-> c.sub])
      [] c.kind # "create" /\ s.name = None -> Reject("not found")
      [] c.kind = "rename" /\ s.name # None ->
            Emit([kind |-> "renamed", name |-> c.name])
      [] c.kind \in {"upsertMember", "removeMember"} /\ s.name # None ->
            DecideMember(s, c)
      [] c.kind \in {"createProject", "archiveProject"} /\ s.name # None ->
            DecideProject(s, c)

EvolveOrg(s, e) ==
    CASE e.kind = "orgCreated"      -> [s EXCEPT !.name = e.name,
                                           !.members[e.sub] = "owner"]
      [] e.kind = "renamed"         -> [s EXCEPT !.name = e.name]
      [] e.kind = "memberUpserted"  -> [s EXCEPT !.members[e.sub] = e.role]
      [] e.kind = "memberRemoved"   -> [s EXCEPT !.members[e.sub] = None]
      [] e.kind = "projectCreated"  -> [s EXCEPT
                                           !.projects[e.project] = "live"]
      [] e.kind = "projectArchived" -> [s EXCEPT
                                           !.projects[e.project] = "archived"]

-----------------------------------------------------------------------------
(* Loading: the fold of a stream's events.                                 *)

\* Stream (type, id): its envelopes in the log, and how many there are.
Within(e, type, id) == e.type = type /\ e.id = id
Version(log, type, id) ==
    Cardinality({i \in 1..Len(log) : Within(log[i], type, id)})

Initial(type) == CASE type = "org"    -> NewOrg
                   [] type = "apikey" -> NewKey
                   [] type = "alias"  -> NewAlias

Evolve(type, s, e) == CASE type = "org"    -> EvolveOrg(s, e)
                        [] type = "apikey" -> EvolveKey(s, e)
                        [] type = "alias"  -> EvolveAlias(s, e)

\* The states of an aggregate after each prefix of the log.
History(log, type, id) ==
    LET state[n \in 0..Len(log)] ==
            IF n = 0 THEN Initial(type)
            ELSE IF Within(log[n], type, id)
                 THEN Evolve(type, state[n - 1], log[n].event)
                 ELSE state[n - 1]
    IN  state

Load(log, type, id) == History(log, type, id)[Len(log)]

Decide(type, s, c) ==
    CASE type = "org"    -> DecideOrg(s, c)
      [] type = "apikey" -> DecideKey(s, c)
      [] type = "alias"  -> DecideAlias(s, c)

\* The envelopes a decision on stream (type, id) adds to the log.
Envelopes(type, id, d) ==
    [i \in 1..Len(d.out) |-> [type |-> type, id |-> id, event |-> d.out[i]]]

=============================================================================
