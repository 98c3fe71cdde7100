---------------------------- MODULE MCControlPlane ----------------------------
(***************************************************************************)
(* The model-checking instance of ControlPlane: what the members of an org *)
(* may do to each other, to a key and to an alias.                         *)
(***************************************************************************)
EXTENDS ControlPlane

CONSTANTS s1, s2, p1, k1, a1, a2

\* To all that is checked here a new name is an org event like any other, and
\* an allowlist what limits are.
Sends ==
    {createOrg(Platform, "n", s1),
     upsertMember(s1, s2, "owner"), upsertMember(s2, s1, "viewer"),
     removeMember(s1, s2), removeMember(s2, s1),
     createProject(s1, p1), archiveProject(s1, p1),
     createKey(s1, k1, p1, None), rotateKey(s1, k1), disableKey(s2, k1),
     setLimits(s1, k1, "v"),
     setAlias(Platform, a2, "t", FALSE), deleteAlias(s1, a1)}

Envelope(type, id, event) == [type |-> type, id |-> id, event |-> event]
Founded == <<Envelope("org", OrgId, [kind |-> "orgCreated", name |-> "n",
                                     sub |-> s1])>>
Shared == Founded \o <<Envelope("org", OrgId,
             [kind |-> "memberUpserted", sub |-> s2, role |-> "owner"])>>
Working == Founded \o
    <<Envelope("org", OrgId, [kind |-> "projectCreated", project |-> p1]),
      Envelope("alias", a1, [kind |-> "set", target |-> "t"])>>
Keyed == Working \o
    <<Envelope("apikey", k1, [kind |-> "created", new |-> 1, home |-> p1,
                              val |-> None])>>

Logs == {<< >>, Shared, Working, Keyed}

=============================================================================
