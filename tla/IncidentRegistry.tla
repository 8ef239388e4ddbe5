-------------------------- MODULE IncidentRegistry --------------------------
(***************************************************************************)
(* What the incident service promises to the rest of OrderOps, with no     *)
(* transaction, connection or lock in sight: a registry in which one       *)
(* idempotency key names at most one incident for ever, every accepted     *)
(* call leaves exactly one audit entry, and both appear in the same step.  *)
(* It starts with the incidents of the demonstration data, whose rows      *)
(* scripts/seed.sql writes before any call, without audit.                 *)
(*                                                                         *)
(* IncidentService implements this module on PostgreSQL transactions;      *)
(* ConversationApi uses CreateOrGet as the effect of an authorized MCP     *)
(* tool call.                                                              *)
(***************************************************************************)
CONSTANTS
    Ids,         \* identifiers of incidents and of audit entries (uuid4, Identity())
    Keys,        \* idempotency keys
    Orders,      \* order identifiers
    Reasons,     \* normalized reasons
    Approvers,   \* users that may be the actor of a creation
    Proposers,   \* users, or the absence of one, recorded as proposed_by
    Seeded       \* the incidents that scripts/seed.sql stores

VARIABLES
    incidents,   \* the rows of table incidents
    audits       \* the rows of table action_audit

registryVars == <<incidents, audits>>

Command == [idempotency_key : Keys, order_id : Orders, reason : Reasons]

Incident == Seeded \union [incident_id : Ids, idempotency_key : Keys,
                           order_id : Orders, reason : Reasons]

Audit == [id : Ids, entity_id : Ids, actor : Approvers, proposed_by : Proposers,
          outcome : {"created", "already_existed"},
          order_id : Orders, idempotency_key : Keys]

\* The seed script uses each key once, and identifiers no call draws.
SeededRows ==
    /\ \A r \in Seeded : r.incident_id \notin Ids
    /\ \A r, s \in Seeded : r.idempotency_key = s.idempotency_key => r = s

\* The stored request_hash is the command's: SHA-256 of the business content, taken
\* to be injective on it.  A seeded row has a constant that is no command's hash.
SameContent(row, cmd) ==
    /\ row \notin Seeded
    /\ row.order_id = cmd.order_id /\ row.reason = cmd.reason

IncidentOf(id, cmd) ==
    [incident_id |-> id, idempotency_key |-> cmd.idempotency_key,
     order_id |-> cmd.order_id, reason |-> cmd.reason]

AuditOf(id, inc, actor, proposer, outcome) ==
    [id |-> id, entity_id |-> inc.incident_id, actor |-> actor,
     proposed_by |-> proposer, outcome |-> outcome,
     order_id |-> inc.order_id, idempotency_key |-> inc.idempotency_key]

WithKey(rows, key) == {r \in rows : r.idempotency_key = key}

-----------------------------------------------------------------------------

\* The key is new: the incident and its "created" audit appear together.
Create(id, cmd, actor, proposer) ==
    /\ WithKey(incidents, cmd.idempotency_key) = {}
    /\ incidents' = incidents \union {IncidentOf(id, cmd)}
    /\ audits' = audits \union
          {AuditOf(id, IncidentOf(id, cmd), actor, proposer, "created")}

\* The key is known with the same content: only the audit grows.
Replay(id, cmd, actor, proposer) ==
    \E inc \in WithKey(incidents, cmd.idempotency_key) :
       /\ SameContent(inc, cmd)
       /\ audits' = audits \union {AuditOf(id, inc, actor, proposer, "already_existed")}
       /\ UNCHANGED incidents

CreateOrGet(id, cmd, actor, proposer) ==
    /\ \A a \in audits : a.id # id
    /\ \A inc \in incidents : inc.incident_id # id
    /\ Create(id, cmd, actor, proposer) \/ Replay(id, cmd, actor, proposer)

Init == incidents = Seeded /\ audits = {}

Next == \E id \in Ids, cmd \in Command, actor \in Approvers, proposer \in Proposers :
           CreateOrGet(id, cmd, actor, proposer)

Spec == Init /\ [][Next]_registryVars
=============================================================================
