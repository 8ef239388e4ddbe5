--------------------------- MODULE IncidentService ---------------------------
(***************************************************************************)
(* OrderOpsService.create_authorized_incident and the PostgreSQL           *)
(* transactions it runs (services/orderops_service.py,                     *)
(* repositories/sqlalchemy.py, repositories/unit_of_work.py).              *)
(*                                                                         *)
(* Every call of the tool runs one unit of work: read the order, INSERT    *)
(* ... ON CONFLICT DO NOTHING, SELECT by key, add the audit, COMMIT.  The  *)
(* statements of concurrent calls interleave freely under READ COMMITTED:  *)
(* a statement sees the committed rows and those of its own transaction.   *)
(* The unique index on incidents.idempotency_key makes an INSERT wait for  *)
(* another transaction that holds an uncommitted row with the same key.    *)
(* A statement may fail, the body may be interrupted with its transaction  *)
(* still open, and the answer of an applied COMMIT may be lost.            *)
(*                                                                         *)
(* The database starts with the incidents of scripts/seed.sql: the MCP     *)
(* server waits for the seed container.  Running the script again writes   *)
(* the same incidents, and the statuses of the orders.                     *)
(*                                                                         *)
(* An operator introduced by "Mutant:" is a faulty variant of the          *)
(* definition that follows it.  No action uses it; PROJECT.json names the  *)
(* property that would notice it.                                          *)
(***************************************************************************)
CONSTANTS
    Calls,       \* calls of the tool; a call also names the uuid it draws
    Keys, Orders, Reasons,
    Users,       \* users that reach the service
    Approvers,   \* those with can_approve: active supervisors
    Proposers,   \* values of proposed_by
    Seeded,      \* the incidents of the demonstration data
    None         \* "no value"

ASSUME ApproversAssumption == Approvers \subseteq Users

Answers == {"created", "already_existed"}

Errors == {"forbidden", "order_not_found", "not_allowed", "key_conflict",
           "assertion_error", "db_error"}

ASSUME NoneAssumption == None \notin Answers \union Errors

VARIABLES
    orders,        \* status of every order (changed by other programs)
    incidents,     \* committed rows of table incidents
    audits,        \* committed rows of table action_audit
    pc,            \* where each call stands
    cmd,           \* the CreateIncidentCommand of a call, its user and proposer
    tx_incidents,  \* incident rows the call's open transaction has inserted
    tx_audits,     \* audit rows the call's open transaction has inserted
    found,         \* the incident the SELECT of create_or_get returned
    result         \* what the call returns or raises

vars == <<orders, incidents, audits, pc, cmd, tx_incidents, tx_audits, found, result>>
dbVars == <<incidents, audits>>

R == INSTANCE IncidentRegistry WITH Ids <- Calls

ASSUME SeededAssumption == R!SeededRows

Request == [idempotency_key : Keys, order_id : Orders, reason : Reasons,
            user : Users, proposed_by : Proposers]

PCs == {"idle", "read_order", "insert", "select", "add_audit", "commit",
        "exit", "done"}

Results == Answers \union Errors \union {None}

OrderStatuses == {"absent", "open", "cancelled"}

TypeOK ==
    /\ orders \in [Orders -> OrderStatuses]
    /\ incidents \subseteq R!Incident
    /\ audits \subseteq R!Audit
    /\ pc \in [Calls -> PCs]
    /\ cmd \in [Calls -> Request \union {None}]
    /\ tx_incidents \in [Calls -> SUBSET R!Incident]
    /\ tx_audits \in [Calls -> SUBSET R!Audit]
    /\ found \in [Calls -> R!Incident \union {None}]
    /\ result \in [Calls -> Results]

Init ==
    /\ orders \in [Orders -> OrderStatuses]
    /\ R!Init
    /\ pc = [c \in Calls |-> "idle"]
    /\ cmd = [c \in Calls |-> None]
    /\ tx_incidents = [c \in Calls |-> {}]
    /\ tx_audits = [c \in Calls |-> {}]
    /\ found = [c \in Calls |-> None]
    /\ result = [c \in Calls |-> None]

-----------------------------------------------------------------------------

\* Rows a statement of call c sees under READ COMMITTED.
Visible(c) == incidents \union tx_incidents[c]

\* ON CONFLICT (idempotency_key): a row with this key is already there.
KeyTaken(c) == R!WithKey(Visible(c), cmd[c].idempotency_key) # {}

\* The rows of the SELECT by key.
\* Mutant: the row is looked up by the candidate identifier.
SelectedById(c) == {r \in Visible(c) : r.incident_id = c}

Selected(c) == R!WithKey(Visible(c), cmd[c].idempotency_key)

\* stored_hash = command.request_hash().
\* Mutant: the stored hash is not compared.
HashNotCompared(c, inc) == TRUE

SameContent(c, inc) == R!SameContent(inc, cmd[c])

\* The unique index: c waits while another open transaction owns the key.
\* Mutant: incidents.idempotency_key is not declared unique.
KeyNotUnique(c) == FALSE

KeyHeldByOther(c) ==
    \E d \in Calls \ {c} :
       R!WithKey(tx_incidents[d], cmd[c].idempotency_key) # {}

\* RETURNING incident_id gave a value: this transaction inserted the row.
Created(c) == tx_incidents[c] # {}

\* Mutant: the flag returned by create_or_get is ignored.
AlwaysCreated(c) == "created"

Outcome(c) == IF Created(c) THEN "created" ELSE "already_existed"

\* Leave the body of the unit of work with a result or an exception.
Leave(c, res) ==
    /\ pc' = [pc EXCEPT ![c] = "exit"]
    /\ result' = [result EXCEPT ![c] = res]

Goto(c, from, to) == pc[c] = from /\ pc' = [pc EXCEPT ![c] = to]

-----------------------------------------------------------------------------

\* user.can_approve.
\* Mutant: the service trusts its caller.
AnyUserMayCreate(user) == user \in Users

MayCreate(user) == user \in Approvers

\* create_authorized_incident: only a supervisor opens a unit of work.
Start(c) ==
    /\ pc[c] = "idle"
    /\ \E req \in Request :
          /\ cmd' = [cmd EXCEPT ![c] = req]
          /\ IF MayCreate(req.user)
             THEN /\ pc' = [pc EXCEPT ![c] = "read_order"]
                  /\ UNCHANGED result
             ELSE /\ pc' = [pc EXCEPT ![c] = "done"]
                  /\ result' = [result EXCEPT ![c] = "forbidden"]
    /\ UNCHANGED <<orders, dbVars, tx_incidents, tx_audits, found>>

\* The order is read without a lock and its status checked.
ReadOrder(c) ==
    /\ pc[c] = "read_order"
    /\ LET status == orders[cmd[c].order_id]
       IN  \/ /\ status = "absent"
              /\ Leave(c, "order_not_found")
           \/ /\ status = "cancelled"
              /\ Leave(c, "not_allowed")
           \/ /\ status = "open"
              /\ pc' = [pc EXCEPT ![c] = "insert"]
              /\ UNCHANGED result
    /\ UNCHANGED <<orders, dbVars, cmd, tx_incidents, tx_audits, found>>

\* INSERT ... ON CONFLICT (idempotency_key) DO NOTHING.
Insert(c) ==
    /\ Goto(c, "insert", "select")
    /\ ~ KeyHeldByOther(c)
    /\ tx_incidents' =
          IF KeyTaken(c) THEN tx_incidents
          ELSE [tx_incidents EXCEPT ![c] = @ \union {R!IncidentOf(c, cmd[c])}]
    /\ UNCHANGED <<orders, dbVars, cmd, tx_audits, found, result>>

\* SELECT by key, the assertion that a row came back, the hash comparison.
Select(c) ==
    /\ pc[c] = "select"
    /\ \/ /\ Selected(c) = {}
          /\ Leave(c, "assertion_error")
          /\ UNCHANGED found
       \/ \E inc \in Selected(c) :
             /\ found' = [found EXCEPT ![c] = inc]
             /\ IF SameContent(c, inc)
                THEN /\ pc' = [pc EXCEPT ![c] = "add_audit"]
                     /\ UNCHANGED result
                ELSE Leave(c, "key_conflict")
    /\ UNCHANGED <<orders, dbVars, cmd, tx_incidents, tx_audits>>

AuditRow(c) == R!AuditOf(c, found[c], cmd[c].user, cmd[c].proposed_by, Outcome(c))

\* Mutant: the audit repository commits in a session of its own.
AddAuditOwnSession(c) ==
    /\ Goto(c, "add_audit", "commit")
    /\ audits' = audits \union {AuditRow(c)}
    /\ UNCHANGED <<orders, incidents, cmd, tx_incidents, tx_audits, found, result>>

\* audits.add flushes one audit row into the same transaction.
AddAudit(c) ==
    /\ Goto(c, "add_audit", "commit")
    /\ tx_audits' = [tx_audits EXCEPT ![c] = @ \union {AuditRow(c)}]
    /\ UNCHANGED <<orders, dbVars, cmd, tx_incidents, found, result>>

\* The server makes everything the transaction wrote visible at once ...
ApplyCommit(c) ==
    /\ incidents' = incidents \union tx_incidents[c]
    /\ audits' = audits \union tx_audits[c]
    /\ tx_incidents' = [tx_incidents EXCEPT ![c] = {}]
    /\ tx_audits' = [tx_audits EXCEPT ![c] = {}]

\* ... and the call returns the incident with already_existed = not created,
Commit(c) ==
    /\ pc[c] = "commit"
    /\ ApplyCommit(c)
    /\ Leave(c, Outcome(c))
    /\ UNCHANGED <<orders, cmd, found>>

\* ... or never learns that the COMMIT was applied.
CommitAnswerLost(c) ==
    /\ pc[c] = "commit"
    /\ ApplyCommit(c)
    /\ Leave(c, "db_error")
    /\ UNCHANGED <<orders, cmd, found>>

\* A statement or the connection fails: the server aborts the transaction.
InBody(c) == pc[c] \in {"read_order", "insert", "select", "add_audit", "commit"}

DbFailure(c) ==
    /\ InBody(c)
    /\ tx_incidents' = [tx_incidents EXCEPT ![c] = {}]
    /\ tx_audits' = [tx_audits EXCEPT ![c] = {}]
    /\ Leave(c, "db_error")
    /\ UNCHANGED <<orders, dbVars, cmd, found>>

\* The body is interrupted (cancelled request, client-side error) while the
\* server still holds the transaction open.
Interrupted(c) ==
    /\ InBody(c)
    /\ Leave(c, "db_error")
    /\ UNCHANGED <<orders, dbVars, cmd, tx_incidents, tx_audits, found>>

\* Mutant: __aexit__ does not roll back.
ExitWithoutRollback(c) ==
    /\ Goto(c, "exit", "done")
    /\ UNCHANGED <<orders, dbVars, cmd, tx_incidents, tx_audits, found, result>>

\* UnitOfWork.__aexit__: roll back what is still open, close the session.
Exit(c) ==
    /\ Goto(c, "exit", "done")
    /\ tx_incidents' = [tx_incidents EXCEPT ![c] = {}]
    /\ tx_audits' = [tx_audits EXCEPT ![c] = {}]
    /\ UNCHANGED <<orders, dbVars, cmd, found, result>>

\* The seed script, run at each start, inserts an order or overwrites its status.
OrderSeeded(o, status) ==
    /\ orders' = [orders EXCEPT ![o] = status]
    /\ UNCHANGED <<dbVars, pc, cmd, tx_incidents, tx_audits, found, result>>

\* Other programs cancel orders.
OrderCancelled(o) ==
    /\ orders[o] = "open"
    /\ orders' = [orders EXCEPT ![o] = "cancelled"]
    /\ UNCHANGED <<dbVars, pc, cmd, tx_incidents, tx_audits, found, result>>

Statement(c) == \/ ReadOrder(c) \/ Insert(c) \/ Select(c) \/ AddAudit(c)
                \/ Commit(c) \/ Exit(c)

CallStep(c) == Statement(c) \/ CommitAnswerLost(c) \/ DbFailure(c) \/ Interrupted(c)

Next == \/ \E c \in Calls : Start(c) \/ CallStep(c)
        \/ \E o \in Orders : \/ OrderCancelled(o)
                             \/ \E status \in OrderStatuses \ {"absent"} : OrderSeeded(o, status)

\* A started call keeps running: the event loop and PostgreSQL serve it.  No
\* failure has to happen: an insert that waits is not rescued by a timeout.
Fairness == \A c \in Calls : WF_vars(Statement(c))

Spec == Init /\ [][Next]_vars
FairSpec == Spec /\ Fairness

-----------------------------------------------------------------------------
(* Properties *)

\* One idempotency key names at most one incident, whatever the calls that
\* race on it (repositories/sqlalchemy.py:155-169, db/models.py:425-429).
OneIncidentPerKey ==
    \A r, s \in incidents : r.idempotency_key = s.idempotency_key => r = s

\* The assertion of repositories/sqlalchemy.py:174 cannot fail: after the
\* upsert has inserted or skipped, the SELECT by key finds a row, even when
\* the row that caused the conflict was written by a concurrent transaction.
AssertionHolds == \A c \in Calls : result[c] # "assertion_error"

\* An incident and its audit are stored in one transaction (README): at every
\* instant each incident that a call has stored has exactly one "created" audit,
\* and each audit entry talks about such an incident, with the same key and order.
\* The seeded incidents stay as they are and are never audited: no call creates
\* them or gets them as the answer to its own content.
AuditMatchesIncidents ==
    /\ Seeded \subseteq incidents
    /\ \A inc \in incidents \ Seeded :
          \E a \in audits :
             /\ a.outcome = "created" /\ a.entity_id = inc.incident_id
             /\ \A b \in audits : b.outcome = "created"
                     /\ b.entity_id = inc.incident_id => b = a
    /\ \A a \in audits :
          \E inc \in incidents \ Seeded :
             /\ inc.incident_id = a.entity_id
             /\ inc.idempotency_key = a.idempotency_key
             /\ inc.order_id = a.order_id

\* What a call answers is what is stored: "created" and "already_existed" come
\* with a committed incident of the same content and the audit of that outcome,
\* a creation is answered "created" to the call that made it only, and a key
\* conflict is reported only when another content really is stored.
TruthfulAnswer ==
    \A c \in Calls :
       LET stored == R!WithKey(incidents, cmd[c].idempotency_key)
       IN  /\ result[c] \in Answers =>
                 /\ \E inc \in stored :
                       /\ R!SameContent(inc, cmd[c])
                       /\ (result[c] = "created") <=> (inc.incident_id = c)
                 /\ \E a \in audits :
                       a.id = c /\ a.outcome = result[c] /\ a.actor = cmd[c].user
           /\ result[c] = "key_conflict" =>
                 \E inc \in stored : ~ R!SameContent(inc, cmd[c])

\* Every call that opens a unit of work ends, also when it had to wait for
\* another transaction holding its key.
CallEnds == \A c \in Calls : (pc[c] = "read_order") ~> (pc[c] = "done")

\* The transactions implement the registry: each committed step is one
\* atomic CreateOrGet, everything else is invisible.
RegistrySpec == R!Spec

-----------------------------------------------------------------------------
(* Statements of the documentation *)

\* README.md:351: "avec la meme cle et le meme contenu metier, le service
\* retourne l'incident existant".  A replay is never refused because of the
\* present status of its order.
ReplayReturnsExisting ==
    [][\A c \in Calls :
          (pc[c] = "read_order" /\ result'[c] \in {"not_allowed", "order_not_found"})
             => ~ \E inc \in R!WithKey(incidents, cmd[c].idempotency_key) :
                     R!SameContent(inc, cmd[c])]_vars
=============================================================================
