------------------------------ MODULE Migrations ------------------------------
(***************************************************************************)
(* The schema of the database and its Alembic revisions                    *)
(* (migrations/versions), run by migrations/env.py in one transaction.     *)
(*                                                                         *)
(* An object is a table or the extension vector; it needs the objects its  *)
(* foreign keys or column types refer to.  PostgreSQL refuses to create an *)
(* object without what it needs and to drop one that others need.          *)
(* LangGraph and langchain-postgres keep tables of their own beside them.  *)
(***************************************************************************)
EXTENDS Sequences, Naturals

CONSTANT None

VARIABLES
    db,   \* what is committed: objects, Alembic revision, seeded or not
    tx    \* the migration in progress: its view of db, what it has done, its goal

\* 17886d3105c6, 6b3a9d2f47c1 and 927fc453bb12, in the order of upgrade() ...
BusinessTables ==
    <<"action_audit", "customers", "products", "security_events", "inventory",
      "orders", "deliveries", "incidents", "order_items">>

VectorExtension == <<"vector">>

ProfileTables == <<"roles", "users", "user_roles", "conversations">>

Created == <<BusinessTables, VectorExtension, ProfileTables>>

\* ... and of downgrade().
\* Mutant: tables are dropped in the order in which they are created.
DroppedAsCreated == Created

Dropped ==
    << <<"order_items", "incidents", "deliveries", "orders", "inventory",
         "security_events", "products", "customers", "action_audit">>,
       <<"vector">>,
       <<"conversations", "user_roles", "users", "roles">> >>

Base == 0
HeadRevision == Len(Created)

CheckpointTables == {"checkpoints", "checkpoint_writes"}
VectorTables == {"langchain_pg_collection", "langchain_pg_embedding"}

\* include_name: what autogenerate does not compare.
EXTERNALLY_MANAGED == CheckpointTables \union VectorTables

Elements(seq) == {seq[i] : i \in DOMAIN seq}

Needs(object) ==
    CASE object = "inventory" -> {"products"}
      [] object = "orders" -> {"customers"}
      [] object \in {"deliveries", "incidents"} -> {"orders"}
      [] object = "order_items" -> {"orders", "products"}
      [] object = "user_roles" -> {"users", "roles"}
      [] object = "conversations" -> {"users"}
      [] object = "langchain_pg_embedding" -> {"vector", "langchain_pg_collection"}
      [] OTHER -> {}

\* Base.metadata: the tables of db/models.py.
ModelTables ==
    {"roles", "users", "user_roles", "conversations", "customers", "products",
     "inventory", "orders", "order_items", "deliveries", "incidents",
     "action_audit", "security_events"}

\* What the upgrades up to r have created.
RevisionObjects(r) == UNION {Elements(Created[i]) : i \in 1 .. r}

Empty == [objects |-> {}, revision |-> Base, seeded |-> FALSE]

-----------------------------------------------------------------------------
(* One run of alembic *)

BeginMigration(goal) ==
    /\ tx = None
    /\ tx' = [view |-> db, done |-> 0, goal |-> goal]
    /\ UNCHANGED db

Upgrading == tx.view.revision < tx.goal
Downgrading == tx.view.revision > tx.goal

\* The operations of the revision being applied or undone.
Operations == IF Upgrading THEN Created[tx.view.revision + 1] ELSE Dropped[tx.view.revision]

Object == Operations[tx.done + 1]

InRevision == tx # None /\ (Upgrading \/ Downgrading) /\ tx.done < Len(Operations)

\* The extension is created if not exists and dropped if exists.
Possible ==
    LET objects == tx.view.objects
        lenient == Object \in Elements(VectorExtension)
    IN  IF Upgrading
        THEN (lenient \/ Object \notin objects) /\ Needs(Object) \subseteq objects
        ELSE (lenient \/ Object \in objects) /\ \A o \in objects : Object \notin Needs(o)

\* Mutant: without context.begin_transaction every statement is committed.
AutoCommit(view) == db' = view

Uncommitted(view) == UNCHANGED db

\* Dropping the orders drops the demonstration data with them.
Applied(view) ==
    [view EXCEPT !.objects = IF Upgrading THEN @ \union {Object} ELSE @ \ {Object},
                 !.seeded = @ /\ (Upgrading \/ Object # "orders")]

Operation ==
    /\ InRevision /\ Possible
    /\ tx' = [tx EXCEPT !.view = Applied(@), !.done = @ + 1]
    /\ Uncommitted(tx'.view)

\* Mutant: a revision names the one before its predecessor as down_revision.
Skipping(r) == IF Upgrading THEN r + 2 ELSE r - 2

Following(r) == IF Upgrading THEN r + 1 ELSE r - 1

\* The version table is updated in the same transaction.
Stamp ==
    /\ tx # None /\ (Upgrading \/ Downgrading) /\ tx.done = Len(Operations)
    /\ tx' = [tx EXCEPT !.view.revision = Following(@), !.done = 0]
    /\ UNCHANGED db

CommitMigration ==
    /\ tx # None /\ ~ Upgrading /\ ~ Downgrading
    /\ db' = tx.view
    /\ tx' = None

\* PostgreSQL refuses the operation: alembic exits with an error.
MigrationRefused ==
    /\ InRevision /\ ~ Possible
    /\ tx' = None
    /\ UNCHANGED db

MigrationStep == Operation \/ Stamp

-----------------------------------------------------------------------------
(* Properties *)

\* Whenever a migration stops - process killed, database restarted, operation
\* refused - the committed schema is exactly that of the revision it says, so
\* that the next run can go on from there (migrations/env.py:138-146); and the
\* head is the schema of db/models.py: Alembic's comparison, which leaves the
\* libraries' tables out, finds no difference (migrations/env.py:79-89).
SchemaIsItsRevision ==
    LET compared == db.objects \ EXTERNALLY_MANAGED
    IN  /\ compared = RevisionObjects(db.revision)
        /\ db.revision = HeadRevision => compared = ModelTables \union {"vector"}

\* PostgreSQL refuses no migration, upward or downward, from any revision and
\* beside the tables of the libraries, save that the extension cannot be
\* dropped once procedures have been ingested.
MigrationsRunThrough ==
    InRevision /\ ~ Possible =>
       /\ Object = "vector"
       /\ Downgrading /\ "langchain_pg_embedding" \in db.objects
=============================================================================
