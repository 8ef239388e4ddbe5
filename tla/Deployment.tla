------------------------------ MODULE Deployment ------------------------------
(***************************************************************************)
(* Starting OrderOps (compose.yaml): one-shot tasks prepare the database,  *)
(* servers start after what they depend on.  The volume outlives the       *)
(* containers, so that every start finds what earlier ones, complete or    *)
(* not, have left behind; README.md:634 tells the operator to repeat       *)
(* "docker compose up" after a failure.                                    *)
(*                                                                         *)
(* An operator introduced by "Mutant:" is a faulty variant of the          *)
(* definition that follows it; no action uses it.                          *)
(***************************************************************************)
EXTENDS Migrations, ProcedureStore

CONSTANT MaxFaults  \* bounds failures, stops and downgrades together

ASSUME BoundsAssumption == MaxFaults \in Nat /\ MaxEdits \in Nat

VARIABLES
    status,    \* of every container
    allowed,   \* settings: demo_mode, and app_env is not production
    faults

vars == <<db, tx, procedureVars, status, allowed, faults>>

Tasks == {"migrate", "seed", "checkpointer-setup", "ingest"}
Servers == {"postgres", "mcp", "api", "ui"}
Services == Tasks \union Servers

TypeOK ==
    /\ db.objects \subseteq ModelTables \union {"vector"} \union EXTERNALLY_MANAGED
    /\ db.revision \in Base .. HeadRevision /\ db.seeded \in BOOLEAN
    /\ tx # None => {tx.goal, tx.view.revision} \subseteq Base .. HeadRevision
    /\ \A s \in Tasks : status[s] \in {"absent", "created", "running", "done", "failed"}
    /\ \A s \in Servers : status[s] \in {"absent", "created", "running", "healthy", "failed"}
    /\ files \in [Names -> Texts \union {Nil}]
    /\ ingestion # Nil => ingestion.unread \subseteq Names
    /\ allowed \in BOOLEAN
    /\ faults \in 0 .. MaxFaults

\* A new volume, or that of an installation of an earlier revision, which may
\* have been used.
Volumes ==
    {Empty} \union
    {[objects |-> RevisionObjects(r) \union libraries, revision |-> r, seeded |-> TRUE] :
       r \in 2 .. HeadRevision, libraries \in {{}, EXTERNALLY_MANAGED}}

Init ==
    /\ db \in Volumes /\ tx = None
    /\ ProcedureInit
    /\ status = [s \in Services |-> "absent"]
    /\ allowed \in BOOLEAN
    /\ faults = 0

-----------------------------------------------------------------------------
(* Containers *)

\* depends_on; a task must have completed successfully, a server be healthy.
\* Mutant: the API is started beside the preparation of the checkpoints.
WithoutCheckpointer(s) ==
    CASE s = "migrate" -> {"postgres"}
      [] s \in {"seed", "checkpointer-setup", "ingest"} -> {"migrate"}
      [] s = "mcp" -> {"seed"}
      [] s = "api" -> {"mcp", "ingest"}
      [] s = "ui" -> {"api"}
      [] OTHER -> {}

DependsOn(s) ==
    CASE s = "migrate" -> {"postgres"}
      [] s \in {"seed", "checkpointer-setup", "ingest"} -> {"migrate"}
      [] s = "mcp" -> {"seed"}
      [] s = "api" -> {"mcp", "ingest", "checkpointer-setup"}
      [] s = "ui" -> {"api"}
      [] OTHER -> {}

Satisfied(d) == status[d] = IF d \in Tasks THEN "done" ELSE "healthy"

Startable(s) == status[s] = "created" /\ \A d \in DependsOn(s) : Satisfied(d)

Working == \E s \in Services : Startable(s) \/ status[s] = "running"

Becomes(s, state) == status' = [status EXCEPT ![s] = state]

storage == <<db, tx, procedureVars>>

\* docker compose up: whatever does not run is to be started, tasks that have
\* completed included.
Up ==
    /\ ~ Working /\ tx = None
    /\ status' = [s \in Services |->
          IF status[s] = "healthy" THEN "healthy" ELSE "created"]
    /\ UNCHANGED <<storage, allowed, faults>>

StartContainer(s) ==
    /\ Startable(s)
    /\ Becomes(s, "running")
    /\ UNCHANGED <<storage, allowed, faults>>

-----------------------------------------------------------------------------
(* What the containers do *)

DatabaseUp == status["postgres"] = "healthy"

\* What the lifespan of the API needs: settings, the MCP server and its tools.
Starts(s) ==
    CASE s = "api" -> allowed /\ DatabaseUp /\ status["mcp"] = "healthy"
      [] OTHER -> TRUE

ServerStarts(s) ==
    /\ s \in Servers /\ status[s] = "running"
    /\ Becomes(s, IF Starts(s) THEN "healthy" ELSE "failed")
    /\ UNCHANGED <<storage, allowed, faults>>

Runs(task) == status[task] = "running" /\ DatabaseUp

\* alembic upgrade head.
StartMigration ==
    /\ Runs("migrate") /\ BeginMigration(HeadRevision)
    /\ UNCHANGED <<procedureVars, status, allowed, faults>>

Migrate ==
    /\ MigrationStep
    /\ UNCHANGED <<procedureVars, status, allowed, faults>>

\* The migration belongs to the task, or to a downgrade typed by hand.
MigrationEnds(state) ==
    /\ status' = IF status["migrate"] = "running"
                 THEN [status EXCEPT !["migrate"] = state] ELSE status
    /\ UNCHANGED <<procedureVars, allowed, faults>>

\* A statement on a table that is not there fails.
FindsTables(tables) == tables \subseteq db.objects

\* Mutant: without ON CONFLICT a second run fails.
SeedOnce == IF db.seeded THEN "failed" ELSE "done"

\* The script is one transaction and overwrites its own rows.
SeedResult == IF FindsTables({"orders", "order_items", "incidents"}) THEN "done" ELSE "failed"

Seed ==
    /\ Runs("seed")
    /\ Becomes("seed", SeedResult)
    /\ db' = [db EXCEPT !.seeded = @ \/ SeedResult = "done"]
    /\ UNCHANGED <<tx, procedureVars, allowed, faults>>

\* AsyncPostgresSaver.setup: each missing table in a transaction of its own.
SetupCheckpoints ==
    /\ Runs("checkpointer-setup")
    /\ IF FindsTables(CheckpointTables)
       THEN Becomes("checkpointer-setup", "done") /\ UNCHANGED db
       ELSE /\ \E t \in CheckpointTables \ db.objects :
                  db' = [db EXCEPT !.objects = @ \union {t}]
            /\ UNCHANGED status
    /\ UNCHANGED <<tx, procedureVars, allowed, faults>>

Ingest ==
    /\ Runs("ingest")
    /\ StartIngestion \/ \E name \in Names : ReadFile(name)
    /\ UNCHANGED <<db, tx, status, allowed, faults>>

\* The store is used, and its tables are created, only if there is a document.
FinishIngestion ==
    /\ Runs("ingest") /\ AddDocuments
    /\ IF ingestion.loaded = {} THEN UNCHANGED db
       ELSE /\ FindsTables({"vector"})
            /\ db' = [db EXCEPT !.objects = @ \union VectorTables]
    /\ Becomes("ingest", "done")
    /\ UNCHANGED <<tx, allowed, faults>>

IngestionRaises ==
    /\ Runs("ingest") /\ FileGone
    /\ AbandonIngestion
    /\ Becomes("ingest", "failed")
    /\ UNCHANGED <<db, tx, allowed, faults>>

-----------------------------------------------------------------------------
(* The operator, and faults *)

EditFile ==
    /\ \E name \in Names : Edit(name)
    /\ UNCHANGED <<db, tx, status, allowed, faults>>

\* alembic downgrade, while nothing else uses the database.
Downgrade ==
    /\ ~ Working /\ DatabaseUp
    /\ \A s \in {"mcp", "api"} : status[s] # "healthy"
    /\ faults < MaxFaults /\ faults' = faults + 1
    /\ \E goal \in Base .. db.revision - 1 : BeginMigration(goal)
    /\ UNCHANGED <<procedureVars, status, allowed>>

\* What a container that stops leaves undone.
Stops(ss) ==
    /\ faults < MaxFaults /\ faults' = faults + 1
    /\ IF "migrate" \in ss \/ "postgres" \in ss THEN tx' = None ELSE UNCHANGED tx
    /\ IF "ingest" \in ss THEN AbandonIngestion ELSE UNCHANGED procedureVars
    /\ UNCHANGED <<db, allowed>>

\* A task fails (the embeddings of Mistral among others), a server dies.
Fails(s) ==
    /\ s # "postgres"
    /\ status[s] = IF s \in Tasks THEN "running" ELSE "healthy"
    /\ Becomes(s, "failed")
    /\ Stops({s})

\* restart: unless-stopped; the tasks lose their connections.
PostgresRestarts ==
    LET lost == {s \in Tasks : status[s] = "running"}
    IN  /\ DatabaseUp
        /\ status' = [s \in Services |->
              IF s = "postgres" THEN "running" ELSE IF s \in lost THEN "failed" ELSE status[s]]
        /\ Stops(lost \union {"postgres"})

\* docker compose down: the volume stays.
Down ==
    /\ \E s \in Services : status[s] # "absent"
    /\ status' = [s \in Services |-> "absent"]
    /\ Stops(Services)

-----------------------------------------------------------------------------

ServiceStep ==
    \/ \E s \in Services : StartContainer(s) \/ ServerStarts(s)
    \/ StartMigration \/ Migrate
    \/ CommitMigration /\ MigrationEnds("done")
    \/ MigrationRefused /\ MigrationEnds("failed")
    \/ Seed \/ SetupCheckpoints
    \/ Ingest \/ FinishIngestion \/ IngestionRaises

Next ==
    \/ Up \/ ServiceStep
    \/ EditFile \/ Downgrade
    \/ \E s \in Services : Fails(s)
    \/ PostgresRestarts \/ Down

\* Containers do their work, and the operator repeats "up" as README.md says.
Fairness == WF_vars(ServiceStep) /\ WF_vars(Up)

Spec == Init /\ [][Next]_vars
FairSpec == Spec /\ Fairness

-----------------------------------------------------------------------------
(* Properties *)

\* The MCP server and the API only serve on a database prepared for them: the
\* tables of the head revision with the demonstration data, and for the API the
\* checkpoint tables, whatever failed, was stopped or was downgraded before
\* (compose.yaml:46-161).
ServersFindTheirTables ==
    /\ status["mcp"] = "healthy" => db.revision = HeadRevision /\ db.seeded
    /\ status["api"] = "healthy" => FindsTables(CheckpointTables)

\* Tasks can be repeated: after the last failure, stop or downgrade, repeating
\* "up" leads to a page that is served and stays so, on whatever earlier runs
\* have left behind (README.md:123-128, 634; "idempotent" in scripts/seed.sql:30).
EventuallyServed == allowed => <>[](status["ui"] = "healthy")
=============================================================================
