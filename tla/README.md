# OrderOps: a formal model of the incident workflow

OrderOps is an assistant for sales administration and after-sales support. A language model
answers questions about orders and may *propose* an incident; a supervisor approves or rejects
the proposal; an approved proposal is written once, with an audit entry. The code that makes
this true is spread over a FastAPI process, a LangGraph agent with persisted checkpoints, an MCP
server and PostgreSQL, and no transaction spans them. This directory models that path, the page
in front of it and the deployment below it in TLA+, checks them with TLC and proves the parts that
matter most with TLAPS.

Paths below are relative to `src/src/orderops/`; the project's own documentation is
`src/README.md` and `src/docs/architecture.md`.

## 1. Inventory

| Component | State it keeps | Operations | Model |
|---|---|---|---|
| Incident service (`services/`, `repositories/sqlalchemy.py`, `repositories/unit_of_work.py`) | tables `incidents`, `action_audit`; one transaction per call | `create_authorized_incident`, four lookups | `IncidentRegistry`, `IncidentService` (lookups not modelled) |
| Incident command (`domain/models.py`) | none | validation, normalization and hash of a request | `IncidentCommand` |
| Access rules (`access.py`) | none; role and `active` are read from `users` | `can_propose`, `can_approve`, `can_read_conversation`, `can_decide` | `Access` |
| Conversation API (`api/main.py`, `repositories/conversations.py`) | table `conversations`, the in-memory lock of each thread | new conversation, chat, decision, deletion; history, lists | `ConversationApi`, abstractly `ProposalLifecycle`; history and lists in `UiSession` |
| Agent (`agent/factory.py`) | LangGraph checkpoints: messages, interrupted tool calls | run, interruption before `create_incident`, resumption, tool interceptor | `ConversationApi`; the language model is the environment |
| MCP server (`mcp/`) | the calls it is serving | authorize, then execute, `create_incident`; read tools | `ConversationApi` (read tools not modelled) |
| Streamlit UI (`ui/app.py`) | selected profile, chat, deletion target, next thread | message, decision, two-step deletion | `UiSession` |
| RAG (`rag/`, `scripts/ingest_procedures.py`) | vector store of approved procedures | ingest, search | `ProcedureStore` |
| Schema (`db/models.py`, `migrations/`) | tables, unique keys, CHECK constraints, Alembic revision | upgrade, downgrade | `Migrations`; constraints appear where they act |
| Configuration and startup (`config.py`, `compose.yaml`, `scripts/`) | containers, the database volume | tasks and servers, repeated starts | `Deployment` |
| Evaluation (`evaluation.py`, `scripts/run_evals.py`) | none | `load_evaluation_cases`, `observe_agent_run`, `assess_case`, exit code | `Evaluation` |
| Notebooks | none | exercises | not modelled |

How they interact: the UI calls the API over HTTP and gives up after 90 seconds. A handler that
changes a conversation takes the lock of its thread (`asyncio.Lock`, first come first served,
one dictionary per process), reads the row of `conversations` and the checkpoint, runs the
agent, and copies the interrupted actions of the checkpoint into the row (`save_state`). The
agent calls the MCP server over HTTP with trusted headers: user, thread and "approved". The MCP
server reads user and conversation again, compares the call with `pending_actions` and only then
runs the service. It takes no lock of the API and knows nothing of checkpoints.

What is hard here:

- **Interleaving.** Several transactions race on one idempotency key; several requests wait for
  one conversation; tool calls run in another process, beside deletions and decisions.
- **Failure between stores.** Checkpoint, metadata and incident are written one after the other.
  A crash, a failed `save_state` or a lost COMMIT answer leaves any prefix of that sequence.
- **Retries.** A decision that failed is given again, a creation is repeated with the same key,
  a call the API no longer waits for is still served.
- **Stale reads.** The order status is read without a lock, the user before the lock is granted,
  the authorization one transaction before the write; the page acts on what it fetched before other
  sessions went on, and can be clicked while a run that will replace it still waits for an answer.
- **Repeated starts.** Migrations, seeding, checkpoint tables and ingestion run again at each start, on
  whatever an earlier start, complete or not, has left in the volume.

What makes each part correct:

- *Service*: one key names one incident for ever; an incident that a call stores and its "created"
  audit exist together or not at all, and the seeded incidents stay as they are; the answer agrees with what is stored; the assertion after the upsert never fires;
  a call that waited for another transaction ends.
- *Command*: normalization gives a normal form; equal hashes mean equal words.
- *API and agent*: metadata and checkpoint agree when nothing has failed; a checkpoint never
  outlives its conversation; only a decision or a deletion settles a proposal; readers only read;
  every request ends.
- *MCP server with all the rest*: each audited write goes back to a supervisor who approved
  exactly that command in a conversation he may decide.
- *UI*: a click acts on a chat that was on the screen; a deletion was asked for and confirmed in
  one visit; a decision is offered only where one is possible; a page always comes back.
- *Procedures*: no part of a text with a suspicious pattern is ever found; every clean procedure is
  found whole.
- *Startup*: the schema is that of its revision after any interruption; no server starts on tables
  that are missing; repeating the start ends with a served page.
- *Evaluation*: exit code 0 exactly if every case did what it should; an agent that lost its pause
  is caught.

## 2. Modules and how they correspond to the code

`IncidentRegistry` is the abstract specification: two sets, `incidents` and `audits`, and one
atomic action `CreateOrGet`. It is the promise `create_incident` makes to its callers. The table starts
with the incidents of `scripts/seed.sql` (`Seeded`), which are there before the MCP server starts and
have no audit. Their `request_hash` is a constant that is no command's, so `SameContent` never holds of
them: a call with a seeded key gets a key conflict.

`IncidentService` is the implementation on PostgreSQL transactions. Each element of `Calls` is
one call of the tool and also the identifier it draws. `pc` follows `create_incident` statement by
statement: `ReadOrder`, `Insert` (`ON CONFLICT DO NOTHING`), `Select`, `AddAudit`, `Commit`,
`Exit` (`__aexit__`). A statement sees the committed rows and those of its own transaction
(READ COMMITTED); the unique index makes an insert wait while another open transaction holds the
key (`KeyHeldByOther`). `DbFailure` aborts the transaction at any statement; `Interrupted` leaves
the body with the transaction still open, which only `Exit` rolls back; `CommitAnswerLost` applies
the COMMIT and reports an error. The seed script, repeated at each start, inserts orders or overwrites their
status (`OrderSeeded`); other programs may cancel them (`OrderCancelled`). `Init` is the seeded
database with no call yet.

`IncidentCommand` takes a text as a sequence of a blank and letters. `Split`, `Join`,
`NormalizeReason` and `Accepted` follow the validators; SHA-256 is taken to be injective. `Split`
and `Join` are the last values of recursive functions, over the first n characters (`SplitUpTo`) and the
first n words (`JoinUpTo`). The reference `Words` needs no recursion: a word begins behind a blank,
and the number of words begun so far says to which word a character belongs. Two
texts are typed one character at a time, so that the state space is the set of all pairs.

`Evaluation` takes a run of the agent as the sequence of its AI and tool messages, the pauses and
the calls planned but not executed. `assess_case` and `observe_agent_run` are the functions of the
code; the agent may do anything, also execute `create_incident` without a pause or raise.
`MCFunctions` runs both modules, which share nothing, side by side.

`Access` holds the permission rules used by both processes.

`ConversationApi` composes API, agent, checkpoints and MCP server:

| Model | Code |
|---|---|
| `conversations[t]` | row of table `conversations` (`None` before creation and after deletion) |
| `checkpoints[t]` | LangGraph state of the thread, reduced to its interrupted actions |
| `queue[t]` | the `asyncio.Lock` of the thread: holder first, then the waiters in order |
| `pc`, `job`, `todo` | position of a request in its handler; user and thread; approved calls not sent yet |
| `mcp[k]` | a `create_incident` call in the MCP server, before or after `authorize_mcp_call` |
| `Arrive`, `Refuse`, `StartChat`, `Resync`, `NothingToDecide`, `Resume`, `SaveSnapshot` | `chat` and `decide` up to each `await` that another process can observe |
| `DeleteCheckpoint`, `DeleteMetadata` | `delete_conversation` |
| `SendTool`, `ToolForbidden` | the tool interceptor `authorize_tool` |
| `RunReturns`, `RunRaises`, `PersistResume`, `ToolTimeout` | the ways an agent run writes checkpoints, ends, or abandons tool calls |
| `Authorize`, `Execute`, `BusinessRefusal` | `authorize_mcp_call`, then the service; `Execute` is `IncidentRegistry!CreateOrGet` |
| `StoreFails`, `ApiCrash`, `Deactivate` | a failing statement, an API restart, an administrator |

`ProposalLifecycle` is what this promises without requests, stores or locks: a proposal is pending
until an entitled supervisor decides or its owner deletes the conversation, and a write is a
`CreateOrGet` of an approved command. `ConversationApi!LifecycleSpec` instantiates it with
`Owner` (of the rows), `checkpoints` and `BeingDecided` (a resumed run is going on).

`approvals` and `decider` are history variables: they record who decided what and are read only
by properties. An agent may answer, raise, or propose any set of commands (a set: identical
calls in one message are one element); a resumed run may propose again. Whether a failing tool
ends the run or becomes an error message is left open, because it is decided outside the
repository; a run that abandons calls still being served counts as a fault.

`UiSession` puts browser sessions in front of the lifecycle, which serves as the API behind one
first-come-first-served lock per thread. Each click runs the whole script. Until the run draws
its own page the old one stays on the screen and can be clicked; Streamlit then stops the run where it
waits and starts another:

| Model | Code |
|---|---|
| `ui[s].user`, `choice`, `next`, `target` | session state `active_user_id`, `chat_choice`, `next_thread`, `delete_target` |
| `ui[s].page`, `click` | what is on the screen, also while a run is in progress; the widget that reruns the script |
| `ui[s].box` | `chat_choice` as the browser has it: the value a new run starts with, whatever the run it stops has set |
| `ui[s].saved`, `options` | the answer of `GET /conversations` until that of `GET /approvals` is there; the chats offered by the selectbox |
| `FetchSaved`, `FetchApprovals`, `FetchRow`, `AnswerHistory` | the calls at the start of each run of the script; the history handler reads the row, waits for the lock, reads the checkpoint |
| `SelectProfile`, `NewChat`, `ChooseChat`, `Press` | the user, at any time: each is an `Acts`, which stops a run in progress and leaves its request in the API without anybody to answer (`Abandoned`) |
| `SendMessage`, `StartNewChat`, `ChatCreated`, `SendFirstMessage`, `Decide`, `AskDeletion`, `ConfirmDeletion`, `CancelDeletion`, `Display` | the rest of the script |
| `StartRun`, `EndChat`, `EndDecision`, `EndDeletion`, `Refuse` | the handlers of the API, each a lifecycle action with `save_state` |
| `GiveUp` | `httpx` times out, or the request never arrives; the API goes on |

The buttons and the message box have no key of their own for each chat (`ui/app.py:169`, `:197-198`): the
next run learns from `Press` only which kind of widget was used, and handles it for the chat that is selected
by then. Only calls take time; what the script does between two of them is one step. A creation that is in
flight when its run is stopped is carried out at that moment or never.

`made`, `asked`, `seen` and `shown` are history: the chat the session has started and learned of, the chat
whose deletion it asked for, the chats on the screen at the click (that of the page and the one selected
beside it) and the actions shown there. API faults stay in `ConversationApi`.
`MCUiSession` chooses at the start whether two sessions share one chat or one moves between two.

`ProcedureStore` has the directory (`files`), the ingestion in progress and the collection
(`store`). A text is the sequence of its chunks, an identifier the tuple it is hashed from.
`Migrations` has the committed schema and the migration in progress (`tx`), one `Operation` per
`op.create_table` or `op.drop_table` in the order of the revisions; foreign keys say what an object
`Needs`. `Deployment` composes both with the containers of `compose.yaml`: `DependsOn` is
`depends_on`, `Up` and `Down` are the operator's commands, `Fails`, `PostgresRestarts` and
`Downgrade` what may come between.

Operators introduced by the word "Mutant" are faulty variants of the definition that follows
them. No action uses them; `PROJECT.json` pairs each with the property that notices it.

## 3. What the runs check

States are distinct states with two workers; every run takes less than four minutes.

| Run | Instance and bounds | Shows |
|---|---|---|
| `service_race` | 3 calls on 1 key, one of them possibly on the key of a seeded incident instead, 2 orders (2 contents), a supervisor and an operator, fairness; 552 thousand states | keys stay unique, `AssertionHolds`, `AuditMatchesIncidents`, `TruthfulAnswer` under every interleaving and failure; every call ends although inserts wait; the transactions implement `IncidentRegistry` |
| `functions` | all pairs of texts of at most 5 characters over a blank and 2 letters; all suites of at most 2 cases, 2 AI messages per run; 827 thousand states | normal form, equal hashes exactly for equal words; the exit code of the evaluation is exact |
| `conversation_faults` | 2 requests at a time, 2 tool calls, 2 faults, a reader, an operator, 2 supervisors, 1 order; 2.2 million states | `LockProtectsConversation`, `StoresAgree`, `ReadersOnlyRead`, and the refinement of `ProposalLifecycle`, through crashes and retries |
| `conversation_batch` | decisions on 2 actions at once, 1 fault, a supervisor who may be deactivated; 1.1 million states | parallel tool calls, one of which fails or outlives its request, write only what was approved (`WritesComeFromApprovals`), and without faults only while the approval runs (`WritesHappenUnderApproval`) |
| `conversation_progress` | 3 requests on one conversation, fairness; 114 thousand states | every request is answered and gives its lock back |
| `ui_pages` | 2 sessions and 1 thread, or 1 session and 2 threads; one session may change profile; 1 order, 1 call given up or 1 run stopped by a click, fairness; 972 thousand states | clicks act on chats that were on the screen, deletions are confirmed, a new chat is shown, offers are open, pages come back |
| `deployment` | 2 procedures, 1 edit, 2 failures, stops or downgrades, new and older volumes, fairness; 1.2 million states | schema and revision agree, migrations run through, servers find their tables, procedures are found and quarantined ones are not, the page is eventually served |

Why the bounds are enough for the cases meant. Three calls allow a winner, a waiter and a call
that arrives after the commit or the rollback; two contents on one key give conflicts; calls with
different keys share no row, one call on a seeded key meets what all of them would meet, and the proofs
cover any number of each. The instances of `ConversationApi` have a seeded incident too, with a key no
command uses (the service answers that one with a conflict); the proofs leave the keys free. One conversation at a time
suffices because lock, checkpoint and row of different threads share nothing but the registry. Two
requests give a holder and a waiter, three a queue. Two audited writes (`AuditIds`) allow an incident
and its replay; two faults (`MaxFaults`) allow a crash followed by a second failure during recovery.
Texts of five characters (`MaxText`) hold leading, trailing and repeated blanks around two words. Two sessions
give the page and whoever acts behind its back; two chats let a session leave one and come back; one
call given up (`MaxTimeouts`) leaves a request the page no longer waits for beside its repetition,
for instance a deletion that is carried out while the user goes on; one click during a run
(`MaxInterruptions`) lets the user select a chat and then use a button of the page before. In the runs
one session has one of the two faults; the proofs cover any number of both. Without the bound on
interruptions `SessionsRecover` would be false for a user who never stops clicking.
One edit (`MaxEdits`) is enough for a store that knows an older text, two procedures for texts that
share a chunk. Two cases (`MaxCases`) hide a failing one behind a good one, two AI messages
(`MaxTurns`) let a tool result precede another call. `Switching` and `Deactivatable` name the
sessions and users that change.

Deadlock is not checked: calls are used once, texts reach their maximum, a suite ends, and an instance
with all its users deactivated or all identifiers drawn really stops. Progress is checked as
`CallEnds`, `RequestsEnd`, `SessionsRecover` and `EventuallyServed` instead.

**Fairness.** Each call of the service and each request of the API is weakly fair in its own steps:
PostgreSQL and the event loop serve every client, the lock wakes its waiters in order, model and
tool calls have timeouts (`agent/factory.py:63-69`). Each call in the MCP server is weakly fair.
Streamlit runs each script until it ends or a click stops it, and the API serves each thread. Containers do their work
and the operator repeats `docker compose up`, as README.md:634 says. Nothing else is fair that
depends on people or on failure: no user has to decide or click, no request has to arrive, no call
has to fail, to be given up or to be interrupted. The language model is assumed to finish a run, because every request
to it times out and LangGraph bounds the number of steps.

### Disagreements between code and documentation

Each of these is a run in which TLC finds the documented statement violated.

- `service_replay`: README.md:351 promises the existing incident for a repeated creation. The order
  is checked before the key (`services/orderops_service.py:138`): a retry made after the order was
  cancelled is refused, although the incident exists.
- `command_short`: README.md:350 gives the reason at least 5 characters. Length is checked before
  normalization (`domain/models.py:86`, `:107`): `"a    b"` is stored as `"a b"`. The run scales 5
  down to 3.
- `conversation_stuck`: README.md:369 lets a supervisor consult every pending request of an operator.
  If `save_state` fails, or the process stops, after the run was interrupted
  (`api/main.py:275`), the row still says `completed`: no supervisor lists or may open the
  conversation and its owner gets 409. Only deletion helps, or, when the owner is himself a supervisor,
  a decision.
- `conversation_deleted`: docs/architecture.md:228 says that a proposal of a deleted conversation is
  not executed. After an API crash in an approved run, its tool call may already be authorized
  in the MCP server; the owner may delete the conversation before the call commits.
- `ui_unseen`: README.md:413 says that a decision covers the actions displayed. The request carries
  only approve or reject (`ui/app.py:199-207`) and is applied to whatever is pending when it gets the
  lock: a proposal that replaced the displayed one meanwhile is settled unseen.

### What the models also show, where no document says otherwise

- The synchronization at the start of a decision (`api/main.py:305`) turns a status `error` into
  `completed` before it answers 409.
- A user who selects another chat and, before its page is drawn, presses a button or sends a message on
  the old page acts on the chat selected: `ClicksStayOnTheScreen` promises a chat that was on the
  screen, not the chat of the page.
- A chat whose creation was answered too late, or to a run that a click had stopped, exists without
  its page knowing of it; repeating the message starts another one.
- A call with the key of a seeded incident is always a key conflict, whatever its content.
- A message typed in a chat that another session has deleted starts a new chat without a word.
- `next_thread` set for a new chat survives a failed list and selects that chat at the next success.
- Chunks of edited, removed or newly quarantined procedures stay in the collection and can still be
  found: identifiers are hashes of the content and nothing is deleted. `QuarantinedTextsAreNotFound`
  therefore speaks of the text a chunk was *read* in.
- Once procedures have been ingested, the revision of the extension `vector` cannot be undone.
- An order cancelled between the check and the commit still gets an incident; nothing in the
  repository cancels orders.

## 4. What is proved

All assumptions on constants are named in the modules that declare them and evaluated by TLC in the
runs of those modules.

### The incident service

`IncidentServiceProofs` proves for any sets of calls, keys, orders, reasons and users:

| Theorem | Statement |
|---|---|
| `TypeCorrect` | `Spec => []TypeOK` |
| `Invariance` | `Spec => []IInv`, the inductive invariant |
| `UniqueIncidents` | `Spec => []OneIncidentPerKey` |
| `AssertionNeverFails` | `Spec => []AssertionHolds` |
| `AuditedIncidents` | `Spec => []AuditMatchesIncidents` |
| `TruthfulAnswers` | `Spec => []TruthfulAnswer` |
| `ImplementsRegistry` | `Spec => RegistrySpec`: every commit is one `CreateOrGet`, every other step a stutter |

Assumptions: `ApproversAssumption` (approvers are users), `NoneAssumption` (`None` is no
answer and no error) and `SeededAssumption` (the seeded incidents, any number of them, have
different keys and identifiers that no call draws). `AuditMatchesIncidents` speaks of the incidents that
calls have stored; it also says that the seeded ones stay, and that no audit names them.

The argument. None of the properties is inductive alone: that a commit keeps keys unique depends on
what *open* transactions hold, and that depends on where each call stands. The invariant is
built in layers, each proved from those before it:

1. `Typing`: the types, and what a call knows at each `pc`. A call in its body has a command of
   an approver and no result yet; after the SELECT it has an incident.
2. `Transactions`: an open transaction holds at most the row and the audit of its own call
   (`OwnRows`); a stored identifier belongs to a call that has left its body
   (`StoredCallsLeft`); a key belongs to one committed row or to one open transaction
   (`KeyExclusive`); after the upsert the key is visible, and the row selected stays visible
   (`SelectFinds`). `KeyExclusive` is where waiting for the unique index is used, `SelectFinds`
   where READ COMMITTED is.
3. `AssertionHolds` and `Stored` (`AuditMatchesIncidents` and `TruthfulAnswer`): consequences
   that also need induction, because answers and audits outlive the transaction.

`CommittedRows` is the shared lemma: in a state of the invariant a commit adds exactly what
`CreateOrGet` adds. The preservation of `Stored` and the refinement both rest on it.

### Conversations, agent and tool calls

For any sets of threads, requests, tool calls, users, keys and any number of faults:

| Theorem | Module | Statement |
|---|---|---|
| `TypeCorrect` | `ConversationApiProofs` | `Spec => []TypeOK`; in particular `save_state` writes only statuses the table accepts |
| `LockProtects` | `ConversationApiProofs` | `Spec => []LockProtectsConversation` |
| `WritesApproved` | `ConversationApiProofs` | `Spec => []WritesComeFromApprovals` |
| `MetadataAgree` | `ConversationApiAgrees` | `Spec => []StoresAgree` |
| `Implements` | `ConversationApiRefines` | `Spec => LifecycleSpec` |
| `SettledByDecisions` | `ConversationApiRefines` | `Spec => ProposalsAreSettled` |
| `ReadersRead` | `ConversationApiRefines` | `Spec => []ReadersOnlyRead` |

Assumptions: `RolesAssumption` (roles are disjoint), `DeactivatableAssumption`, `MaxFaultsAssumption`,
`SeededAssumption` (as for the service) and `NoneAssumption` (`None` is no user and none of the
records it stands for).

The argument goes in layers, each inductive relative to those before it:

1. `Typing`: the types; a request has a job exactly while it is served, and calls to send only while it
   runs (`JobState`); only the head of a queue works (`Exclusion`) and its row is there (`RowStays`);
   a call past `authorize_mcp_call` has a supervisor and a known proposer (`AuthorizedCalls`).
   `Exclusion` is the lock: all later layers use it to know that nobody else touches a thread.
2. `Stores`: a checkpoint has its row (`CheckpointHasRow`), what the holder has read stays true until
   it releases the lock (`HolderKnows`), a row belongs to a drawn identifier (`KnownThreads`).
   `LockProtectsConversation` follows.
3. `Provenance`: each recorded approval was an entitled one, and its conversation, while it
   exists, keeps the owner it had then (`ApprovalsHold`); calls
   still to be sent (`ToolsApproved`) and calls in the MCP server, also those whose request has died
   (`CallsApproved`), each have an approval of exactly their command; so has every audit.
   This is what survives crashes: the approval is found through the call, not the request.
4. `Records` (module `ConversationApiAgrees`): the row agrees with the checkpoint, and its reviewer
   with the last decision, on each thread nobody works on as long as nothing has failed; who works on
   a thread still has what makes them agree again (`Recorded`).

The refinement uses layers 1 to 3: `BeingDecided` changes only when the holder of the lock enters or
leaves its resumed run (`HolderDecides`), each other step leaves it alone (`NothingDecided`), and
`Execute` is a `Write` because of `CallsApproved`.

What the abstraction promises can then be read off it. `ProposalsAreSettled` is proved of a step of
`ProposalLifecycle`, nine short actions, and holds of the handlers, runs, crashes and late calls by
`Implements`: what is pending goes only with the decision that is carried out or with the
transcript, and only a supervisor, in his own conversation or an operator's, has a decision carried out.

`ReadersOnlyRead` is not inductive for the incidents: an audit names the owner of an approval, and
that approval may be of a conversation long deleted. `ReadersApart` adds that no approval is of a
reader's conversation, because nothing was pending there when it was given, and `Provenance` leads from the audit
to the approval.

### Conversations without faults

| Theorem | Module | Statement |
|---|---|---|
| `WritesAttended` | `ConversationApiAgrees` | `Spec => WritesHappenUnderApproval` |

`Attended` adds one more layer. While nothing has failed and every user is active, each call in the
MCP server is *attended*: the request that approved it is still running, for the same user and
thread, and a call that is already authorized writes a command that is still in
`pending_actions`. That needs the lock (nobody else changes the row, `OthersRemain`), and it
needs to know that a request leaves its run only with no calls in flight. With a fault the
statement is false, and `WritesApproved` is what remains true.

### The registry

| Theorem | Module | Statement |
|---|---|---|
| `WritesAreRegistered` | `ConversationApiRefines` | `Spec => R!Spec`: `ConversationApi`, seen from `incidents` and `audits`, implements `IncidentRegistry` |
| `KeysAreSpentOnce` | `ConversationApiRefines` | `Spec => []RegistryInv`: one key, one incident, seeded or not; the seeded incidents stay; each other incident with its one "created" audit, each audit with such an incident |

`IncidentServiceProofs!ImplementsRegistry` shows that PostgreSQL transactions implement the registry;
these theorems show that everything above the service does nothing to it but `CreateOrGet`, so what
the registry promises holds of the whole application. `RegistryInv` is proved of
`IncidentRegistry` alone and carried over by `WritesAreRegistered`.

### Browser sessions

`UiSessionProofs`, for any sets of sessions, threads and users, any changes of profile and any number
of calls given up and runs interrupted:

| Theorem | Statement |
|---|---|
| `TypeCorrectness` | `Spec => []TypeOK` |
| `ClicksAreMeant` | `Spec => []ClicksStayOnTheScreen` |
| `DeletionsAreMeant` | `Spec => []DeletionsAreConfirmed` |
| `NewChatsAreShown` | `Spec => []NewChatIsShown` |
| `OffersStandOpen` | `Spec => OffersAreOpen` |
| `ServerIsLifecycle` | `Spec => L!Spec`: what the pages do to the server is a behaviour of `ProposalLifecycle` |

Assumptions: `RolesAssumption`, `BoundsAssumption` and `NoneAssumption` (`None` and `Absent` are no
thread, session or user, and differ).

The properties speak of what the user saw when he clicked, the code only of the session state it
finds when the script gets that far. The invariant `Inv` says how the two stay together:

1. `Screen`: how the page on the screen, the browser's selection and the session state agree at each
   position of the script. Once a run has ended the three name one chat. While it is in
   progress the page may still be another chat's: then what the run is about is a chat that the
   user saw at the click, or "new conversation" if that chat has vanished from the lists.
   `Target` says of the deletion dialog that its target is the chat asked for, and from the moment the lists
   are there the chat selected. `Made` says that a chat just started is selected, in the script and
   in the browser, or will be (`next_thread`).
2. `Waits` and `Meant`: a request in a lock queue names a chat that was on the screen, and a deletion the
   chat asked for; the row that a history request has read names the owner its thread still has. A
   request of a run that was stopped or has given up has no session. `OneRequest`: a session waits for
   one request at a time, so an answer never reaches a page drawn for another.
3. `ServerInv`: pending proposals have an owner, an owned thread was drawn, and a decision in
   progress is the running head of its queue.

The user's actions are the same whether a run is in progress or not, and the lemma `Acting` treats them all: what the
new run starts from is what the browser has, and the requests left behind answer nobody.

`OffersAreOpen` is about a step and follows from `Inv` by the cases of `AnswerHistory`. An identifier
is drawn once, which is why a chat that was deleted is never mistaken for a new one (`Grows`).
Queues are sequences of any length; what removing and appending do to them is stated once
(`TakingOut`, `Removed`, `Added`).

`ServerIsLifecycle` closes a chain: the server of the pages is `ProposalLifecycle` with nothing
written, and `Implements` shows that `ConversationApi` is one too. The pages are thus checked
against an abstraction that the API really implements.

### Procedures, schema and startup

`DeploymentProofs`, for any files, texts, edits and through every failure, stop, downgrade and
restart:

| Theorem | Statement |
|---|---|
| `QuarantineHolds` | `Spec => []QuarantinedTextsAreNotFound` |
| `CleanProceduresFound` | `Spec => []ProceduresAreFound` |
| `StartupTypes` | `Spec => []TypeOK` |
| `SchemaStays` | `Spec => []SchemaIsItsRevision` |
| `MigrationsAreAccepted` | `Spec => []MigrationsRunThrough` |
| `ServersArePrepared` | `Spec => []ServersFindTheirTables` |

Procedures: `ProcedureInv` says that each document, in the collection or still in the ingestion's
hands, carries what its identifier is made of, so that replacing by identifier loses nothing
(`ReplacingAdds`), and comes from a clean text that was read.

Schema: `MigrationInv` says what the view of a running migration is after each operation: what its
revision promises plus the first operations of the upgrade (`CreatedInOrder`), or minus those of
the downgrade (`DroppedInOrder`). At each point the next object is new, or there, and what
it needs is there. The revisions are the three of the repository, so this is a finite argument; the
tables that libraries create beside them (`EXTERNALLY_MANAGED`) are not.

Startup: `AloneInv` says that a migration belongs to the migration container or runs while nothing
else does, so that no server is up when the schema changes. `PreparedInv` follows `depends_on` from
container to container: what is done has left something that stays, and what has started could rely on
it. Neither `ServersFindTheirTables` nor the schema's properties are inductive without these three.

### Evaluation

`EvaluationProofs`, for any tools, any agent, suites and runs of any length: `ExitCodes`
(`Spec => []ExitCodeIsExact`) and `SuccessIsSafe` (`Spec => []SuccessMeansNothingWritten`). The
invariant `CountInv` says that the counter equals the number of cases done exactly if *all* of them
have passed, which is what the comparison at the end of `run_evals.py` needs; `RunInv` says that a
run executes only what it has called, so that a tool executed shows in the verdict.

### Texts

`IncidentCommandProofs`, for texts of any length over any letters:

| Theorem | Statement |
|---|---|
| `StoredReasonsAreNormal` | `TextsSpec => []StoredReasonIsNormal` |
| `HashesMeanWords` | `TextsSpec => []HashMeansSameWords` |

Assumption: `BlankAssumption` (the blank is no letter).

Both say what a recursive function computes for every text, so they need induction, and the induction
theorems of the library take an operator that the provers cannot instantiate. The proofs carry it out
on sets: a well-founded relation gives each nonempty set of numbers a least member (`Least`), so a set that has 0 and each
successor up to n has all of `0 .. n` (`InductionUpTo`). `SplitEquation` and `JoinEquation` show with it
that the recursive functions satisfy their defining equations, and from there on each step of the
functions is a case of `Splitting` or `Joining`.

1. `SplitJoin`: splitting what was joined gives the words back. It needs that the words
   have letters only (`SplitType`), and that a word read behind a blank is appended whole (`SplitWord`).
   That normalization is idempotent and that equal hashes mean equal `Split` both follow.
2. `JoinType` and `NotLonger`: what is joined has no blank at its ends and no two in a row,
   and after each character it is not longer than what was read; behind a blank it is shorter by one,
   which is what the next word needs for its own blank.
3. `SplitIsWords`: `Split` is `Words`. The invariant `ReadUpTo` says of the first n characters that there
   are as many words as were begun, and that the k-th is the interval of the characters with number
   k (`Marks`); a blank, the first character of a word and each further one preserve it.

### Only model-checked

Liveness (`CallEnds`, `RequestsEnd`, `SessionsRecover`, `EventuallyServed`): the prover has neither
ENABLED nor fairness. Every invariant, action property and refinement of the runs that pass is a theorem.
The five runs that end in a counterexample have nothing to prove.

## 5. Not modelled, and why

- Tokens, production and demonstration checks and UUID parsing in `mcp/authorization.py` and
  `current_user`: configuration that does not change while the system runs. Of the settings, the
  two that keep the API from starting are in `Deployment`.
- The contents of messages, titles, the text of answers and errors, LangSmith traces.
- The read-only lookups and read tools: they change no state, and nothing in the repository changes
  the rows they read while the service runs.
- Several API processes: the locks live in one process and the code assumes one. The mutants that
  drop the lock show what such a deployment would allow.
- Servers started by hand with `docker compose up -d --no-deps` (README.md:484-488, :636). They bypass
  `depends_on`, on which `ServersFindTheirTables` rests. The documentation uses them to update an
  installation that has been started before, after a migration run by hand, and to recreate the API
  with other tracing settings.
- The connection pool (15 connections). No handler holds a session while it waits for the lock,
  and a unit of work uses one session, so there is no cycle to wait in.
- `thread_locks` grows by an entry for each identifier ever asked for and is never pruned; a
  bound on it is not a property of any state the model could reach or miss.
- The columns of tables that are only read; embeddings and ranking (a search may return any
  approved chunk); the notebooks.

## 6. Plan

Done, in this order: `IncidentRegistry`, `IncidentService`, `Access`, `ConversationApi`,
`IncidentCommand`, `IncidentServiceProofs`, `ProposalLifecycle`, `UiSession`, `ProcedureStore`,
`Evaluation`, `Migrations`, `Deployment`, `ConversationApiProofs`, `ConversationApiAgrees`,
`ConversationApiRefines`, `DeploymentProofs`, `UiSessionProofs`, `EvaluationProofs`,
`IncidentCommandProofs`.

The plan is carried out. When the code changes, the first places to look are the guards of `Authorized`
and `Accepted` (who may decide), `SaveSnapshot` (what the metadata say) and `DependsOn` (what starts
when): the proofs of `CallsApproved`, `Recorded` and `PreparedInv` fail at the step that no longer
holds. What could be added: the rest of the chain from page to tables, which needs the statuses and
reviewers of `UiSession!meta` related to `ConversationApi!conversations`.
