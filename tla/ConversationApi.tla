--------------------------- MODULE ConversationApi ---------------------------
(***************************************************************************)
(* The life of conversations: the FastAPI handlers (api/main.py), the      *)
(* metadata table (repositories/conversations.py), the LangGraph agent     *)
(* with its human-in-the-loop pause (agent/factory.py) and the MCP server  *)
(* that writes incidents (mcp/authorization.py, mcp/server.py).            *)
(*                                                                         *)
(* Three stores with no common transaction: table conversations, the       *)
(* LangGraph checkpoints, and the incident registry.  Handlers of one API  *)
(* process are serialized per conversation by an in-memory FIFO lock; the  *)
(* MCP server does not take that lock, and outlives the API process.       *)
(*                                                                         *)
(* The language model is the environment: a run of the agent answers,      *)
(* proposes any non-empty set of create_incident calls, or raises.         *)
(*                                                                         *)
(* An operator introduced by "Mutant:" is a faulty variant of the          *)
(* definition that follows it; no action uses it.                          *)
(***************************************************************************)
EXTENDS Access, Sequences, Naturals, FiniteSets

CONSTANTS
    Threads,       \* conversation identifiers (uuid4, never reused)
    Requests,      \* slots of HTTP requests the API serves at a time
    Calls,         \* slots of create_incident calls the MCP server serves
    Keys, Orders, Reasons,
    AuditIds,      \* bounds how many audited writes happen
    Seeded,        \* the incidents of the demonstration data
    Deactivatable, \* users an administrator may deactivate
    MaxFaults,     \* bounds crashes, failed writes and timeouts together
    None

ASSUME MaxFaultsAssumption == MaxFaults \in Nat
ASSUME DeactivatableAssumption == Deactivatable \subseteq Users

VARIABLES
    conversations, \* table conversations: a row or None
    used,          \* thread identifiers already drawn
    checkpoints,   \* LangGraph: None, or the set of interrupted actions
    active,        \* column users.active
    queue,         \* per thread: the lock holder, then its waiters
    pc, job, todo, \* per request: position, what it asks, tool calls to send
    mcp,           \* create_incident calls in the MCP server
    incidents, audits,
    approvals,     \* history: the decisions that approved something
    decider,       \* history: per thread, who decided last
    faults         \* how many faults happened

convVars == <<conversations, used>>
reqVars == <<pc, job, todo, queue>>
dbVars == <<incidents, audits>>
ghostVars == <<approvals, decider>>
vars == <<convVars, checkpoints, active, reqVars, mcp, dbVars, ghostVars, faults>>

R == INSTANCE IncidentRegistry
        WITH Ids <- AuditIds, Approvers <- Supervisors, Proposers <- Users

ASSUME SeededAssumption == R!SeededRows

Command == R!Command

Conversation == [owner_id : Users, status : {"completed", "approval_required", "error"},
                 pending_actions : SUBSET Command, reviewer_id : Users \union {None}]

Kinds == {"chat", "approve", "reject", "delete"}

Job == [kind : Kinds, user : AppUser, thread : Threads]

\* request = None: nobody waits for the answer any more.
Call == [request : Requests \union {None}, thread : Threads, user_id : Users,
         approved : BOOLEAN, command : Command,
         stage : {"received", "authorized"}, proposer : Users \union {None}]

PCs == {"idle", "waiting", "resuming", "running", "saving", "saving_failed", "deleting"}

\* None is neither a user nor one of the records it may stand for.
ASSUME NoneAssumption ==
    /\ None \notin Users
    /\ \A row \in Conversation : row # None
    /\ \A j \in Job : j # None
    /\ \A commands \in SUBSET Command : commands # None

TypeOK ==
    /\ conversations \in [Threads -> Conversation \union {None}]
    /\ used \subseteq Threads
    /\ checkpoints \in [Threads -> (SUBSET Command) \union {None}]
    /\ active \in [Users -> BOOLEAN]
    /\ queue \in [Threads -> Seq(Requests)]
    /\ pc \in [Requests -> PCs]
    /\ job \in [Requests -> Job \union {None}]
    /\ todo \in [Requests -> SUBSET Command]
    /\ mcp \in [Calls -> Call \union {None}]
    /\ incidents \subseteq R!Incident
    /\ audits \subseteq R!Audit
    /\ approvals \subseteq [thread : Threads, owner : Users, reviewer : Users,
                            commands : SUBSET Command]
    /\ decider \in [Threads -> Users \union {None}]
    /\ faults \in 0 .. MaxFaults

Init ==
    /\ conversations = [t \in Threads |-> None]
    /\ used = {}
    /\ checkpoints = [t \in Threads |-> None]
    /\ active = [u \in Users |-> TRUE]
    /\ queue = [t \in Threads |-> <<>>]
    /\ pc = [r \in Requests |-> "idle"]
    /\ job = [r \in Requests |-> None]
    /\ todo = [r \in Requests |-> {}]
    /\ mcp = [k \in Calls |-> None]
    /\ R!Init
    /\ approvals = {}
    /\ decider = [t \in Threads |-> None]
    /\ faults = 0

-----------------------------------------------------------------------------
(* What the handlers read *)

\* store.get_user: the active user, read from the database.
ReadUser(u) == [user_id |-> u, active |-> active[u]]

\* snapshot.interrupts of a thread; a thread without checkpoint has none.
Interrupts(t) == IF checkpoints[t] = None THEN {} ELSE checkpoints[t]

ThreadOf(r) == job[r].thread
UserOf(r) == job[r].user
Conv(r) == conversations[ThreadOf(r)]

\* async with _thread_lock(...): an asyncio.Lock wakes its waiters in order.
HasLock(r) == job[r] # None /\ queue[ThreadOf(r)] # <<>> /\ Head(queue[ThreadOf(r)]) = r

InFlight(r) == {k \in Calls : mcp[k] # None /\ mcp[k].request = r}

\* Mutant: a status the CHECK constraint of the table does not know.
SavedAsInterrupted(conv, actions, failed, reviewer) ==
    [conv EXCEPT !.pending_actions = actions,
                 !.status = IF actions # {} THEN "interrupted" ELSE "completed"]

\* The row save_state writes.
Saved(conv, actions, failed, reviewer) ==
    [conv EXCEPT !.pending_actions = actions,
                 !.status = IF actions # {} THEN "approval_required"
                            ELSE IF failed THEN "error" ELSE "completed",
                 !.reviewer_id = IF reviewer # None THEN reviewer ELSE @]

\* _conversation: the row exists and the user may read it.
Readable(r) == Conv(r) # None /\ CanReadConversation(UserOf(r), Conv(r))

OwnedBy(r) == Conv(r).owner_id = UserOf(r).user_id

\* The 409 of chat.
\* Mutant: a new message is accepted while an action is pending.
NeverBlocked(r) == FALSE

Blocked(r) == Interrupts(ThreadOf(r)) # {}

\* Which requests pass the checks made under the lock.
Accepted(r) ==
    /\ Readable(r)
    /\ job[r].kind \in {"chat", "delete"} => OwnedBy(r)
    /\ job[r].kind = "chat" => ~ Blocked(r)
    /\ job[r].kind \in {"approve", "reject"} => CanDecide(UserOf(r), Conv(r))

-----------------------------------------------------------------------------
(* The handlers *)

\* POST /conversations.
NewConversation(u, t) ==
    /\ active[u]
    /\ t \notin used
    /\ used' = used \union {t}
    /\ conversations' = [conversations EXCEPT ![t] =
          [owner_id |-> u, status |-> "completed", pending_actions |-> {},
           reviewer_id |-> None]]
    /\ UNCHANGED <<checkpoints, active, reqVars, mcp, dbVars, ghostVars, faults>>

\* current_user, the role check of decide, then the lock is asked for.
Arrive(r, u, kind, t) ==
    /\ pc[r] = "idle"
    /\ active[u]
    /\ kind \in {"approve", "reject"} => CanApprove(ReadUser(u))
    /\ job' = [job EXCEPT ![r] = [kind |-> kind, user |-> ReadUser(u), thread |-> t]]
    /\ pc' = [pc EXCEPT ![r] = "waiting"]
    /\ queue' = [queue EXCEPT ![t] = Append(@, r)]
    /\ UNCHANGED <<convVars, checkpoints, active, todo, mcp, dbVars, ghostVars, faults>>

\* The request ends, whatever its answer, and the lock goes to the next waiter.
Finish(r) ==
    /\ pc' = [pc EXCEPT ![r] = "idle"]
    /\ job' = [job EXCEPT ![r] = None]
    /\ todo' = [todo EXCEPT ![r] = {}]
    /\ queue' = [queue EXCEPT ![ThreadOf(r)] = IF HasLock(r) THEN Tail(@) ELSE @]

\* Mutant: an HTTPException leaves the lock taken.
RefuseKeepingLock(r) ==
    /\ pc[r] = "waiting" /\ HasLock(r)
    /\ ~ Accepted(r)
    /\ pc' = [pc EXCEPT ![r] = "idle"]
    /\ job' = [job EXCEPT ![r] = None]
    /\ UNCHANGED <<convVars, checkpoints, active, todo, queue, mcp, dbVars,
                   ghostVars, faults>>

\* 403, 404 and 409 answers given under the lock.
Refuse(r) ==
    /\ pc[r] = "waiting" /\ HasLock(r)
    /\ ~ Accepted(r)
    /\ Finish(r)
    /\ UNCHANGED <<convVars, checkpoints, active, mcp, dbVars, ghostVars, faults>>

\* chat: the agent starts and saves a checkpoint with the new message.
StartChat(r) ==
    /\ pc[r] = "waiting" /\ HasLock(r) /\ job[r].kind = "chat"
    /\ Accepted(r)
    /\ pc' = [pc EXCEPT ![r] = "running"]
    /\ checkpoints' = [checkpoints EXCEPT ![ThreadOf(r)] = {}]
    /\ UNCHANGED <<convVars, active, job, todo, queue, mcp, dbVars, ghostVars, faults>>

\* decide: the metadata are first synchronized with the checkpoint ...
Resync(r) ==
    /\ pc[r] = "waiting" /\ HasLock(r) /\ job[r].kind \in {"approve", "reject"}
    /\ Accepted(r)
    /\ pc' = [pc EXCEPT ![r] = "resuming"]
    /\ conversations' = [conversations EXCEPT ![ThreadOf(r)] =
                            Saved(@, Interrupts(ThreadOf(r)), FALSE, None)]
    /\ UNCHANGED <<used, checkpoints, active, job, todo, queue, mcp, dbVars,
                   ghostVars, faults>>

\* ... a conversation without pending action is refused (409) ...
NothingToDecide(r) ==
    /\ pc[r] = "resuming"
    /\ Interrupts(ThreadOf(r)) = {}
    /\ Finish(r)
    /\ UNCHANGED <<convVars, checkpoints, active, mcp, dbVars, ghostVars, faults>>

\* ... and one decision is given for all the pending actions ...
GiveDecision(r) ==
    LET t == ThreadOf(r)
        u == UserOf(r).user_id
    IN  /\ pc[r] = "resuming"
        /\ Interrupts(t) # {}
        /\ pc' = [pc EXCEPT ![r] = "running"]
        /\ decider' = [decider EXCEPT ![t] = u]
        /\ IF job[r].kind = "approve"
           THEN /\ todo' = [todo EXCEPT ![r] = Interrupts(t)]
                /\ approvals' = approvals \union
                      {[thread |-> t, owner |-> Conv(r).owner_id, reviewer |-> u,
                        commands |-> Interrupts(t)]}
           ELSE UNCHANGED <<todo, approvals>>
        /\ UNCHANGED <<convVars, checkpoints, active, job, mcp, dbVars, faults>>

\* ... with the lock held until the run is saved.
\* Mutant: the lock is given back before the agent runs.
ResumeWithoutLock(r) ==
    GiveDecision(r) /\ queue' = [queue EXCEPT ![ThreadOf(r)] = Tail(@)]

Resume(r) == GiveDecision(r) /\ UNCHANGED queue

\* Mutant: the metadata are deleted first.
DeleteMetadataFirst(r) ==
    /\ pc[r] = "waiting" /\ HasLock(r) /\ job[r].kind = "delete"
    /\ Accepted(r)
    /\ pc' = [pc EXCEPT ![r] = "deleting"]
    /\ conversations' = [conversations EXCEPT ![ThreadOf(r)] = None]
    /\ UNCHANGED <<used, checkpoints, active, job, todo, queue, mcp, dbVars,
                   ghostVars, faults>>

\* delete_conversation: checkpoints first ...
DeleteCheckpoint(r) ==
    /\ pc[r] = "waiting" /\ HasLock(r) /\ job[r].kind = "delete"
    /\ Accepted(r)
    /\ pc' = [pc EXCEPT ![r] = "deleting"]
    /\ checkpoints' = [checkpoints EXCEPT ![ThreadOf(r)] = None]
    /\ UNCHANGED <<convVars, active, job, todo, queue, mcp, dbVars, ghostVars, faults>>

\* ... then the metadata.
DeleteMetadata(r) ==
    /\ pc[r] = "deleting"
    /\ conversations' = [conversations EXCEPT ![ThreadOf(r)] = None]
    /\ Finish(r)
    /\ UNCHANGED <<used, checkpoints, active, mcp, dbVars, ghostVars, faults>>

-----------------------------------------------------------------------------
(* A run of the agent *)

\* LangGraph writes checkpoints in the background: the one without the
\* interrupt may reach the database at any moment of the resumed run.
PersistResume(r) ==
    /\ pc[r] = "running"
    /\ Interrupts(ThreadOf(r)) # {}
    /\ checkpoints' = [checkpoints EXCEPT ![ThreadOf(r)] = {}]
    /\ UNCHANGED <<convVars, active, reqVars, mcp, dbVars, ghostVars, faults>>

\* The interceptor reads the user again and sends one approved call.
SendTool(r, k, c) ==
    /\ pc[r] = "running" /\ c \in todo[r]
    /\ mcp[k] = None
    /\ CanPropose(ReadUser(UserOf(r).user_id))
    /\ todo' = [todo EXCEPT ![r] = @ \ {c}]
    /\ mcp' = [mcp EXCEPT ![k] =
          [request |-> r, thread |-> ThreadOf(r), user_id |-> UserOf(r).user_id,
           approved |-> job[r].kind = "approve", command |-> c,
           stage |-> "received", proposer |-> None]]
    /\ UNCHANGED <<convVars, checkpoints, active, pc, job, queue, dbVars,
                   ghostVars, faults>>

\* Nobody waits any more for the calls ks.
Orphaned(ks) ==
    [k \in Calls |-> IF k \in ks THEN [mcp[k] EXCEPT !.request = None] ELSE mcp[k]]

\* The agent without the create_incident tool.
\* Mutant: every agent is given all the tools.
NoReaderAgent(r) == FALSE

ReaderAgent(r) == Conv(r) # None /\ Conv(r).owner_id \in Readers

\* ainvoke returns: an answer, or an interruption with new proposals.
RunReturns(r) ==
    /\ pc[r] = "running" /\ todo[r] = {} /\ InFlight(r) = {}
    /\ \E actions \in SUBSET Command :
          /\ actions # {} => ~ ReaderAgent(r)
          /\ checkpoints' = [checkpoints EXCEPT ![ThreadOf(r)] = actions]
    /\ pc' = [pc EXCEPT ![r] = "saving"]
    /\ UNCHANGED <<convVars, active, job, todo, queue, mcp, dbVars, ghostVars, faults>>

Raise(r) ==
    /\ pc' = [pc EXCEPT ![r] = "saving_failed"]
    /\ todo' = [todo EXCEPT ![r] = {}]

\* ainvoke raises: before the decision is consumed, or after the tool calls.
RunRaises(r) ==
    /\ pc[r] = "running" /\ InFlight(r) = {}
    /\ \/ checkpoints' = [checkpoints EXCEPT ![ThreadOf(r)] = {}]
       \/ /\ job[r].kind = "approve" => todo[r] = Interrupts(ThreadOf(r))
          /\ UNCHANGED checkpoints
    /\ Raise(r)
    /\ UNCHANGED <<convVars, active, job, queue, mcp, dbVars, ghostVars, faults>>

\* The interceptor raises for a user deactivated meanwhile; the other calls of
\* the same decision go on without anybody waiting for them.
ToolForbidden(r) ==
    /\ pc[r] = "running" /\ todo[r] # {}
    /\ ~ CanPropose(ReadUser(UserOf(r).user_id))
    /\ checkpoints' = [checkpoints EXCEPT ![ThreadOf(r)] = {}]
    /\ mcp' = Orphaned(InFlight(r))
    /\ Raise(r)
    /\ UNCHANGED <<convVars, active, job, queue, dbVars, ghostVars, faults>>

\* The MCP client gives up on calls that are still being served, because they
\* take too long or another tool call of the run has raised; the run goes on
\* with error messages, or raises.
ToolTimeout(r) ==
    /\ pc[r] = "running" /\ faults < MaxFaults
    /\ \E ks \in (SUBSET InFlight(r)) \ {{}} : mcp' = Orphaned(ks)
    /\ faults' = faults + 1
    /\ UNCHANGED <<convVars, checkpoints, active, reqVars, dbVars, ghostVars>>

\* reviewer_id is recorded by decide, on its normal and on its failed path.
\* Mutant: the failed path forgets it.
ReviewerUnlessFailed(r) ==
    IF job[r].kind \in {"approve", "reject"} /\ pc[r] = "saving"
    THEN UserOf(r).user_id ELSE None

Reviewer(r) == IF job[r].kind \in {"approve", "reject"} THEN UserOf(r).user_id ELSE None

\* _save_snapshot: save_state finds the row (it would raise otherwise) and
\* copies the checkpoint into the metadata.
SaveSnapshot(r) ==
    /\ pc[r] \in {"saving", "saving_failed"}
    /\ Conv(r) # None
    /\ conversations' = [conversations EXCEPT ![ThreadOf(r)] =
          Saved(@, Interrupts(ThreadOf(r)), pc[r] = "saving_failed", Reviewer(r))]
    /\ Finish(r)
    /\ UNCHANGED <<used, checkpoints, active, mcp, dbVars, ghostVars, faults>>

-----------------------------------------------------------------------------
(* The MCP server *)

\* proposed_by is the owner of the conversation.
\* Mutant: it is the approving user.
ProposerIsActor(k) == mcp[k].user_id

ProposerOf(k) == conversations[mcp[k].thread].owner_id

\* authorize_mcp_call with arguments.
Authorized(k) ==
    LET call == mcp[k]
        user == ReadUser(call.user_id)
        conv == conversations[call.thread]
    IN  /\ CanApprove(user) /\ call.approved
        /\ conv # None
        /\ CanDecide(user, conv)
        /\ conv.status = "approval_required"
        /\ call.command \in conv.pending_actions

Authorize(k) ==
    /\ mcp[k] # None /\ mcp[k].stage = "received"
    /\ mcp' = [mcp EXCEPT ![k] =
          IF Authorized(k)
          THEN [@ EXCEPT !.stage = "authorized", !.proposer = ProposerOf(k)]
          ELSE None]
    /\ UNCHANGED <<convVars, checkpoints, active, reqVars, dbVars, ghostVars, faults>>

\* The service commits (IncidentService implements CreateOrGet) ...
Execute(k) ==
    /\ mcp[k] # None /\ mcp[k].stage = "authorized"
    /\ \E id \in AuditIds :
          R!CreateOrGet(id, mcp[k].command, mcp[k].user_id, mcp[k].proposer)
    /\ mcp' = [mcp EXCEPT ![k] = None]
    /\ UNCHANGED <<convVars, checkpoints, active, reqVars, ghostVars, faults>>

\* ... or refuses for a business or technical reason.
BusinessRefusal(k) ==
    /\ mcp[k] # None /\ mcp[k].stage = "authorized"
    /\ mcp' = [mcp EXCEPT ![k] = None]
    /\ UNCHANGED <<convVars, checkpoints, active, reqVars, dbVars, ghostVars, faults>>

-----------------------------------------------------------------------------
(* Faults and the outside world *)

\* A statement of the handler fails (a read of a store, a write to table
\* conversations): the request raises, the lock is released.
StoreFails(r) ==
    /\ HasLock(r)
    /\ pc[r] \in {"waiting", "saving", "saving_failed", "deleting"}
    /\ faults < MaxFaults
    /\ faults' = faults + 1
    /\ Finish(r)
    /\ UNCHANGED <<convVars, checkpoints, active, mcp, dbVars, ghostVars>>

\* The API process stops and restarts: its locks and requests are lost, the
\* three stores and the calls the MCP server has received are not.
ApiCrash ==
    /\ \E r \in Requests : pc[r] # "idle"
    /\ faults < MaxFaults
    /\ faults' = faults + 1
    /\ pc' = [r \in Requests |-> "idle"]
    /\ job' = [r \in Requests |-> None]
    /\ todo' = [r \in Requests |-> {}]
    /\ queue' = [t \in Threads |-> <<>>]
    /\ mcp' = Orphaned({k \in Calls : mcp[k] # None})
    /\ UNCHANGED <<convVars, checkpoints, active, dbVars, ghostVars>>

Deactivate(u) ==
    /\ active[u]
    /\ active' = [active EXCEPT ![u] = FALSE]
    /\ UNCHANGED <<convVars, checkpoints, reqVars, mcp, dbVars, ghostVars, faults>>

-----------------------------------------------------------------------------

RequestStep(r) ==
    \/ Refuse(r) \/ StartChat(r) \/ Resync(r) \/ NothingToDecide(r) \/ Resume(r)
    \/ DeleteCheckpoint(r) \/ DeleteMetadata(r)
    \/ \E k \in Calls, c \in Command : SendTool(r, k, c)
    \/ RunReturns(r) \/ ToolForbidden(r)
    \/ SaveSnapshot(r)

CallStep(k) == Authorize(k) \/ Execute(k) \/ BusinessRefusal(k)

Next ==
    \/ \E u \in Users, t \in Threads : NewConversation(u, t)
    \/ \E r \in Requests, u \in Users, kind \in Kinds, t \in Threads : Arrive(r, u, kind, t)
    \/ \E r \in Requests : \/ RequestStep(r) \/ PersistResume(r) \/ RunRaises(r)
                          \/ ToolTimeout(r) \/ StoreFails(r)
    \/ \E k \in Calls : CallStep(k)
    \/ ApiCrash
    \/ \E u \in Deactivatable : Deactivate(u)

\* The event loop serves every request, model and tool calls have timeouts, and
\* the MCP server answers what it received.  Nothing has to fail.
Fairness == /\ \A r \in Requests : WF_vars(RequestStep(r))
            /\ \A k \in Calls : WF_vars(CallStep(k))

Spec == Init /\ [][Next]_vars
FairSpec == Spec /\ Fairness

-----------------------------------------------------------------------------
(* Properties *)

\* Nobody is in the middle of an operation on t.
Settled(t) == \A r \in Requests :
    job[r] # None /\ ThreadOf(r) = t => pc[r] = "waiting"

\* The two stores that share no transaction (docs/architecture.md) never leave
\* a checkpoint without its conversation, and an operation in progress under
\* the lock never loses the row it will write, through crashes, failed writes
\* and concurrent deletions (api/main.py:242-251, 267-275, 305-318).
LockProtectsConversation ==
    /\ \A t \in Threads : checkpoints[t] # None => conversations[t] # None
    /\ \A r \in Requests :
          pc[r] \in {"resuming", "running", "saving", "saving_failed"} => Conv(r) # None

\* Once no operation is in progress, and as long as no fault has hit the API,
\* the metadata say what the checkpoint says: the same pending actions, the
\* status that goes with them, and as reviewer the user who decided last.
StoresAgree ==
    \A t \in Threads :
       faults = 0 /\ Settled(t) /\ conversations[t] # None =>
          /\ conversations[t].pending_actions = Interrupts(t)
          /\ (conversations[t].status = "approval_required") <=> (Interrupts(t) # {})
          /\ conversations[t].reviewer_id = decider[t]

\* Readers only read: nothing ever waits for a decision in the conversation of a
\* reader, in neither store, and nothing is written in his name, although both
\* agents share one checkpointer and other processes decide, fail and retry
\* (agent/factory.py:107-119, api/main.py:159; README.md:330, :377-381).
ReadersOnlyRead ==
    /\ \A t \in Threads : conversations[t] # None /\ conversations[t].owner_id \in Readers =>
          Interrupts(t) = {} /\ conversations[t].pending_actions = {}
    /\ \A a \in audits : a.proposed_by \notin Readers

\* The refinement mapping: who opened a thread, and whether a run is carrying
\* out a decision on it.
Owner == [t \in Threads |->
             IF conversations[t] = None THEN None ELSE conversations[t].owner_id]

BeingDecided == [t \in Threads |->
    \E r \in Requests : /\ pc[r] = "running" /\ job[r].kind \in {"approve", "reject"}
                        /\ ThreadOf(r) = t]

\* Seen from outside, handlers, stores, lock and tool calls behave like
\* ProposalLifecycle, through crashes, retries, failed runs and late tool calls:
\* a proposal is settled only by the decision of an entitled supervisor or a
\* deletion, never by a message, and a decision covers all that is pending; a
\* conversation disappears only with nothing pending; only approved commands
\* are written, once per key, in the name of the right people.
Lifecycle == INSTANCE ProposalLifecycle WITH
    owner <- Owner, pending <- checkpoints, decided <- BeingDecided

LifecycleSpec == Lifecycle!Spec

\* Every audited write goes back to a decision: its actor approved exactly
\* this command in a conversation of proposed_by, which is his own or an
\* operator's - also when calls outlive the request that sent them.
WritesComeFromApprovals ==
    \A a \in audits : \E d \in approvals :
       /\ d.reviewer = a.actor
       /\ d.owner = a.proposed_by
       /\ \E c \in d.commands : c.idempotency_key = a.idempotency_key
                              /\ c.order_id = a.order_id
       /\ d.owner = d.reviewer \/ d.owner \in Operators

\* As long as no fault has happened and nobody was deactivated, an incident is
\* written only while the approving request is still running on an existing
\* conversation whose metadata still propose this very command.
WritesHappenUnderApproval ==
    [][\A k \in Calls :
          ( /\ mcp[k] # None /\ mcp'[k] = None /\ audits' # audits
            /\ faults = 0 /\ \A u \in Users : active[u]) =>
             /\ conversations[mcp[k].thread] # None
             /\ mcp[k].command \in conversations[mcp[k].thread].pending_actions
             /\ \E r \in Requests :
                   /\ pc[r] = "running" /\ job[r].kind = "approve"
                   /\ ThreadOf(r) = mcp[k].thread
                   /\ UserOf(r).user_id = mcp[k].user_id]_vars

\* Every request the API has accepted is answered and gives its lock back,
\* however many others wait for the same conversation.
RequestsEnd == \A r \in Requests : pc[r] # "idle" ~> pc[r] = "idle"

-----------------------------------------------------------------------------
(* Statements of the documentation *)

\* GET /approvals: list_visible(user, pending_only=True).
PendingFor(u) ==
    {t \in Threads : /\ conversations[t] # None
                     /\ conversations[t].status = "approval_required"
                     /\ CanReadConversation([user_id |-> u, active |-> TRUE],
                                            conversations[t])}

\* README.md:369: a supervisor can consult a pending request of an operator.
\* Once no operation is in progress every pending proposal of an operator is
\* in the list of every supervisor.
PendingProposalsListed ==
    \A t \in Threads :
       (Settled(t) /\ Interrupts(t) # {} /\ conversations[t].owner_id \in Operators)
          => \A u \in Supervisors : t \in PendingFor(u)

\* docs/architecture.md:228: with the conversation "une proposition en attente
\* disparait sans etre executee".
DeletedProposalsAreNotExecuted ==
    [][\A k \in Calls :
          (mcp[k] # None /\ mcp'[k] = None /\ audits' # audits) =>
             conversations[mcp[k].thread] # None]_vars
=============================================================================
