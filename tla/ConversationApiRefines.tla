------------------------ MODULE ConversationApiRefines ------------------------
(***************************************************************************)
(* ConversationApi implements ProposalLifecycle, for any number of         *)
(* threads, requests, tool calls, users and faults: each step of a         *)
(* handler, a run or a tool call is a step of the lifecycle or leaves what *)
(* the lifecycle sees unchanged.                                           *)
(*                                                                         *)
(* Seen from the tables incidents and action_audit it also implements      *)
(* IncidentRegistry, whose properties it therefore has.                    *)
(*                                                                         *)
(* Last, that readers only read, in both stores.                           *)
(***************************************************************************)
EXTENDS ConversationApiProofs

Invariant == Typing /\ Stores /\ Provenance

LEMMA InvariantHolds == Spec => []Invariant
<1>1. Init => Invariant
    BY InitTyping, InitStores, InitProvenance DEF Invariant
<1>2. Invariant /\ [Next]_vars => Invariant'
    BY NextTyping, NextStores, NextProvenance DEF Invariant
<1> QED
    BY <1>1, <1>2, PTL DEF Spec

Decisions == {"approve", "reject"}

\* What the lifecycle sees of a request that has the lock.
LEMMA DecidedOfHolder ==
    ASSUME Typing, NEW r \in Requests, pc[r] # "idle", HasLock(r)
    PROVE  BeingDecided[ThreadOf(r)] <=> pc[r] = "running" /\ job[r].kind \in Decisions
<1>1. ThreadOf(r) \in Threads
    BY Serving
<1>2. \A s \in Requests : pc[s] = "running" /\ ThreadOf(s) = ThreadOf(r) => s = r
    BY OneAtATime DEF Busy
<1> QED
    BY <1>1, <1>2 DEF BeingDecided, Decisions

\* A step that starts and ends no run, and keeps the owners.
LEMMA NothingDecided ==
    ASSUME \A r \in Requests :
              \/ pc'[r] = pc[r] /\ job'[r] = job[r]
              \/ pc[r] # "running" /\ pc'[r] # "running"
              \/ /\ pc[r] # "running" \/ job[r].kind \notin Decisions
                 /\ pc'[r] # "running" \/ job'[r].kind \notin Decisions
    PROVE  BeingDecided' = BeingDecided
BY DEF BeingDecided, ThreadOf, Decisions

LEMMA OwnersStay ==
    ASSUME TypeOK, NEW t \in Threads, conversations[t] # None,
           NEW row, row # None, row.owner_id = conversations[t].owner_id,
           conversations' = [conversations EXCEPT ![t] = row]
    PROVE  Owner' = Owner
BY DEF TypeOK, Owner

\* The lock holder starts or ends the decision on its thread.
LEMMA HolderDecides ==
    ASSUME Typing, NEW r \in Requests, pc[r] # "idle", HasLock(r),
           UNCHANGED job, NEW x \in PCs, pc' = [pc EXCEPT ![r] = x],
           job[r].kind \in Decisions
    PROVE  BeingDecided' = [BeingDecided EXCEPT ![ThreadOf(r)] = (x = "running")]
<1>1. ThreadOf(r) \in Threads /\ TypeOK
    BY Serving DEF Typing
<1>2. \A s \in Requests : pc[s] = "running" /\ ThreadOf(s) = ThreadOf(r) => s = r
    BY OneAtATime DEF Busy
<1>3. pc'[r] = x /\ \A s \in Requests : s # r => pc'[s] = pc[s]
    BY <1>1 DEF TypeOK
<1>4. BeingDecided' = [t \in Threads |-> BeingDecided'[t]]
    BY DEF BeingDecided
<1>5. BeingDecided'[ThreadOf(r)] = (x = "running")
    BY <1>1, <1>2, <1>3 DEF BeingDecided, Decisions, ThreadOf
<1>6. \A t \in Threads : t # ThreadOf(r) => BeingDecided'[t] = BeingDecided[t]
    BY <1>1, <1>3 DEF BeingDecided, Decisions, ThreadOf
<1>7. BeingDecided = [t \in Threads |-> BeingDecided[t]]
    BY DEF BeingDecided
<1> QED
    BY <1>1, <1>4, <1>5, <1>6, <1>7
-----------------------------------------------------------------------------
(* The steps *)

LEMMA InitMapped == Init => Lifecycle!Init
BY DEF Init, Lifecycle!Init, R!Init, Lifecycle!R!Init, Owner, BeingDecided

\* What a step that the lifecycle does not see leaves unchanged.
LEMMA Unseen ==
    ASSUME BeingDecided' = BeingDecided, Owner' = Owner,
           UNCHANGED <<checkpoints, approvals, incidents, audits>>
    PROVE  UNCHANGED Lifecycle!vars
BY DEF Lifecycle!vars, Lifecycle!talk

LEMMA NextMapped == Invariant /\ [Next]_vars => [Lifecycle!Next]_Lifecycle!vars
<1> SUFFICES ASSUME Invariant, [Next]_vars PROVE [Lifecycle!Next]_Lifecycle!vars
    OBVIOUS
<1> /\ Typing /\ TypeOK /\ JobState /\ Exclusion /\ RowStays
    /\ CheckpointHasRow /\ HolderKnows /\ KnownThreads
    BY DEF Invariant, Typing, Stores
<1>1. UNCHANGED conversations => Owner' = Owner
    BY DEF Owner
<1>2. UNCHANGED <<pc, job>> => BeingDecided' = BeingDecided
    BY NothingDecided
<1>3. ASSUME NEW r \in Requests, Finish(r), pc[r] # "running"
      PROVE  BeingDecided' = BeingDecided
    <2>1. \A s \in Requests : \/ pc'[s] = pc[s] /\ job'[s] = job[s]
                              \/ pc[s] # "running" /\ pc'[s] # "running"
        BY <1>3 DEF Finish, TypeOK
    <2> QED
        BY <2>1, NothingDecided
<1>4. ASSUME NEW r \in Requests, pc[r] # "running", NEW x \in PCs, x # "running",
             pc' = [pc EXCEPT ![r] = x], \A s \in Requests : s # r => job'[s] = job[s]
      PROVE  BeingDecided' = BeingDecided
    <2>1. \A s \in Requests : \/ pc'[s] = pc[s] /\ job'[s] = job[s]
                              \/ pc[s] # "running" /\ pc'[s] # "running"
        BY <1>4 DEF TypeOK
    <2> QED
        BY <2>1, NothingDecided
<1>5. ASSUME NEW r \in Requests, pc[r] # "idle", NEW x \in PCs,
             pc' = [pc EXCEPT ![r] = x], UNCHANGED job, job[r].kind = "chat"
      PROVE  BeingDecided' = BeingDecided
    <2>1. \A s \in Requests :
             \/ pc'[s] = pc[s] /\ job'[s] = job[s]
             \/ /\ pc[s] # "running" \/ job[s].kind \notin Decisions
                /\ pc'[s] # "running" \/ job'[s].kind \notin Decisions
        BY <1>5 DEF Decisions, TypeOK
    <2> QED
        BY <2>1, NothingDecided
<1>6. ASSUME NEW r \in Requests, pc[r] \in Busy
      PROVE  /\ HasLock(r) /\ ThreadOf(r) \in Threads /\ Conv(r) # None
             /\ Conv(r) \in Conversation
             /\ Owner[ThreadOf(r)] = Conv(r).owner_id /\ Owner[ThreadOf(r)] # None
             /\ BeingDecided[ThreadOf(r)] <=> pc[r] = "running" /\ job[r].kind \in Decisions
    <2>1. pc[r] # "idle" /\ HasLock(r) /\ Conv(r) # None
        BY <1>6 DEF Busy, Exclusion, RowStays
    <2>2. ThreadOf(r) \in Threads /\ Conv(r) \in Conversation
        BY <2>1, Serving
    <2>3. Owner[ThreadOf(r)] = Conv(r).owner_id /\ Owner[ThreadOf(r)] # None
        BY <2>1, <2>2, NoneAssumption DEF Owner, Conv, Conversation
    <2> QED
        BY <2>1, <2>2, <2>3, DecidedOfHolder
<1>7. ASSUME NEW r \in Requests, pc[r] = "waiting", HasLock(r), Accepted(r)
      PROVE  /\ ThreadOf(r) \in Threads /\ Conv(r) # None /\ Conv(r) \in Conversation
             /\ Owner[ThreadOf(r)] # None
             /\ BeingDecided[ThreadOf(r)] = FALSE
    <2>1. ThreadOf(r) \in Threads /\ Conv(r) # None /\ Conv(r) \in Conversation
        BY <1>7, Serving DEF Accepted, Readable
    <2>2. Owner[ThreadOf(r)] # None
        BY <2>1, NoneAssumption DEF Owner, Conv, Conversation
    <2>3. ~ BeingDecided[ThreadOf(r)]
        BY <1>7, DecidedOfHolder
    <2>4. BeingDecided[ThreadOf(r)] \in BOOLEAN
        BY <2>1 DEF BeingDecided
    <2> QED
        BY <2>1, <2>2, <2>3, <2>4
<1>8. ASSUME NEW r \in Requests, Refuse(r) \/ NothingToDecide(r) \/ StoreFails(r)
      PROVE  UNCHANGED Lifecycle!vars
    <2> USE <1>8 DEF Refuse, NothingToDecide, StoreFails, convVars, dbVars, ghostVars
    <2>1. BeingDecided' = BeingDecided
        BY <1>3
    <2> QED
        BY <1>1, <2>1, Unseen
<1>9. ASSUME NEW u \in Users, NEW t \in Threads, NewConversation(u, t)
      PROVE  Lifecycle!Next
    <2> USE <1>9 DEF NewConversation, reqVars, dbVars, ghostVars
    <2>1. Owner[t] = None
        BY DEF KnownThreads, Owner
    <2> DEFINE row == [owner_id |-> u, status |-> "completed", pending_actions |-> {},
                       reviewer_id |-> None]
    <2>2. row # None /\ row.owner_id = u
        BY NoneAssumption DEF Conversation
    <2>3. conversations' = [conversations EXCEPT ![t] = row]
        OBVIOUS
    <2> HIDE DEF row
    <2>4. Owner' = [Owner EXCEPT ![t] = u]
        BY <2>2, <2>3 DEF Owner, TypeOK
    <2>5. Lifecycle!Open(t, u)
        BY <1>2, <2>1, <2>4 DEF Lifecycle!Open
    <2> QED
        BY <2>5 DEF Lifecycle!Next, Lifecycle!Users, Users
<1>10. ASSUME NEW r \in Requests, NEW u \in Users, NEW kind \in Kinds, NEW t \in Threads,
              Arrive(r, u, kind, t)
       PROVE  UNCHANGED Lifecycle!vars
    <2> USE <1>10 DEF Arrive, convVars, dbVars, ghostVars
    <2>1. BeingDecided' = BeingDecided
        BY <1>4 DEF TypeOK, PCs
    <2> QED
        BY <1>1, <2>1, Unseen
<1>11. ASSUME NEW r \in Requests, StartChat(r) PROVE [Lifecycle!Next]_Lifecycle!vars
    <2> USE <1>11 DEF StartChat, convVars, dbVars, ghostVars
    <2>1. ThreadOf(r) \in Threads /\ Owner[ThreadOf(r)] # None
        BY <1>7
    <2>2. BeingDecided' = BeingDecided /\ Owner' = Owner
        BY <1>1, <1>5 DEF PCs
    <2>3. checkpoints[ThreadOf(r)] \in {None, {}}
        BY DEF Accepted, Blocked, Interrupts
    <2>4. CASE checkpoints[ThreadOf(r)] = None
        <3>1. Lifecycle!Begin(ThreadOf(r))
            BY <2>1, <2>2, <2>4 DEF Lifecycle!Begin
        <3> QED
            BY <2>1, <3>1 DEF Lifecycle!Next
    <2>5. CASE checkpoints[ThreadOf(r)] = {}
        <3>1. checkpoints' = checkpoints
            BY <2>1, <2>5 DEF TypeOK
        <3> QED
            BY <2>2, <3>1, Unseen
    <2> QED
        BY <2>3, <2>4, <2>5
<1>12. ASSUME NEW r \in Requests, Resync(r) PROVE UNCHANGED Lifecycle!vars
    <2> USE <1>12 DEF Resync, dbVars, ghostVars
    <2>1. ThreadOf(r) \in Threads /\ Conv(r) # None /\ Conv(r) \in Conversation
        BY <1>7
    <2>2. Interrupts(ThreadOf(r)) \in SUBSET Command
        BY <2>1, InterruptsType
    <2> DEFINE row == Saved(Conv(r), Interrupts(ThreadOf(r)), FALSE, None)
    <2>3. row \in Conversation /\ row.owner_id = Conv(r).owner_id
        BY <2>1, <2>2, SavedType
    <2>4. conversations' = [conversations EXCEPT ![ThreadOf(r)] = row]
        BY DEF Conv
    <2> HIDE DEF row
    <2>5. Owner' = Owner
        BY <2>1, <2>3, <2>4, NoneAssumption, OwnersStay DEF Conv
    <2>6. BeingDecided' = BeingDecided
        BY <1>4 DEF PCs
    <2> QED
        BY <2>5, <2>6, Unseen
<1>13. ASSUME NEW r \in Requests, Resume(r) PROVE Lifecycle!Next
    <2> DEFINE t == ThreadOf(r)
               u == UserOf(r).user_id
    <2> USE <1>13 DEF Resume, GiveDecision, convVars, dbVars
    <2>1. /\ t \in Threads /\ u \in Users /\ Owner[t] = Conv(r).owner_id
          /\ HasLock(r) /\ ~ BeingDecided[t]
        BY <1>6, Serving DEF Busy
    <2>2. job[r].kind \in Decisions /\ u \in Supervisors
        BY DEF HolderKnows, Decisions
    <2>3. Lifecycle!MayDecide(u, t)
        BY <2>1, <2>2 DEF HolderKnows, Lifecycle!MayDecide
    <2>4. BeingDecided' = [BeingDecided EXCEPT ![t] = TRUE]
        BY <2>1, <2>2, HolderDecides DEF PCs
    <2>5. /\ Lifecycle!Waiting(t) # {}
          /\ Interrupts(t) = checkpoints[t]
        BY DEF Interrupts, Lifecycle!Waiting
    <2>6. Lifecycle!Decide(t, u)
        BY <1>1, <2>1, <2>3, <2>4, <2>5 DEF Lifecycle!Decide
    <2>7. approvals' \in {approvals, approvals \union {Lifecycle!Approval(t, u)}}
        BY <2>1, <2>5 DEF Lifecycle!Approval
    <2> QED
        BY <2>1, <2>6, <2>7 DEF Lifecycle!Next, Lifecycle!Users, Users
<1>14. ASSUME NEW r \in Requests, DeleteCheckpoint(r) PROVE Lifecycle!Next
    <2> USE <1>14 DEF DeleteCheckpoint, convVars, dbVars, ghostVars
    <2>1. BeingDecided' = BeingDecided /\ Owner' = Owner
        BY <1>1, <1>4 DEF PCs
    <2>2. Lifecycle!Withdraw(ThreadOf(r))
        BY <1>7, <2>1 DEF Lifecycle!Withdraw
    <2> QED
        BY <1>7, <2>2 DEF Lifecycle!Next
<1>15. ASSUME NEW r \in Requests, DeleteMetadata(r) PROVE Lifecycle!Next
    <2> USE <1>15 DEF DeleteMetadata, dbVars, ghostVars
    <2>1. /\ ThreadOf(r) \in Threads /\ Owner[ThreadOf(r)] # None
          /\ ~ BeingDecided[ThreadOf(r)] /\ checkpoints[ThreadOf(r)] = None
        BY <1>6 DEF Busy, HolderKnows
    <2>2. Owner' = [Owner EXCEPT ![ThreadOf(r)] = None]
        BY DEF Owner, TypeOK
    <2>3. BeingDecided' = BeingDecided
        BY <1>3
    <2>4. Lifecycle!Close(ThreadOf(r))
        BY <2>1, <2>2, <2>3 DEF Lifecycle!Close
    <2> QED
        BY <2>1, <2>4 DEF Lifecycle!Next
<1>16. ASSUME NEW r \in Requests, pc[r] = "running", job[r].kind \in Decisions,
              NEW x \in PCs, pc' = [pc EXCEPT ![r] = x], UNCHANGED <<job, conversations>>,
              NEW actions \in SUBSET Command,
              checkpoints' = [checkpoints EXCEPT ![ThreadOf(r)] = actions],
              UNCHANGED <<approvals, incidents, audits>>
       PROVE  Lifecycle!Next
    <2> USE <1>16
    <2>1. /\ HasLock(r) /\ ThreadOf(r) \in Threads /\ BeingDecided[ThreadOf(r)]
        BY <1>6 DEF Busy
    <2>2. BeingDecided' = [BeingDecided EXCEPT ![ThreadOf(r)] = (x = "running")]
        BY <2>1, HolderDecides
    <2>3. Lifecycle!Settle(ThreadOf(r), actions, x = "running")
        BY <1>1, <2>1, <2>2 DEF Lifecycle!Settle
    <2>4. actions \in SUBSET Lifecycle!R!Command /\ (x = "running") \in BOOLEAN
        BY DEF Command, R!Command, Lifecycle!R!Command
    <2> QED
        BY <2>1, <2>3, <2>4 DEF Lifecycle!Next
<1>17. ASSUME NEW r \in Requests, PersistResume(r) PROVE Lifecycle!Next
    <2> USE <1>17 DEF PersistResume, convVars, reqVars, dbVars, ghostVars
    <2>1. job[r].kind \in Decisions
        <3>1. job[r] \in Job /\ job[r].kind # "delete"
            BY Serving DEF HolderKnows
        <3>2. job[r].kind # "chat"
            BY DEF HolderKnows, Interrupts
        <3> QED
            BY <3>1, <3>2 DEF Job, Kinds, Decisions
    <2>2. pc' = [pc EXCEPT ![r] = "running"]
        BY DEF TypeOK
    <2>3. {} \in SUBSET Command
        OBVIOUS
    <2>4. /\ pc[r] = "running" /\ checkpoints' = [checkpoints EXCEPT ![ThreadOf(r)] = {}]
          /\ UNCHANGED <<job, conversations, approvals, incidents, audits>>
        OBVIOUS
    <2> HIDE <1>17 DEF PersistResume
    <2> QED
        BY <1>16, <2>1, <2>2, <2>3, <2>4 DEF PCs
<1>18. ASSUME NEW r \in Requests, pc[r] = "running"
       PROVE  \/ job[r].kind \in Decisions
              \/ /\ job[r].kind = "chat" /\ checkpoints[ThreadOf(r)] = {}
                 /\ ~ BeingDecided[ThreadOf(r)]
    <2>1. job[r] \in Job /\ job[r].kind # "delete"
        BY <1>18, Serving DEF HolderKnows
    <2>2. CASE job[r].kind = "chat"
        BY <1>6, <1>18, <2>2 DEF HolderKnows, Decisions, Busy
    <2> QED
        BY <2>1, <2>2 DEF Job, Kinds, Decisions
<1>19. ASSUME NEW r \in Requests, RunReturns(r) PROVE [Lifecycle!Next]_Lifecycle!vars
    <2> USE <1>19 DEF RunReturns, convVars, dbVars, ghostVars
    <2>1. PICK actions \in SUBSET Command :
             /\ actions # {} => ~ ReaderAgent(r)
             /\ checkpoints' = [checkpoints EXCEPT ![ThreadOf(r)] = actions]
        OBVIOUS
    <2>2. CASE job[r].kind \in Decisions
        BY <1>16, <2>1, <2>2 DEF PCs
    <2>3. CASE /\ job[r].kind = "chat" /\ checkpoints[ThreadOf(r)] = {}
               /\ ~ BeingDecided[ThreadOf(r)]
        <3>1. BeingDecided' = BeingDecided /\ Owner' = Owner
            BY <1>1, <1>5, <2>3 DEF PCs
        <3>2. /\ ThreadOf(r) \in Threads /\ Owner[ThreadOf(r)] = Conv(r).owner_id
              /\ Conv(r) # None /\ Conv(r).owner_id \in Users
            BY <1>6 DEF Busy, Conversation
        <3>3. CASE actions = {}
            <4>1. checkpoints' = checkpoints
                BY <2>1, <2>3, <3>2, <3>3 DEF TypeOK
            <4> QED
                BY <3>1, <4>1, Unseen
        <3>4. CASE actions # {}
            <4>1. Owner[ThreadOf(r)] \in Operators \union Supervisors
                BY <2>1, <3>2, <3>4 DEF ReaderAgent, Users
            <4>2. Lifecycle!Propose(ThreadOf(r), actions)
                BY <2>1, <2>3, <3>1, <4>1 DEF Lifecycle!Propose
            <4>3. actions \in SUBSET Lifecycle!R!Command
                BY DEF Command, R!Command, Lifecycle!R!Command
            <4> QED
                BY <3>2, <4>2, <4>3 DEF Lifecycle!Next
        <3> QED
            BY <3>3, <3>4
    <2> QED
        BY <1>18, <2>2, <2>3
<1>20. ASSUME NEW r \in Requests, RunRaises(r) \/ ToolForbidden(r)
       PROVE  [Lifecycle!Next]_Lifecycle!vars
    <2>1. /\ pc[r] = "running" /\ pc' = [pc EXCEPT ![r] = "saving_failed"]
          /\ UNCHANGED <<job, conversations, approvals, incidents, audits>>
          /\ \/ checkpoints' = [checkpoints EXCEPT ![ThreadOf(r)] = {}]
             \/ UNCHANGED checkpoints
        BY <1>20 DEF RunRaises, ToolForbidden, Raise, convVars, dbVars, ghostVars
    <2>2. HasLock(r) /\ ThreadOf(r) \in Threads
        BY <1>6, <2>1 DEF Busy
    <2>3. CASE /\ job[r].kind \in Decisions
               /\ checkpoints' = [checkpoints EXCEPT ![ThreadOf(r)] = {}]
        <3>1. {} \in SUBSET Command /\ "saving_failed" \in PCs
            BY DEF PCs
        <3> QED
            BY <1>16, <2>1, <2>3, <3>1
    <2>4. CASE job[r].kind \in Decisions /\ UNCHANGED checkpoints
        <3>1. BeingDecided' = [BeingDecided EXCEPT ![ThreadOf(r)] = FALSE]
            BY <2>1, <2>2, <2>4, HolderDecides DEF PCs
        <3>2. BeingDecided' = [t \in Threads |-> BeingDecided[t] /\ t \notin {ThreadOf(r)}]
            BY <2>2, <3>1 DEF BeingDecided
        <3>3. Lifecycle!Forget({ThreadOf(r)})
            BY <1>1, <2>1, <2>4, <3>2 DEF Lifecycle!Forget
        <3> QED
            BY <2>2, <3>3 DEF Lifecycle!Next
    <2>5. CASE job[r].kind = "chat" /\ checkpoints[ThreadOf(r)] = {}
        <3>1. BeingDecided' = BeingDecided /\ Owner' = Owner
            BY <1>1, <1>5, <2>1, <2>5 DEF PCs
        <3>2. checkpoints' = checkpoints
            BY <2>1, <2>2, <2>5 DEF TypeOK
        <3> QED
            BY <2>1, <3>1, <3>2, Unseen
    <2> QED
        BY <1>18, <2>1, <2>3, <2>4, <2>5
<1>21. ASSUME NEW r \in Requests, SaveSnapshot(r) PROVE UNCHANGED Lifecycle!vars
    <2>1. /\ UNCHANGED <<checkpoints, dbVars, ghostVars>> /\ Finish(r)
          /\ Conv(r) # None /\ pc[r] # "idle" /\ pc[r] # "running"
        BY <1>21 DEF SaveSnapshot
    <2>2. ThreadOf(r) \in Threads
        BY <2>1, Serving
    <2>3. Owner' = Owner
        BY <1>21, <2>1, <2>2, SaveKeepsRow, OwnersStay DEF Conv
    <2>4. BeingDecided' = BeingDecided
        BY <1>3, <2>1
    <2> QED
        BY <2>1, <2>3, <2>4, Unseen DEF dbVars, ghostVars
<1>22. ASSUME UNCHANGED <<conversations, checkpoints, pc, job, approvals, incidents, audits>>
       PROVE  UNCHANGED Lifecycle!vars
    BY <1>1, <1>2, <1>22, Unseen
<1>23. ASSUME \/ \E r \in Requests, k \in Calls, c \in Command : SendTool(r, k, c)
              \/ \E r \in Requests : ToolTimeout(r)
              \/ \E k \in Calls : Authorize(k) \/ BusinessRefusal(k)
              \/ \E u \in Deactivatable : Deactivate(u)
       PROVE  UNCHANGED Lifecycle!vars
    BY <1>22, <1>23 DEF SendTool, ToolTimeout, Authorize, BusinessRefusal, Deactivate,
                        convVars, reqVars, dbVars, ghostVars
<1>24. CASE ApiCrash
    <2> USE <1>24 DEF ApiCrash, convVars, dbVars, ghostVars
    <2>1. BeingDecided' = [t \in Threads |-> BeingDecided[t] /\ t \notin Threads]
        BY DEF BeingDecided
    <2>2. Lifecycle!Forget(Threads)
        BY <1>1, <2>1 DEF Lifecycle!Forget
    <2> QED
        BY <2>2 DEF Lifecycle!Next
<1>25. ASSUME NEW k \in Calls, Execute(k) PROVE Lifecycle!Next
    <2> USE <1>25 DEF Execute, convVars, reqVars, ghostVars
    <2>1. PICK id \in AuditIds :
             R!CreateOrGet(id, mcp[k].command, mcp[k].user_id, mcp[k].proposer)
        OBVIOUS
    <2>2. PICK d \in approvals :
             /\ Approves(d, mcp[k].thread, mcp[k].user_id, mcp[k].command)
             /\ d.owner = mcp[k].proposer
        BY DEF Invariant, Provenance, CallsApproved
    <2>3. mcp[k].command \in d.commands
        BY <2>2 DEF Approves
    <2>4. R!CreateOrGet(id, mcp[k].command, d.reviewer, d.owner)
        BY <2>1, <2>2 DEF Approves
    <2>5. Lifecycle!R!CreateOrGet(id, mcp[k].command, d.reviewer, d.owner)
        BY <2>4
           DEF R!CreateOrGet, R!Create, R!Replay, R!WithKey, R!IncidentOf, R!AuditOf,
               R!SameContent, Lifecycle!R!CreateOrGet, Lifecycle!R!Create,
               Lifecycle!R!Replay, Lifecycle!R!WithKey, Lifecycle!R!IncidentOf,
               Lifecycle!R!AuditOf, Lifecycle!R!SameContent
    <2>6. UNCHANGED <<Lifecycle!talk, approvals>>
        BY <1>1, <1>2 DEF Lifecycle!talk
    <2>7. Lifecycle!Write
        BY <2>3, <2>5, <2>6 DEF Lifecycle!Write
    <2> QED
        BY <2>7 DEF Lifecycle!Next
<1>26. CASE UNCHANGED vars
    BY <1>22, <1>26 DEF vars, convVars, reqVars, dbVars, ghostVars
<1> QED
    BY <1>8, <1>9, <1>10, <1>11, <1>12, <1>13, <1>14, <1>15, <1>17, <1>19, <1>20, <1>21,
       <1>23, <1>24, <1>25, <1>26
       DEF Next, RequestStep, CallStep

\* Handlers, stores, lock, runs and tool calls together implement the lifecycle of
\* proposals, through crashes, failed writes, timeouts and late tool calls.
THEOREM Implements == Spec => LifecycleSpec
<1>1. Init => Lifecycle!Init
    BY InitMapped
<1>2. Invariant /\ [Next]_vars => [Lifecycle!Next]_Lifecycle!vars
    BY NextMapped
<1> QED
    BY <1>1, <1>2, InvariantHolds, PTL DEF Spec, LifecycleSpec, Lifecycle!Spec

\* A proposal is not lost or replaced by a message, a failure, a crash or a call
\* that ends late: it goes with the decision that is carried out, or with the
\* transcript; a decision is carried out for what is pending, by a supervisor, in his own
\* conversation or in that of an operator.
ProposalsAreSettled ==
    [][\A t \in Threads :
          /\ Interrupts(t) # {} /\ checkpoints'[t] # checkpoints[t] =>
                BeingDecided[t] \/ checkpoints'[t] = None
          /\ ~ BeingDecided[t] /\ BeingDecided'[t] =>
                /\ Interrupts(t) # {}
                /\ \E u \in Supervisors : Owner[t] = u \/ Owner[t] \in Operators]_Lifecycle!vars

\* The lifecycle promises this, so the handlers keep it (api/main.py:253-320).
THEOREM SettledByDecisions == Spec => ProposalsAreSettled
<1> DEFINE Step == \A t \in Threads :
          /\ Interrupts(t) # {} /\ checkpoints'[t] # checkpoints[t] =>
                BeingDecided[t] \/ checkpoints'[t] = None
          /\ ~ BeingDecided[t] /\ BeingDecided'[t] =>
                /\ Interrupts(t) # {}
                /\ \E u \in Supervisors : Owner[t] = u \/ Owner[t] \in Operators
<1>1. Invariant /\ [Lifecycle!Next]_Lifecycle!vars => [Step]_Lifecycle!vars
    <2> SUFFICES ASSUME Invariant, Lifecycle!Next PROVE Step
        OBVIOUS
    <2> USE DEF Interrupts
    <2>1. /\ checkpoints \in [Threads -> (SUBSET Command) \union {None}]
          /\ BeingDecided = [t \in Threads |-> BeingDecided[t]]
        BY DEF Invariant, Typing, TypeOK, BeingDecided
    <2>2. ASSUME NEW t \in Threads, NEW u \in Lifecycle!Users,
                 Lifecycle!Open(t, u) \/ Lifecycle!Decide(t, u)
          PROVE  Step
        BY <2>1, <2>2 DEF Lifecycle!Open, Lifecycle!Decide, Lifecycle!MayDecide, Lifecycle!Waiting
    <2>3. ASSUME NEW t \in Threads, NEW commands \in SUBSET Lifecycle!R!Command,
                 Lifecycle!Propose(t, commands)
          PROVE  Step
        BY <2>1, <2>3 DEF Lifecycle!Propose
    <2>4. ASSUME NEW t \in Threads, NEW commands \in SUBSET Lifecycle!R!Command,
                 NEW goesOn \in BOOLEAN, Lifecycle!Settle(t, commands, goesOn)
          PROVE  Step
        BY <2>1, <2>4 DEF Lifecycle!Settle
    <2>5. ASSUME NEW t \in Threads,
                 Lifecycle!Begin(t) \/ Lifecycle!Withdraw(t) \/ Lifecycle!Close(t)
          PROVE  Step
        BY <2>1, <2>5 DEF Lifecycle!Begin, Lifecycle!Withdraw, Lifecycle!Close
    <2>6. ASSUME NEW ts \in SUBSET Threads, Lifecycle!Forget(ts) PROVE Step
        BY <2>1, <2>6 DEF Lifecycle!Forget
    <2>7. CASE Lifecycle!Write
        BY <2>7 DEF Lifecycle!Write, Lifecycle!talk
    <2> QED
        BY <2>2, <2>3, <2>4, <2>5, <2>6, <2>7 DEF Lifecycle!Next
<1> QED
    BY <1>1, Implements, InvariantHolds, PTL DEF LifecycleSpec, Lifecycle!Spec, ProposalsAreSettled

-----------------------------------------------------------------------------
(* The registry *)

\* Only a call that is authorized changes the registry, for a supervisor.
LEMMA RegistrySteps == Typing /\ [Next]_vars => [R!Next]_(R!registryVars)
<1> SUFFICES ASSUME Typing, [Next]_vars PROVE [R!Next]_(R!registryVars)
    OBVIOUS
<1>1. ASSUME NEW k \in Calls, Execute(k) PROVE R!Next
    <2>1. PICK id \in AuditIds :
             R!CreateOrGet(id, mcp[k].command, mcp[k].user_id, mcp[k].proposer)
        BY <1>1 DEF Execute
    <2>2. mcp[k] \in Call /\ mcp[k].user_id \in Supervisors /\ mcp[k].proposer \in Users
        BY <1>1 DEF Execute, Typing, TypeOK, AuthorizedCalls
    <2>3. mcp[k].command \in R!Command
        BY <2>2 DEF Call, Command
    <2> QED
        BY <2>1, <2>2, <2>3 DEF R!Next
<1>2. CASE ~ \E k \in Calls : Execute(k)
    BY <1>2
       DEF Next, RequestStep, CallStep, NewConversation, Arrive, Refuse, StartChat, Resync,
           NothingToDecide, Resume, GiveDecision, DeleteCheckpoint, DeleteMetadata, SendTool,
           RunReturns, ToolForbidden, SaveSnapshot, PersistResume, RunRaises, ToolTimeout,
           StoreFails, Authorize, BusinessRefusal, ApiCrash, Deactivate, dbVars, vars,
           R!registryVars
<1> QED
    BY <1>1, <1>2

\* Seen from the incidents the whole application, with its conversations, locks,
\* retries and late calls, is the registry that IncidentService implements.
THEOREM WritesAreRegistered == Spec => R!Spec
<1>1. Init => R!Init
    BY DEF Init, R!Init
<1> QED
    BY <1>1, InitTyping, NextTyping, RegistrySteps, PTL DEF Spec, R!Spec

\* What the registry keeps: a key names one incident, of the seed script or of a
\* call; calls never reuse an identifier or touch a seeded incident; an incident that
\* a call has stored has exactly one "created" audit; an audit names such an incident,
\* with its key and order.
RegistryInv ==
    /\ Seeded \subseteq incidents
    /\ \A i, j \in incidents : i.idempotency_key = j.idempotency_key => i = j
    /\ \A i \in incidents, j \in incidents \ Seeded : i.incident_id = j.incident_id => i = j
    /\ \A a \in audits : \E i \in incidents \ Seeded :
          /\ i.incident_id = a.entity_id
          /\ i.idempotency_key = a.idempotency_key /\ i.order_id = a.order_id
    /\ \A i \in incidents \ Seeded : \E a \in audits :
          /\ a.outcome = "created" /\ a.entity_id = i.incident_id
          /\ \A b \in audits :
                b.outcome = "created" /\ b.entity_id = i.incident_id => b = a

LEMMA RegistryKeeps ==
    ASSUME RegistryInv, NEW id, NEW c \in R!Command, NEW actor, NEW proposer,
           R!CreateOrGet(id, c, actor, proposer)
    PROVE  RegistryInv'
<1>1. /\ \A i \in incidents : i.incident_id # id
      /\ R!Create(id, c, actor, proposer) \/ R!Replay(id, c, actor, proposer)
    BY DEF R!CreateOrGet
<1>2. CASE R!Create(id, c, actor, proposer)
    <2> DEFINE new == R!IncidentOf(id, c)
               entry == R!AuditOf(id, new, actor, proposer, "created")
    <2>1. /\ incidents' = incidents \union {new} /\ audits' = audits \union {entry}
          /\ \A i \in incidents : i.idempotency_key # c.idempotency_key
        BY <1>2 DEF R!Create, R!WithKey
    <2>2. /\ new.incident_id = id /\ new.idempotency_key = c.idempotency_key
          /\ new.order_id = c.order_id
        BY DEF R!IncidentOf
    <2>3. /\ entry.entity_id = id /\ entry.outcome = "created"
          /\ entry.idempotency_key = c.idempotency_key /\ entry.order_id = c.order_id
        BY <2>2 DEF R!AuditOf
    <2> HIDE DEF new, entry
    <2>4. /\ new \notin Seeded
          /\ \A a \in audits : a.entity_id # id
        BY <1>1, <2>2 DEF RegistryInv
    <2>5. ASSUME NEW i \in incidents' \ Seeded
          PROVE  \E a \in audits' :
                    /\ a.outcome = "created" /\ a.entity_id = i.incident_id
                    /\ \A b \in audits' :
                          b.outcome = "created" /\ b.entity_id = i.incident_id => b = a
        <3>1. CASE i = new
            BY <2>1, <2>2, <2>3, <2>4, <3>1
        <3>2. CASE i \in incidents
            BY <1>1, <2>1, <2>3, <3>2 DEF RegistryInv
        <3> QED
            BY <2>1, <3>1, <3>2
    <2>6. ASSUME NEW a \in audits'
          PROVE  \E i \in incidents' \ Seeded :
                    /\ i.incident_id = a.entity_id
                    /\ i.idempotency_key = a.idempotency_key /\ i.order_id = a.order_id
        BY <2>1, <2>2, <2>3, <2>4 DEF RegistryInv
    <2>7. \A i, j \in incidents' : i.idempotency_key = j.idempotency_key => i = j
        BY <2>1, <2>2 DEF RegistryInv
    <2>8. \A i \in incidents', j \in incidents' \ Seeded : i.incident_id = j.incident_id => i = j
        BY <1>1, <2>1, <2>2 DEF RegistryInv
    <2> QED
        BY <2>1, <2>5, <2>6, <2>7, <2>8 DEF RegistryInv
<1>3. CASE R!Replay(id, c, actor, proposer)
    <2>1. PICK inc \in incidents \ Seeded :
             /\ audits' = audits \union {R!AuditOf(id, inc, actor, proposer, "already_existed")}
             /\ incidents' = incidents
        BY <1>3 DEF R!Replay, R!SameContent, R!WithKey
    <2> DEFINE entry == R!AuditOf(id, inc, actor, proposer, "already_existed")
    <2>2. /\ entry.entity_id = inc.incident_id /\ entry.outcome = "already_existed"
          /\ entry.idempotency_key = inc.idempotency_key /\ entry.order_id = inc.order_id
        BY DEF R!AuditOf
    <2> HIDE DEF entry
    <2>3. audits' = audits \union {entry}
        BY <2>1 DEF entry
    <2> QED
        BY <2>1, <2>2, <2>3 DEF RegistryInv
<1> QED
    BY <1>1, <1>2, <1>3

\* However often approved calls are sent again, outlive their request or race with
\* each other, a key leads to one incident, the seeded incidents stay as they are, and
\* each incident the calls have stored has one "created" audit.
THEOREM KeysAreSpentOnce == Spec => []RegistryInv
<1>1. R!Init => RegistryInv
    BY SeededAssumption DEF R!Init, R!SeededRows, RegistryInv
<1>2. RegistryInv /\ [R!Next]_(R!registryVars) => RegistryInv'
    <2>1. CASE UNCHANGED R!registryVars
        BY <2>1 DEF R!registryVars, RegistryInv
    <2> QED
        BY <2>1, RegistryKeeps DEF R!Next
<1> QED
    BY <1>1, <1>2, WritesAreRegistered, PTL DEF R!Spec

-----------------------------------------------------------------------------
(* Readers *)

\* What a reader never has, in the stores and among the approvals.
NoProposal ==
    \A t \in Threads : conversations[t] # None /\ conversations[t].owner_id \in Readers =>
       Interrupts(t) = {} /\ conversations[t].pending_actions = {}

ReadersApart == NoProposal /\ \A d \in approvals : d.owner \notin Readers

\* A step that keeps the rows keeps NoProposal if the only checkpoint it touches is
\* left without a proposal or is not of a reader's conversation.
LEMMA CheckpointApart ==
    ASSUME NoProposal, NEW t \in Threads, conversations' = conversations,
           \A u \in Threads : u # t => checkpoints'[u] = checkpoints[u],
           \/ checkpoints'[t] = None \/ checkpoints'[t] = {}
           \/ conversations[t] # None /\ conversations[t].owner_id \notin Readers
    PROVE  NoProposal'
BY DEF NoProposal, Interrupts

\* What save_state writes is what the checkpoint has.
LEMMA SaveApart ==
    ASSUME TypeOK, NoProposal, NEW t \in Threads, conversations[t] # None,
           UNCHANGED checkpoints, NEW failed, NEW reviewer,
           conversations' = [conversations EXCEPT ![t] =
                                Saved(@, Interrupts(t), failed, reviewer)]
    PROVE  NoProposal'
<1> DEFINE row == Saved(conversations[t], Interrupts(t), failed, reviewer)
<1>1. row.owner_id = conversations[t].owner_id /\ row.pending_actions = Interrupts(t)
    BY DEF Saved, TypeOK, Conversation
<1>2. conversations' = [conversations EXCEPT ![t] = row]
    OBVIOUS
<1> HIDE DEF row
<1> QED
    BY <1>1, <1>2 DEF NoProposal, TypeOK, Interrupts

LEMMA NextApart == Invariant /\ ReadersApart /\ [Next]_vars => ReadersApart'
<1> SUFFICES ASSUME Invariant, ReadersApart, [Next]_vars PROVE ReadersApart'
    OBVIOUS
<1> /\ Typing /\ TypeOK /\ RowStays /\ CheckpointHasRow /\ KnownThreads /\ NoProposal
    BY DEF Invariant, Typing, Stores, ReadersApart
<1>1. ASSUME NEW r \in Requests, pc[r] # "idle"
      PROVE  ThreadOf(r) \in Threads /\ (pc[r] \in Busy => Conv(r) # None)
    BY <1>1, Serving DEF RowStays
<1>2. ASSUME UNCHANGED <<conversations, checkpoints>> PROVE NoProposal'
    BY <1>2 DEF NoProposal, Interrupts
<1>3. ASSUME UNCHANGED approvals, NoProposal' PROVE ReadersApart'
    BY <1>3 DEF ReadersApart
<1>4. ASSUME NEW u \in Users, NEW t \in Threads, NewConversation(u, t) PROVE ReadersApart'
    <2>1. checkpoints[t] = None
        BY <1>4 DEF NewConversation, KnownThreads, CheckpointHasRow
    <2>2. NoProposal'
        BY <1>4, <2>1 DEF NewConversation, NoProposal, Interrupts, TypeOK
    <2> QED
        BY <1>3, <1>4, <2>2 DEF NewConversation, ghostVars
<1>5. ASSUME NEW r \in Requests, StartChat(r) \/ DeleteCheckpoint(r) \/ PersistResume(r)
                                 \/ ToolForbidden(r)
      PROVE  ReadersApart'
    <2>1. ThreadOf(r) \in Threads
        BY <1>1, <1>5 DEF StartChat, DeleteCheckpoint, PersistResume, ToolForbidden
    <2>2. /\ conversations' = conversations /\ approvals' = approvals
          /\ \A u \in Threads : u # ThreadOf(r) => checkpoints'[u] = checkpoints[u]
          /\ checkpoints'[ThreadOf(r)] = None \/ checkpoints'[ThreadOf(r)] = {}
        BY <1>5, <2>1
           DEF StartChat, DeleteCheckpoint, PersistResume, ToolForbidden, TypeOK, convVars,
               ghostVars
    <2>3. NoProposal'
        BY <2>1, <2>2, CheckpointApart, Zenon
    <2> QED
        BY <1>3, <2>2, <2>3
<1>6. ASSUME NEW r \in Requests, RunRaises(r) PROVE ReadersApart'
    <2>1. ThreadOf(r) \in Threads /\ conversations' = conversations /\ approvals' = approvals
        BY <1>1, <1>6 DEF RunRaises, convVars, ghostVars
    <2>2. CASE checkpoints' = [checkpoints EXCEPT ![ThreadOf(r)] = {}]
        <3>1. /\ \A u \in Threads : u # ThreadOf(r) => checkpoints'[u] = checkpoints[u]
              /\ checkpoints'[ThreadOf(r)] = {}
            BY <2>1, <2>2 DEF TypeOK
        <3>2. NoProposal'
            BY <2>1, <3>1, CheckpointApart, Zenon
        <3> QED
            BY <1>3, <2>1, <3>2
    <2>3. CASE UNCHANGED checkpoints
        BY <1>2, <1>3, <2>1, <2>3
    <2> QED
        BY <1>6, <2>2, <2>3 DEF RunRaises
<1>7. ASSUME NEW r \in Requests, RunReturns(r) PROVE ReadersApart'
    <2>1. /\ ThreadOf(r) \in Threads /\ Conv(r) # None
          /\ conversations' = conversations /\ approvals' = approvals
        BY <1>1, <1>7 DEF RunReturns, Busy, convVars, ghostVars
    <2>2. PICK actions \in SUBSET Command :
             /\ actions # {} => ~ ReaderAgent(r)
             /\ checkpoints' = [checkpoints EXCEPT ![ThreadOf(r)] = actions]
        BY <1>7 DEF RunReturns
    <2>3. actions = {} \/ Conv(r).owner_id \notin Readers
        BY <2>1, <2>2 DEF ReaderAgent
    <2>4. /\ \A u \in Threads : u # ThreadOf(r) => checkpoints'[u] = checkpoints[u]
          /\ checkpoints'[ThreadOf(r)] = {} \/ Conv(r).owner_id \notin Readers
        BY <2>1, <2>2, <2>3 DEF TypeOK
    <2>5. NoProposal'
        BY <2>1, <2>4, CheckpointApart, Zenon DEF Conv
    <2> QED
        BY <1>3, <2>1, <2>5
<1>8. ASSUME NEW r \in Requests, Resync(r) \/ SaveSnapshot(r) PROVE ReadersApart'
    <2>1. ThreadOf(r) \in Threads /\ conversations[ThreadOf(r)] # None
        BY <1>1, <1>8 DEF Resync, SaveSnapshot, Accepted, Readable, Conv
    <2>2. /\ UNCHANGED <<checkpoints, approvals>>
          /\ \E failed \in BOOLEAN, reviewer \in {None, Reviewer(r)} :
                conversations' = [conversations EXCEPT ![ThreadOf(r)] =
                                     Saved(@, Interrupts(ThreadOf(r)), failed, reviewer)]
        BY <1>8 DEF Resync, SaveSnapshot, ghostVars
    <2> QED
        BY <1>3, <2>1, <2>2, SaveApart
<1>9. ASSUME NEW r \in Requests, DeleteMetadata(r) PROVE ReadersApart'
    <2>1. NoProposal'
        BY <1>1, <1>9 DEF DeleteMetadata, NoProposal, Interrupts, TypeOK
    <2> QED
        BY <1>3, <1>9, <2>1 DEF DeleteMetadata, ghostVars
<1>10. ASSUME NEW r \in Requests, Resume(r) PROVE ReadersApart'
    <2>1. ThreadOf(r) \in Threads /\ Conv(r) # None /\ Interrupts(ThreadOf(r)) # {}
        BY <1>1, <1>10 DEF Resume, GiveDecision, Busy
    <2>2. Conv(r).owner_id \notin Readers
        BY <2>1 DEF NoProposal, Conv
    <2>3. NoProposal'
        BY <1>2, <1>10 DEF Resume, GiveDecision, convVars
    <2>4. \A d \in approvals' : d \in approvals \/ d.owner = Conv(r).owner_id
        BY <1>10 DEF Resume, GiveDecision
    <2> QED
        BY <2>2, <2>3, <2>4 DEF ReadersApart
<1>11. CASE UNCHANGED <<conversations, checkpoints, approvals>>
    BY <1>2, <1>3, <1>11
<1>12. ASSUME NEW r \in Requests,
              Refuse(r) \/ NothingToDecide(r) \/ ToolTimeout(r) \/ StoreFails(r)
                 \/ \E k \in Calls, c \in Command : SendTool(r, k, c)
       PROVE  ReadersApart'
    BY <1>11, <1>12
       DEF Refuse, NothingToDecide, ToolTimeout, StoreFails, SendTool, convVars, ghostVars
<1>13. ASSUME NEW k \in Calls, CallStep(k) PROVE ReadersApart'
    BY <1>11, <1>13 DEF CallStep, Authorize, Execute, BusinessRefusal, convVars, ghostVars
<1>14. ASSUME NEW r \in Requests, NEW u \in Users, NEW kind \in Kinds, NEW t \in Threads,
              Arrive(r, u, kind, t)
       PROVE  ReadersApart'
    BY <1>11, <1>14 DEF Arrive, convVars, ghostVars
<1>15. CASE ApiCrash \/ (\E u \in Deactivatable : Deactivate(u)) \/ UNCHANGED vars
    BY <1>11, <1>15 DEF ApiCrash, Deactivate, convVars, ghostVars, vars
<1> QED
    BY <1>4, <1>5, <1>6, <1>7, <1>8, <1>9, <1>10, <1>12, <1>13, <1>14, <1>15
       DEF Next, RequestStep

\* Neither agent ever finds, and no supervisor decides, a proposal in the conversation
\* of a reader, and no incident has one as its proposer.
THEOREM ReadersRead == Spec => []ReadersOnlyRead
<1>1. Init => ReadersApart
    BY DEF Init, ReadersApart, NoProposal
<1>2. Invariant /\ ReadersApart => ReadersOnlyRead
    BY DEF Invariant, Provenance, WritesComeFromApprovals, ReadersApart, NoProposal,
           ReadersOnlyRead
<1> QED
    BY <1>1, <1>2, NextApart, InvariantHolds, PTL DEF Spec
===============================================================================
