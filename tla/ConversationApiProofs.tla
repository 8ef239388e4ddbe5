------------------------ MODULE ConversationApiProofs ------------------------
(***************************************************************************)
(* Proofs about ConversationApi, for any number of threads, requests, tool *)
(* calls, users and faults.                                                *)
(*                                                                         *)
(* The inductive invariant comes in layers, each proved from the previous  *)
(* ones: Typing, Exclusion (what the lock queue gives), Stores (what the   *)
(* lock holder may rely on in the two stores), Provenance (where calls,    *)
(* and then audits, come from).                                            *)
(***************************************************************************)
EXTENDS ConversationApi, TLAPS

Busy == {"resuming", "running", "saving", "saving_failed", "deleting"}

\* A request has a job while it is served, and tool calls while it runs.
JobState ==
    \A r \in Requests :
       /\ job[r] = None <=> pc[r] = "idle"
       /\ pc[r] # "running" => todo[r] = {}

\* What the types of audits rest on.
AuthorizedCalls ==
    \A k \in Calls :
       mcp[k] # None /\ mcp[k].stage = "authorized" =>
          mcp[k].user_id \in Supervisors /\ mcp[k].proposer \in Users

\* The row that the operation in progress has found is still there.
RowStays == \A r \in Requests : pc[r] \in Busy => Conv(r) # None

\* Only the head of the queue works.
Exclusion == \A r \in Requests : pc[r] \in Busy => HasLock(r)

Typing == TypeOK /\ JobState /\ AuthorizedCalls /\ Exclusion /\ RowStays

-----------------------------------------------------------------------------

LEMMA InitTyping == Init => Typing
BY NoneAssumption, MaxFaultsAssumption
   DEF Init, R!Init, R!Incident, Typing, TypeOK, JobState, AuthorizedCalls, Exclusion,
       RowStays, Busy, PCs

\* At most one request works on a thread.
LEMMA OneAtATime ==
    ASSUME Typing, NEW r \in Requests, NEW s \in Requests,
           HasLock(r), pc[s] \in Busy, ThreadOf(s) = ThreadOf(r)
    PROVE  r = s
BY DEF Typing, Exclusion, HasLock, ThreadOf

\* The row that save_state writes.
LEMMA SavedType ==
    ASSUME NEW conv \in Conversation, NEW actions \in SUBSET Command,
           NEW failed \in BOOLEAN, NEW reviewer \in Users \union {None}
    PROVE  /\ Saved(conv, actions, failed, reviewer) \in Conversation
           /\ Saved(conv, actions, failed, reviewer).owner_id = conv.owner_id
BY DEF Saved, Conversation

LEMMA InterruptsType ==
    ASSUME TypeOK, NEW t \in Threads
    PROVE  Interrupts(t) \in SUBSET Command
BY DEF TypeOK, Interrupts

\* A request that ends gives its lock back and disturbs no other holder.
LEMMA Finishing ==
    ASSUME Typing, NEW r \in Requests, pc[r] # "idle", HasLock(r), Finish(r)
    PROVE  /\ queue' \in [Threads -> Seq(Requests)]
           /\ pc' \in [Requests -> PCs]
           /\ job' \in [Requests -> Job \union {None}]
           /\ todo' \in [Requests -> SUBSET Command]
           /\ JobState' /\ Exclusion'
           /\ ThreadOf(r) \in Threads
           /\ \A s \in Requests : pc'[s] \in Busy =>
                 /\ pc[s] = pc'[s] /\ job'[s] = job[s]
                 /\ ThreadOf(s) # ThreadOf(r)
<1> USE DEF Typing, TypeOK, Finish, ThreadOf, HasLock
<1>1. ThreadOf(r) \in Threads
    BY DEF JobState, Job
<1>2. queue' \in [Threads -> Seq(Requests)]
    BY <1>1
<1>3. /\ pc' \in [Requests -> PCs]
      /\ job' \in [Requests -> Job \union {None}]
      /\ todo' \in [Requests -> SUBSET Command]
    BY DEF PCs
<1>4. JobState'
    BY DEF JobState
<1>5. \A s \in Requests : pc'[s] \in Busy =>
         pc[s] = pc'[s] /\ job'[s] = job[s] /\ ThreadOf(s) # ThreadOf(r)
    BY DEF Exclusion, Busy
<1>6. Exclusion'
    BY <1>1, <1>5 DEF Exclusion
<1> QED
    BY <1>1, <1>2, <1>3, <1>4, <1>5, <1>6

\* A lock holder that goes on to x, with no change of jobs and queues.
LEMMA Working ==
    ASSUME Typing, NEW r \in Requests, pc[r] # "idle", HasLock(r),
           NEW x \in Busy, pc' = [pc EXCEPT ![r] = x], UNCHANGED <<job, queue>>
    PROVE  /\ pc' \in [Requests -> PCs]
           /\ Exclusion'
           /\ job[r] \in Job /\ ThreadOf(r) \in Threads
           /\ x # "running" /\ todo'[r] = {}
                 /\ (\A s \in Requests : s # r => todo'[s] = todo[s]) => JobState'
           /\ x = "running" /\ (\A s \in Requests : s # r => todo'[s] = todo[s])
                 => JobState'
<1> USE DEF Typing, TypeOK, ThreadOf
<1>1. pc' \in [Requests -> PCs]
    BY DEF PCs, Busy
<1>2. Exclusion'
    BY DEF Exclusion, HasLock
<1>3. job[r] \in Job /\ ThreadOf(r) \in Threads
    BY DEF JobState, Job
<1>4. x # "running" /\ todo'[r] = {} /\ (\A s \in Requests : s # r => todo'[s] = todo[s])
         => JobState'
    BY DEF JobState, Busy
<1>5. x = "running" /\ (\A s \in Requests : s # r => todo'[s] = todo[s]) => JobState'
    BY DEF JobState, Busy
<1> QED
    BY <1>1, <1>2, <1>3, <1>4, <1>5

\* The rows found stay when no row disappears and nobody starts without one.
LEMMA RowsStay ==
    ASSUME Typing, UNCHANGED job,
           \A t \in Threads : conversations[t] # None => conversations'[t] # None,
           \A r \in Requests : pc'[r] \in Busy =>
              pc[r] \in Busy \/ (pc[r] # "idle" /\ Conv(r) # None)
    PROVE  RowStays'
<1> SUFFICES ASSUME NEW r \in Requests, pc'[r] \in Busy PROVE Conv(r)' # None
    BY DEF RowStays
<1>1. pc[r] # "idle" /\ Conv(r) # None
    BY DEF Typing, RowStays, Busy
<1>2. ThreadOf(r) \in Threads
    BY <1>1 DEF Typing, TypeOK, JobState, Job, ThreadOf
<1> QED
    BY <1>1, <1>2 DEF Conv, ThreadOf
\* What the program counter says about a job and its row.
LEMMA Serving ==
    ASSUME Typing, NEW r \in Requests, pc[r] # "idle"
    PROVE  /\ job[r] \in Job /\ job[r] # None
           /\ ThreadOf(r) \in Threads /\ UserOf(r) \in AppUser
           /\ UserOf(r).user_id \in Users
           /\ Conv(r) # None => Conv(r) \in Conversation
BY DEF Typing, TypeOK, JobState, Job, ThreadOf, UserOf, Conv, AppUser

\* What an authorized call writes has the types of the registry.
LEMMA WritesAreTyped ==
    ASSUME incidents \subseteq R!Incident, audits \subseteq R!Audit,
           NEW id \in AuditIds, NEW c \in Command, NEW actor \in Supervisors,
           NEW proposer \in Users, R!CreateOrGet(id, c, actor, proposer)
    PROVE  incidents' \subseteq R!Incident /\ audits' \subseteq R!Audit
<1>1. CASE R!Create(id, c, actor, proposer)
    BY <1>1 DEF R!Create, R!IncidentOf, R!AuditOf, R!Incident, R!Audit, Command, R!Command
<1>2. CASE R!Replay(id, c, actor, proposer)
    BY <1>2 DEF R!Replay, R!SameContent, R!WithKey, R!AuditOf, R!Incident, R!Audit
<1> QED
    BY <1>1, <1>2 DEF R!CreateOrGet

\* Every step keeps the types, and what goes with them.
LEMMA NextTyping == Typing /\ [Next]_vars => Typing'
<1> SUFFICES ASSUME Typing, [Next]_vars PROVE Typing'
    OBVIOUS
<1> TypeOK /\ JobState /\ AuthorizedCalls /\ Exclusion /\ RowStays
    BY DEF Typing
<1>1. ASSUME NEW u \in Users, NEW t \in Threads, NewConversation(u, t)
      PROVE  Typing'
    <2> USE <1>1 DEF NewConversation, reqVars, dbVars, ghostVars
    <2> DEFINE row == [owner_id |-> u, status |-> "completed", pending_actions |-> {},
                       reviewer_id |-> None]
    <2>1. row \in Conversation /\ row # None
        BY NoneAssumption DEF Conversation
    <2>2. conversations' = [conversations EXCEPT ![t] = row]
        OBVIOUS
    <2> HIDE DEF row
    <2>3. TypeOK'
        BY <2>1, <2>2 DEF TypeOK
    <2>4. JobState' /\ AuthorizedCalls' /\ Exclusion'
        BY DEF JobState, AuthorizedCalls, Exclusion, HasLock, ThreadOf
    <2>5. RowStays'
        BY <2>1, <2>2, RowsStay DEF TypeOK
    <2> QED
        BY <2>3, <2>4, <2>5 DEF Typing
<1>2. ASSUME NEW r \in Requests, NEW u \in Users, NEW kind \in Kinds, NEW t \in Threads,
             Arrive(r, u, kind, t)
      PROVE  Typing'
    <2> USE <1>2 DEF Arrive, convVars, dbVars, ghostVars
    <2> DEFINE new == [kind |-> kind, user |-> ReadUser(u), thread |-> t]
    <2>1. new \in Job /\ new # None
        <3>1. active[u] \in BOOLEAN
            BY DEF TypeOK
        <3>2. ReadUser(u) \in AppUser
            BY <3>1, Zenon DEF ReadUser, AppUser
        <3>3. new \in Job
            BY <3>2, Zenon DEF Job
        <3> QED
            BY <3>3, NoneAssumption
    <2>2. job' = [job EXCEPT ![r] = new]
        OBVIOUS
    <2> HIDE DEF new
    <2>3. queue' \in [Threads -> Seq(Requests)]
        BY DEF TypeOK
    <2>4. \A s \in Requests : pc'[s] \in Busy =>
             s # r /\ pc[s] \in Busy /\ job'[s] = job[s] /\ ThreadOf(s) \in Threads
        BY <2>2, Serving DEF TypeOK, Busy
    <2>5. \A s \in Threads :
             queue[s] # <<>> => queue'[s] # <<>> /\ Head(queue'[s]) = Head(queue[s])
        BY DEF TypeOK
    <2>6. TypeOK'
        BY <2>1, <2>2, <2>3 DEF TypeOK, PCs
    <2>7. JobState'
        BY <2>1, <2>2 DEF JobState, TypeOK
    <2>8. Exclusion'
        BY <2>4, <2>5 DEF Exclusion, HasLock, ThreadOf
    <2>9. RowStays'
        BY <2>4 DEF RowStays, Conv, ThreadOf
    <2> QED
        BY <2>6, <2>7, <2>8, <2>9 DEF Typing, AuthorizedCalls
<1>3. ASSUME NEW r \in Requests,
             pc[r] # "idle", HasLock(r), Finish(r),
             conversations' \in [Threads -> Conversation \union {None}],
             \A t \in Threads \ {ThreadOf(r)} : conversations'[t] = conversations[t],
             faults' \in 0 .. MaxFaults,
             UNCHANGED <<used, checkpoints, active, mcp, dbVars, ghostVars>>
      PROVE  Typing'
    <2> USE <1>3
    <2>1. TypeOK'
        BY Finishing DEF TypeOK, dbVars, ghostVars
    <2>2. JobState' /\ Exclusion'
        BY Finishing
    <2>3. AuthorizedCalls'
        BY DEF AuthorizedCalls
    <2>4. RowStays'
        <3> SUFFICES ASSUME NEW s \in Requests, pc'[s] \in Busy PROVE Conv(s)' # None
            BY DEF RowStays
        <3>1. pc[s] \in Busy /\ job'[s] = job[s] /\ ThreadOf(s) # ThreadOf(r)
            BY Finishing
        <3>2. ThreadOf(s) \in Threads /\ Conv(s) # None
            BY <3>1, Serving DEF RowStays, Busy
        <3> QED
            BY <3>1, <3>2 DEF Conv, ThreadOf
    <2> QED
        BY <2>1, <2>2, <2>3, <2>4 DEF Typing
<1>4. ASSUME NEW r \in Requests, Refuse(r) PROVE Typing'
    BY <1>4, <1>3 DEF Refuse, convVars, dbVars, ghostVars, TypeOK
<1>5. ASSUME NEW r \in Requests, NothingToDecide(r) PROVE Typing'
    BY <1>5, <1>3 DEF NothingToDecide, convVars, dbVars, ghostVars, TypeOK, Exclusion, Busy
<1>6. ASSUME NEW r \in Requests, DeleteMetadata(r) PROVE Typing'
    BY <1>6, <1>3 DEF DeleteMetadata, convVars, dbVars, ghostVars, TypeOK, Exclusion, Busy
<1>7. ASSUME NEW r \in Requests, SaveSnapshot(r) PROVE Typing'
    <2> USE <1>7 DEF SaveSnapshot
    <2>1. pc[r] # "idle" /\ HasLock(r) /\ Conv(r) \in Conversation /\ ThreadOf(r) \in Threads
        BY Serving DEF Exclusion, Busy
    <2>2. Reviewer(r) \in Users \union {None}
        BY <2>1, Serving DEF Reviewer
    <2>3. Saved(Conv(r), Interrupts(ThreadOf(r)), pc[r] = "saving_failed", Reviewer(r))
             \in Conversation
        BY <2>1, <2>2, SavedType, InterruptsType
    <2>4. conversations' = [conversations EXCEPT ![ThreadOf(r)] =
             Saved(Conv(r), Interrupts(ThreadOf(r)), pc[r] = "saving_failed", Reviewer(r))]
        BY DEF Conv
    <2> QED
        BY <1>3, <2>1, <2>3, <2>4 DEF dbVars, ghostVars, TypeOK
<1>8. ASSUME NEW r \in Requests, StoreFails(r) PROVE Typing'
    <2> USE <1>8 DEF StoreFails, convVars
    <2>1. faults' \in 0 .. MaxFaults
        BY MaxFaultsAssumption DEF TypeOK
    <2>2. conversations' = conversations /\ conversations' \in [Threads -> Conversation \union {None}]
        BY DEF TypeOK
    <2> QED
        BY <1>3, <2>1, <2>2
<1>9. ASSUME NEW r \in Requests, NEW x \in Busy,
             pc[r] # "idle", HasLock(r), Conv(r) # None,
             pc' = [pc EXCEPT ![r] = x],
             UNCHANGED <<job, queue, used, active, incidents, audits, faults>>,
             conversations' \in [Threads -> Conversation \union {None}],
             \A t \in Threads : conversations[t] # None => conversations'[t] # None,
             checkpoints' \in [Threads -> (SUBSET Command) \union {None}],
             todo' \in [Requests -> SUBSET Command],
             \A s \in Requests : s # r => todo'[s] = todo[s],
             x # "running" => todo'[r] = {},
             mcp' \in [Calls -> Call \union {None}], AuthorizedCalls',
             approvals' \subseteq [thread : Threads, owner : Users, reviewer : Users,
                                   commands : SUBSET Command],
             decider' \in [Threads -> Users \union {None}]
      PROVE  Typing'
    <2> USE <1>9
    <2>1. pc' \in [Requests -> PCs] /\ Exclusion' /\ JobState'
        BY Working
    <2>2. TypeOK'
        BY <2>1 DEF TypeOK
    <2>3. \A s \in Requests : pc'[s] \in Busy =>
             pc[s] \in Busy \/ (pc[s] # "idle" /\ Conv(s) # None)
        BY DEF TypeOK
    <2>4. RowStays'
        BY <2>3, RowsStay
    <2> QED
        BY <2>1, <2>2, <2>4 DEF Typing
<1>10. ASSUME NEW r \in Requests, StartChat(r) PROVE Typing'
    <2> USE <1>10 DEF StartChat, convVars, dbVars, ghostVars
    <2>1. Conv(r) # None /\ ThreadOf(r) \in Threads /\ todo[r] = {}
        BY Serving DEF Accepted, Readable, JobState
    <2>2. checkpoints' \in [Threads -> (SUBSET Command) \union {None}]
        BY <2>1 DEF TypeOK
    <2>3. AuthorizedCalls'
        BY DEF AuthorizedCalls
    <2> QED
        BY <1>9, <2>1, <2>2, <2>3 DEF TypeOK, Busy
<1>11. ASSUME NEW r \in Requests, Resync(r) PROVE Typing'
    <2> USE <1>11 DEF Resync, dbVars, ghostVars
    <2>1. Conv(r) \in Conversation /\ Conv(r) # None /\ ThreadOf(r) \in Threads /\ todo[r] = {}
        BY Serving DEF Accepted, Readable, JobState
    <2> DEFINE row == Saved(Conv(r), Interrupts(ThreadOf(r)), FALSE, None)
    <2>2. row \in Conversation /\ row # None
        <3>1. Interrupts(ThreadOf(r)) \in SUBSET Command
            BY <2>1, InterruptsType
        <3>2. row \in Conversation
            BY <2>1, <3>1, SavedType
        <3> QED
            BY <3>2, NoneAssumption
    <2>3. conversations' = [conversations EXCEPT ![ThreadOf(r)] = row]
        BY DEF Conv
    <2> HIDE DEF row
    <2>4. AuthorizedCalls'
        BY DEF AuthorizedCalls
    <2>5. /\ conversations' \in [Threads -> Conversation \union {None}]
          /\ \A t \in Threads : conversations[t] # None => conversations'[t] # None
        BY <2>1, <2>2, <2>3 DEF TypeOK
    <2> QED
        BY <1>9, <2>1, <2>4, <2>5 DEF TypeOK, Busy
<1>12. ASSUME NEW r \in Requests, Resume(r) PROVE Typing'
    <2> USE <1>12 DEF Resume, GiveDecision, convVars, dbVars
    <2>1. /\ HasLock(r) /\ Conv(r) # None /\ Conv(r) \in Conversation
          /\ ThreadOf(r) \in Threads /\ UserOf(r).user_id \in Users
        BY Serving DEF Exclusion, RowStays, Busy
    <2>2. Interrupts(ThreadOf(r)) \in SUBSET Command /\ Conv(r).owner_id \in Users
        BY <2>1, InterruptsType DEF Conversation
    <2>3. decider' \in [Threads -> Users \union {None}]
        BY <2>1 DEF TypeOK
    <2>4. /\ todo' \in [Requests -> SUBSET Command]
          /\ \A s \in Requests : s # r => todo'[s] = todo[s]
        BY <2>2 DEF TypeOK
    <2>5. approvals' \subseteq [thread : Threads, owner : Users, reviewer : Users,
                                commands : SUBSET Command]
        BY <2>1, <2>2 DEF TypeOK
    <2>6. AuthorizedCalls'
        BY DEF AuthorizedCalls
    <2> QED
        BY <1>9, <2>1, <2>3, <2>4, <2>5, <2>6 DEF TypeOK, Busy
<1>13. ASSUME NEW r \in Requests, DeleteCheckpoint(r) PROVE Typing'
    <2> USE <1>13 DEF DeleteCheckpoint, convVars, dbVars, ghostVars
    <2>1. Conv(r) # None /\ ThreadOf(r) \in Threads /\ todo[r] = {}
        BY Serving DEF Accepted, Readable, JobState
    <2>2. checkpoints' \in [Threads -> (SUBSET Command) \union {None}]
        BY <2>1 DEF TypeOK
    <2>3. AuthorizedCalls'
        BY DEF AuthorizedCalls
    <2> QED
        BY <1>9, <2>1, <2>2, <2>3 DEF TypeOK, Busy
<1>14. ASSUME NEW r \in Requests, RunReturns(r) PROVE Typing'
    <2> USE <1>14 DEF RunReturns, convVars, dbVars, ghostVars
    <2>1. HasLock(r) /\ Conv(r) # None /\ ThreadOf(r) \in Threads
        BY Serving DEF Exclusion, RowStays, Busy
    <2>2. checkpoints' \in [Threads -> (SUBSET Command) \union {None}]
        BY <2>1 DEF TypeOK
    <2>3. AuthorizedCalls'
        BY DEF AuthorizedCalls
    <2> QED
        BY <1>9, <2>1, <2>2, <2>3 DEF TypeOK, Busy
<1>15. ASSUME NEW ks, ks \subseteq Calls, \A k \in ks : mcp[k] # None, mcp' = Orphaned(ks)
       PROVE  mcp' \in [Calls -> Call \union {None}] /\ AuthorizedCalls'
    <2>1. \A k \in ks : mcp[k] \in Call
        BY <1>15 DEF TypeOK
    <2>2. \A k \in ks :
             /\ mcp'[k] \in Call
             /\ mcp'[k].stage = mcp[k].stage /\ mcp'[k].user_id = mcp[k].user_id
             /\ mcp'[k].proposer = mcp[k].proposer
        BY <1>15, <2>1 DEF Orphaned, Call
    <2>3. /\ \A k \in Calls \ ks : mcp'[k] = mcp[k]
          /\ mcp' = [k \in Calls |-> mcp'[k]]
        BY <1>15 DEF Orphaned
    <2> QED
        BY <1>15, <2>2, <2>3 DEF TypeOK, AuthorizedCalls
<1>16. ASSUME NEW r \in Requests, RunRaises(r) \/ ToolForbidden(r) PROVE Typing'
    <2> USE <1>16 DEF RunRaises, ToolForbidden, Raise, convVars, dbVars, ghostVars
    <2>1. HasLock(r) /\ Conv(r) # None /\ ThreadOf(r) \in Threads
        BY Serving DEF Exclusion, RowStays, Busy
    <2>2. checkpoints' \in [Threads -> (SUBSET Command) \union {None}]
        BY <2>1 DEF TypeOK
    <2>3. mcp' \in [Calls -> Call \union {None}] /\ AuthorizedCalls'
        <3>1. CASE mcp' = mcp
            BY <3>1 DEF TypeOK, AuthorizedCalls
        <3>2. CASE mcp' = Orphaned(InFlight(r))
            BY <3>2, <1>15 DEF InFlight
        <3> QED
            BY <3>1, <3>2
    <2> QED
        BY <1>9, <2>1, <2>2, <2>3 DEF TypeOK, Busy
<1>17. ASSUME NEW r \in Requests, PersistResume(r) PROVE Typing'
    <2> USE <1>17 DEF PersistResume, convVars, reqVars, dbVars, ghostVars
    <2>1. checkpoints' \in [Threads -> (SUBSET Command) \union {None}]
        BY Serving DEF TypeOK
    <2>2. TypeOK'
        BY <2>1 DEF TypeOK
    <2> QED
        BY <2>2 DEF Typing, JobState, AuthorizedCalls, Exclusion, RowStays, HasLock,
                    Conv, ThreadOf
<1>18. ASSUME UNCHANGED <<convVars, checkpoints, active, pc, job, queue, approvals, decider>>,
              todo' \in [Requests -> SUBSET Command],
              \A r \in Requests : pc[r] # "running" => todo'[r] = todo[r],
              mcp' \in [Calls -> Call \union {None}], AuthorizedCalls',
              incidents' \subseteq R!Incident, audits' \subseteq R!Audit,
              faults' \in 0 .. MaxFaults
       PROVE  Typing'
    <2> USE <1>18 DEF convVars
    <2>1. TypeOK'
        BY DEF TypeOK
    <2>2. JobState'
        BY DEF JobState
    <2> QED
        BY <2>1, <2>2 DEF Typing, Exclusion, RowStays, HasLock, Conv, ThreadOf
<1>19. ASSUME NEW r \in Requests, NEW k \in Calls, NEW c \in Command, SendTool(r, k, c)
       PROVE  Typing'
    <2> USE <1>19 DEF SendTool, dbVars, ghostVars
    <2> DEFINE call == [request |-> r, thread |-> ThreadOf(r), user_id |-> UserOf(r).user_id,
                        approved |-> job[r].kind = "approve", command |-> c,
                        stage |-> "received", proposer |-> None]
    <2>1. call \in Call /\ call.stage = "received"
        BY Serving DEF Call
    <2>2. mcp' = [mcp EXCEPT ![k] = call]
        OBVIOUS
    <2> HIDE DEF call
    <2>3. mcp' \in [Calls -> Call \union {None}] /\ AuthorizedCalls'
        BY <2>1, <2>2 DEF TypeOK, AuthorizedCalls
    <2>4. /\ todo' \in [Requests -> SUBSET Command]
          /\ \A s \in Requests : pc[s] # "running" => todo'[s] = todo[s]
        BY DEF TypeOK
    <2> QED
        BY <1>18, <2>3, <2>4 DEF TypeOK
<1>20. ASSUME NEW r \in Requests, ToolTimeout(r) PROVE Typing'
    <2> USE <1>20 DEF ToolTimeout, reqVars, dbVars, ghostVars
    <2>1. mcp' \in [Calls -> Call \union {None}] /\ AuthorizedCalls'
        <3>1. PICK ks \in SUBSET InFlight(r) : mcp' = Orphaned(ks)
            OBVIOUS
        <3> QED
            BY <3>1, <1>15 DEF InFlight
    <2>2. faults' \in 0 .. MaxFaults
        BY MaxFaultsAssumption DEF TypeOK
    <2> QED
        BY <1>18, <2>1, <2>2 DEF TypeOK
<1>21. ASSUME NEW k \in Calls, Authorize(k) PROVE Typing'
    <2> USE <1>21 DEF Authorize, reqVars, dbVars, ghostVars
    <2>1. mcp[k] \in Call
        BY DEF TypeOK
    <2>2. CASE ~ Authorized(k)
        <3>1. mcp' \in [Calls -> Call \union {None}] /\ AuthorizedCalls'
            BY <2>2 DEF TypeOK, AuthorizedCalls
        <3> QED
            BY <1>18, <3>1 DEF TypeOK
    <2>3. CASE Authorized(k)
        <3> DEFINE call == [mcp[k] EXCEPT !.stage = "authorized", !.proposer = ProposerOf(k)]
        <3>1. mcp[k].user_id \in Supervisors
            BY <2>3 DEF Authorized, CanApprove, ReadUser
        <3>2. ProposerOf(k) \in Users
            BY <2>1, <2>3 DEF Authorized, ProposerOf, Call, TypeOK, Conversation
        <3>3. call \in Call /\ call.user_id \in Supervisors /\ call.proposer \in Users
            BY <2>1, <3>1, <3>2 DEF Call
        <3>4. mcp' = [mcp EXCEPT ![k] = call]
            BY <2>3
        <3> HIDE DEF call
        <3>5. mcp' \in [Calls -> Call \union {None}] /\ AuthorizedCalls'
            BY <3>3, <3>4 DEF TypeOK, AuthorizedCalls
        <3> QED
            BY <1>18, <3>5 DEF TypeOK
    <2> QED
        BY <2>2, <2>3
<1>22. ASSUME NEW k \in Calls, mcp' = [mcp EXCEPT ![k] = None]
       PROVE  mcp' \in [Calls -> Call \union {None}] /\ AuthorizedCalls'
    BY <1>22 DEF TypeOK, AuthorizedCalls
<1>23. ASSUME NEW k \in Calls, Execute(k) PROVE Typing'
    <2> USE <1>23 DEF Execute, reqVars, ghostVars
    <2>1. /\ mcp[k].command \in Command /\ mcp[k].user_id \in Supervisors
          /\ mcp[k].proposer \in Users
        BY DEF TypeOK, Call, AuthorizedCalls
    <2>2. PICK id \in AuditIds :
             R!CreateOrGet(id, mcp[k].command, mcp[k].user_id, mcp[k].proposer)
        OBVIOUS
    <2>3. incidents' \subseteq R!Incident /\ audits' \subseteq R!Audit
        BY <2>1, <2>2, WritesAreTyped DEF TypeOK
    <2> QED
        BY <1>18, <1>22, <2>3 DEF TypeOK
<1>24. ASSUME NEW k \in Calls, BusinessRefusal(k) PROVE Typing'
    BY <1>18, <1>22, <1>24 DEF BusinessRefusal, reqVars, dbVars, ghostVars, TypeOK
<1>25. CASE ApiCrash
    <2> USE <1>25 DEF ApiCrash, convVars, dbVars, ghostVars
    <2>1. mcp' \in [Calls -> Call \union {None}] /\ AuthorizedCalls'
        BY <1>15
    <2>2. TypeOK'
        BY <2>1, MaxFaultsAssumption DEF TypeOK, PCs
    <2>3. JobState' /\ Exclusion' /\ RowStays'
        BY DEF JobState, Exclusion, RowStays, Busy
    <2> QED
        BY <2>1, <2>2, <2>3 DEF Typing
<1>26. ASSUME NEW u \in Deactivatable, Deactivate(u) PROVE Typing'
    <2> USE <1>26 DEF Deactivate, convVars, reqVars, dbVars, ghostVars
    <2>1. active' \in [Users -> BOOLEAN]
        BY DeactivatableAssumption DEF TypeOK
    <2>2. TypeOK'
        BY <2>1 DEF TypeOK
    <2> QED
        BY <2>2 DEF Typing, JobState, AuthorizedCalls, Exclusion, RowStays, HasLock,
                    Conv, ThreadOf
<1>27. CASE UNCHANGED vars
    BY <1>27 DEF vars, convVars, reqVars, dbVars, ghostVars, Typing, TypeOK, JobState,
                 AuthorizedCalls, Exclusion, RowStays, HasLock, Conv, ThreadOf
<1> QED
    BY <1>1, <1>2, <1>4, <1>5, <1>6, <1>7, <1>8, <1>10, <1>11, <1>12, <1>13, <1>14, <1>16,
       <1>17, <1>19, <1>20, <1>21, <1>23, <1>24, <1>25, <1>26, <1>27
       DEF Next, RequestStep, CallStep

\* The state always has its declared types: rows, checkpoints, queue, calls,
\* incidents and audits (api/main.py, mcp/server.py).
THEOREM TypeCorrect == Spec => []TypeOK
<1>1. Typing => TypeOK
    BY DEF Typing
<1> QED
    BY <1>1, InitTyping, NextTyping, PTL DEF Spec

-----------------------------------------------------------------------------
(* Two stores, one lock *)

CheckpointHasRow ==
    \A t \in Threads : checkpoints[t] # None => conversations[t] # None

\* What the lock holder may rely on, from the checks it has made until it is done.
HolderKnows ==
    \A r \in Requests :
       /\ pc[r] = "deleting" => checkpoints[ThreadOf(r)] = None
       /\ pc[r] = "running" => job[r].kind # "delete"
       /\ pc[r] = "running" /\ job[r].kind = "chat" => checkpoints[ThreadOf(r)] = {}
       /\ pc[r] = "resuming" =>
             /\ job[r].kind \in {"approve", "reject"}
             /\ UserOf(r).user_id \in Supervisors
             /\ Conv(r).owner_id = UserOf(r).user_id \/ Conv(r).owner_id \in Operators
       /\ todo[r] # {} => job[r].kind = "approve"

KnownThreads == \A t \in Threads : conversations[t] # None => t \in used

Stores == CheckpointHasRow /\ HolderKnows /\ KnownThreads

LEMMA InitStores == Init => Stores
BY DEF Init, Stores, CheckpointHasRow, HolderKnows, KnownThreads

\* save_state keeps the row and its owner.
LEMMA SaveKeepsRow ==
    ASSUME Typing, NEW r \in Requests, SaveSnapshot(r)
    PROVE  /\ conversations' = [conversations EXCEPT ![ThreadOf(r)] = conversations'[ThreadOf(r)]]
           /\ conversations'[ThreadOf(r)] \in Conversation
           /\ conversations'[ThreadOf(r)] # None
           /\ conversations'[ThreadOf(r)].owner_id = Conv(r).owner_id
<1> TypeOK /\ pc[r] # "idle" /\ Conv(r) # None
    BY DEF Typing, SaveSnapshot
<1>1. Conv(r) \in Conversation /\ ThreadOf(r) \in Threads /\ UserOf(r).user_id \in Users
    BY Serving
<1>2. Interrupts(ThreadOf(r)) \in SUBSET Command /\ Reviewer(r) \in Users \union {None}
    BY <1>1, InterruptsType DEF Reviewer
<1> DEFINE row == Saved(Conv(r), Interrupts(ThreadOf(r)), pc[r] = "saving_failed", Reviewer(r))
<1>3. row \in Conversation /\ row.owner_id = Conv(r).owner_id
    BY <1>1, <1>2, SavedType
<1>4. conversations' = [conversations EXCEPT ![ThreadOf(r)] = row]
    BY DEF SaveSnapshot, Conv
<1> HIDE DEF row
<1> QED
    BY <1>1, <1>3, <1>4, NoneAssumption DEF TypeOK

\* Nobody else works on the thread of a lock holder.
LEMMA Alone ==
    ASSUME Typing, NEW r \in Requests, HasLock(r)
    PROVE  \A s \in Requests : s # r /\ pc[s] \in Busy => ThreadOf(s) # ThreadOf(r)
BY OneAtATime

\* A step of the lock holder r, seen from the other threads and requests.
OnlyWorks(r) ==
    /\ \A t \in Threads \ {ThreadOf(r)} :
          checkpoints'[t] = checkpoints[t] /\ conversations'[t] = conversations[t]
    /\ \A s \in Requests \ {r} :
          pc'[s] = pc[s] /\ job'[s] = job[s] /\ todo'[s] = todo[s]

LEMMA OthersKnow ==
    ASSUME Typing, HolderKnows, NEW r \in Requests, pc[r] # "idle", HasLock(r), OnlyWorks(r),
           NEW s \in Requests \ {r}
    PROVE  /\ pc'[s] = "deleting" => checkpoints'[ThreadOf(s)'] = None
           /\ pc'[s] = "running" => job'[s].kind # "delete"
           /\ pc'[s] = "running" /\ job'[s].kind = "chat" => checkpoints'[ThreadOf(s)'] = {}
           /\ pc'[s] = "resuming" =>
                 /\ job'[s].kind \in {"approve", "reject"}
                 /\ UserOf(s)'.user_id \in Supervisors
                 /\ \/ Conv(s)'.owner_id = UserOf(s)'.user_id
                    \/ Conv(s)'.owner_id \in Operators
           /\ todo'[s] # {} => job'[s].kind = "approve"
<1>1. CASE pc[s] \in Busy
    <2>1. ThreadOf(s) # ThreadOf(r) /\ ThreadOf(s) \in Threads
        BY <1>1, Alone, Serving DEF Busy
    <2> QED
        BY <2>1 DEF OnlyWorks, HolderKnows, ThreadOf, UserOf, Conv
<1>2. CASE pc[s] \notin Busy
    BY <1>2 DEF OnlyWorks, HolderKnows, Busy
<1> QED
    BY <1>1, <1>2

LEMMA NextStores == Typing /\ Stores /\ [Next]_vars => Stores'
<1> SUFFICES ASSUME Typing, Stores, [Next]_vars PROVE Stores'
    OBVIOUS
<1> /\ CheckpointHasRow /\ HolderKnows /\ KnownThreads
    /\ TypeOK /\ JobState /\ Exclusion /\ RowStays
    BY DEF Stores, Typing
<1>1. ASSUME NEW r \in Requests, pc[r] # "idle", HasLock(r), Finish(r),
             UNCHANGED <<conversations, checkpoints, used>>
      PROVE  Stores'
    <2> USE <1>1 DEF Finish
    <2>1. OnlyWorks(r)
        BY DEF OnlyWorks, TypeOK
    <2>2. pc'[r] = "idle" /\ todo'[r] = {}
        BY DEF TypeOK
    <2>3. HolderKnows'
        BY <2>1, <2>2, OthersKnow DEF HolderKnows
    <2> QED
        BY <2>3 DEF Stores, CheckpointHasRow, KnownThreads
<1>2. ASSUME NEW r \in Requests, pc[r] # "idle", HasLock(r), Conv(r) # None,
             NEW x \in Busy, pc' = [pc EXCEPT ![r] = x], UNCHANGED <<conversations, used, job>>,
             todo' \in [Requests -> SUBSET Command], todo'[r] \subseteq todo[r],
             \A s \in Requests \ {r} : todo'[s] = todo[s],
             NEW c \in (SUBSET Command) \union {None},
             checkpoints' = [checkpoints EXCEPT ![ThreadOf(r)] = c],
             x # "resuming", x = "deleting" => c = None,
             x = "running" => job[r].kind # "delete",
             x = "running" /\ job[r].kind = "chat" => c = {}
      PROVE  Stores'
    <2> USE <1>2
    <2>1. ThreadOf(r) \in Threads
        BY Serving
    <2>2. OnlyWorks(r)
        BY <2>1 DEF OnlyWorks, TypeOK
    <2>3. CheckpointHasRow'
        BY <2>1 DEF CheckpointHasRow, Conv, TypeOK
    <2>4. /\ pc'[r] = x /\ checkpoints'[ThreadOf(r)'] = c
        BY <2>1 DEF TypeOK, ThreadOf
    <2>5. HolderKnows'
        BY <2>2, <2>4, OthersKnow DEF HolderKnows
    <2> QED
        BY <2>3, <2>5 DEF Stores, KnownThreads
<1>3. ASSUME NEW r \in Requests, Refuse(r) PROVE Stores'
    BY <1>3, <1>1 DEF Refuse, convVars
<1>4. ASSUME NEW r \in Requests, NothingToDecide(r) PROVE Stores'
    BY <1>4, <1>1 DEF NothingToDecide, convVars, Exclusion, Busy
<1>5. ASSUME NEW r \in Requests, StoreFails(r) PROVE Stores'
    BY <1>5, <1>1 DEF StoreFails, convVars
<1>6. ASSUME NEW r \in Requests, SaveSnapshot(r) \/ DeleteMetadata(r) PROVE Stores'
    <2> USE <1>6 DEF SaveSnapshot, DeleteMetadata, Finish
    <2>1. pc[r] # "idle" /\ HasLock(r) /\ ThreadOf(r) \in Threads /\ Conv(r) # None
        BY Serving DEF Exclusion, RowStays, Busy
    <2>2. OnlyWorks(r)
        BY <2>1 DEF OnlyWorks, TypeOK
    <2>3. pc'[r] = "idle" /\ todo'[r] = {}
        BY DEF TypeOK
    <2>4. HolderKnows'
        BY <2>1, <2>2, <2>3, OthersKnow DEF HolderKnows
    <2>5. CASE DeleteMetadata(r)
        <3>1. checkpoints[ThreadOf(r)] = None
            BY <2>5 DEF HolderKnows
        <3> QED
            BY <2>1, <2>4, <2>5, <3>1 DEF Stores, CheckpointHasRow, KnownThreads, TypeOK
    <2>6. CASE SaveSnapshot(r)
        <3>1. conversations'[ThreadOf(r)] # None
            BY <1>6, <2>1, <2>6, NextTyping, SaveKeepsRow
        <3> QED
            BY <2>1, <2>4, <2>6, <3>1
               DEF Stores, CheckpointHasRow, KnownThreads, TypeOK, Conv
    <2> QED
        BY <2>5, <2>6
<1>7. ASSUME NEW r \in Requests, StartChat(r) PROVE Stores'
    BY <1>7, <1>2 DEF StartChat, Accepted, Readable, convVars, TypeOK, Busy
<1>8. ASSUME NEW r \in Requests, DeleteCheckpoint(r) PROVE Stores'
    BY <1>8, <1>2 DEF DeleteCheckpoint, Accepted, Readable, convVars, TypeOK, Busy
<1>9. ASSUME NEW r \in Requests, RunReturns(r) PROVE Stores'
    BY <1>9, <1>2 DEF RunReturns, Exclusion, RowStays, convVars, TypeOK, Busy
<1>10. ASSUME NEW r \in Requests, RunRaises(r) \/ ToolForbidden(r) PROVE Stores'
    <2> USE <1>10 DEF RunRaises, ToolForbidden, Raise, convVars
    <2>1. HasLock(r) /\ Conv(r) # None /\ ThreadOf(r) \in Threads
        BY Serving DEF Exclusion, RowStays, Busy
    <2>2. PICK c \in (SUBSET Command) \union {None} :
             checkpoints' = [checkpoints EXCEPT ![ThreadOf(r)] = c]
        BY <2>1 DEF TypeOK
    <2>3. /\ todo' \in [Requests -> SUBSET Command] /\ todo'[r] \subseteq todo[r]
          /\ \A s \in Requests \ {r} : todo'[s] = todo[s]
        BY DEF TypeOK
    <2>4. /\ pc[r] # "idle" /\ pc' = [pc EXCEPT ![r] = "saving_failed"]
          /\ UNCHANGED <<conversations, used, job>>
        OBVIOUS
    <2> HIDE <1>10 DEF RunRaises, ToolForbidden, Raise, convVars
    <2> QED
        BY <1>2, <2>1, <2>2, <2>3, <2>4 DEF Busy
<1>11. ASSUME NEW r \in Requests, PersistResume(r) PROVE Stores'
    <2> USE <1>11 DEF PersistResume, convVars, reqVars
    <2>1. HasLock(r) /\ Conv(r) # None
        BY DEF Exclusion, RowStays, Busy
    <2>2. pc' = [pc EXCEPT ![r] = "running"]
        BY DEF TypeOK
    <2> QED
        BY <1>2, <2>1, <2>2 DEF HolderKnows, TypeOK, Busy
<1>12. ASSUME NEW r \in Requests, Resync(r) PROVE Stores'
    <2> USE <1>12 DEF Resync
    <2>1. /\ Conv(r) \in Conversation /\ Conv(r) # None /\ ThreadOf(r) \in Threads
          /\ CanDecide(UserOf(r), Conv(r)) /\ todo[r] = {}
        BY Serving DEF Accepted, Readable, JobState
    <2>2. /\ conversations'[ThreadOf(r)] # None
          /\ conversations'[ThreadOf(r)].owner_id = Conv(r).owner_id
        <3>1. Interrupts(ThreadOf(r)) \in SUBSET Command
            BY <2>1, InterruptsType
        <3> HIDE <1>12
        <3>2. /\ Saved(Conv(r), Interrupts(ThreadOf(r)), FALSE, None) \in Conversation
              /\ Saved(Conv(r), Interrupts(ThreadOf(r)), FALSE, None).owner_id = Conv(r).owner_id
            BY <2>1, <3>1, SavedType
        <3> USE <1>12
        <3>3. conversations'[ThreadOf(r)] = Saved(Conv(r), Interrupts(ThreadOf(r)), FALSE, None)
            BY <2>1 DEF Conv, TypeOK
        <3> QED
            BY <3>2, <3>3, NoneAssumption
    <2>3. /\ UserOf(r).user_id \in Supervisors
          /\ Conv(r).owner_id = UserOf(r).user_id \/ Conv(r).owner_id \in Operators
        BY <2>1 DEF CanDecide, CanApprove, CanReadConversation, OwnerIsOperator
    <2>4. OnlyWorks(r)
        BY <2>1 DEF OnlyWorks, TypeOK
    <2>5. HolderKnows'
        BY <2>1, <2>2, <2>3, <2>4, OthersKnow
           DEF HolderKnows, TypeOK, ThreadOf, UserOf, Conv
    <2> QED
        BY <2>1, <2>2, <2>5 DEF Stores, CheckpointHasRow, KnownThreads, TypeOK, Conv
<1>13. ASSUME NEW r \in Requests, Resume(r) PROVE Stores'
    <2> USE <1>13 DEF Resume, GiveDecision, convVars
    <2>1. HasLock(r)
        BY DEF Exclusion, Busy
    <2>2. OnlyWorks(r)
        BY DEF OnlyWorks, TypeOK
    <2>3. pc'[r] = "running" /\ job'[r].kind \notin {"chat", "delete"}
        BY DEF HolderKnows, TypeOK
    <2>4. todo'[r] # {} => job'[r].kind = "approve"
        BY DEF HolderKnows, TypeOK
    <2>5. HolderKnows'
        BY <2>1, <2>2, <2>3, <2>4, OthersKnow DEF HolderKnows
    <2> QED
        BY <2>5 DEF Stores, CheckpointHasRow, KnownThreads
<1>14. ASSUME UNCHANGED <<convVars, checkpoints, pc, job>>,
              \A r \in Requests : todo'[r] \subseteq todo[r]
       PROVE  Stores'
    BY <1>14 DEF convVars, Stores, CheckpointHasRow, KnownThreads, HolderKnows,
                 ThreadOf, UserOf, Conv
<1>15. ASSUME NEW r \in Requests, NEW k \in Calls, NEW c \in Command, SendTool(r, k, c)
       PROVE  Stores'
    BY <1>15, <1>14 DEF SendTool, TypeOK
<1>16. ASSUME NEW r \in Requests, ToolTimeout(r) PROVE Stores'
    BY <1>16, <1>14 DEF ToolTimeout, reqVars
<1>17. ASSUME NEW k \in Calls, CallStep(k) PROVE Stores'
    BY <1>17, <1>14 DEF CallStep, Authorize, Execute, BusinessRefusal, reqVars
<1>18. ASSUME NEW u \in Deactivatable, Deactivate(u) PROVE Stores'
    BY <1>18, <1>14 DEF Deactivate, reqVars
<1>19. CASE UNCHANGED vars
    BY <1>19, <1>14 DEF vars, reqVars
<1>20. CASE ApiCrash
    BY <1>20 DEF ApiCrash, convVars, Stores, CheckpointHasRow, KnownThreads, HolderKnows
<1>21. ASSUME NEW u \in Users, NEW t \in Threads, NewConversation(u, t)
       PROVE  Stores'
    <2> USE <1>21 DEF NewConversation, reqVars
    <2>1. conversations[t] = None
        BY DEF KnownThreads
    <2>2. \A s \in Threads : s # t => conversations'[s] = conversations[s]
        BY DEF TypeOK
    <2>3. HolderKnows'
        <3> SUFFICES ASSUME NEW r \in Requests, pc[r] = "resuming"
                     PROVE  Conv(r)' = Conv(r)
            BY DEF HolderKnows, ThreadOf, UserOf
        <3>1. Conv(r) # None /\ ThreadOf(r) \in Threads
            BY Serving DEF RowStays, Busy
        <3> QED
            BY <2>1, <2>2, <3>1 DEF Conv, ThreadOf
    <2>4. CheckpointHasRow' /\ KnownThreads'
        BY <2>1, <2>2 DEF CheckpointHasRow, KnownThreads
    <2> QED
        BY <2>3, <2>4 DEF Stores
<1>22. ASSUME NEW r \in Requests, NEW u \in Users, NEW kind \in Kinds, NEW t \in Threads,
              Arrive(r, u, kind, t)
       PROVE  Stores'
    <2> USE <1>22 DEF Arrive, convVars
    <2>1. /\ pc'[r] = "waiting" /\ todo'[r] = {}
          /\ \A s \in Requests : s # r => pc'[s] = pc[s] /\ job'[s] = job[s]
        BY DEF TypeOK, JobState
    <2>2. HolderKnows'
        BY <2>1 DEF HolderKnows, ThreadOf, UserOf, Conv
    <2> QED
        BY <2>2 DEF Stores, CheckpointHasRow, KnownThreads
<1> QED
    BY <1>3, <1>4, <1>5, <1>6, <1>7, <1>8, <1>9, <1>10, <1>11, <1>12, <1>13, <1>15, <1>16,
       <1>17, <1>18, <1>19, <1>20, <1>21, <1>22
       DEF Next, RequestStep

\* No crash, failed write or concurrent deletion leaves a checkpoint without its
\* conversation, nor the lock holder without the row it will write.
THEOREM LockProtects == Spec => []LockProtectsConversation
<1>1. Typing /\ Stores => LockProtectsConversation
    BY DEF Typing, Stores, RowStays, CheckpointHasRow, LockProtectsConversation, Busy
<1> QED
    BY <1>1, InitTyping, NextTyping, InitStores, NextStores, PTL DEF Spec
-----------------------------------------------------------------------------
(* Where tool calls and audits come from *)

\* An approval was entitled; as long as its conversation exists it has the
\* owner it had then, because thread identifiers are never drawn twice.
ApprovalsHold ==
    \A d \in approvals :
       /\ d.owner = d.reviewer \/ d.owner \in Operators
       /\ d.thread \in used
       /\ conversations[d.thread] # None => conversations[d.thread].owner_id = d.owner

Approves(d, thread, reviewer, c) ==
    d.thread = thread /\ d.reviewer = reviewer /\ c \in d.commands

\* A run sends only what its user has approved in this conversation ...
ToolsApproved ==
    \A r \in Requests : \A c \in todo[r] :
       \E d \in approvals : Approves(d, ThreadOf(r), UserOf(r).user_id, c)

\* ... and the MCP server takes the owner of that approval as the proposer.
CallsApproved ==
    \A k \in Calls : mcp[k] # None =>
       \E d \in approvals :
          /\ Approves(d, mcp[k].thread, mcp[k].user_id, mcp[k].command)
          /\ mcp[k].stage = "authorized" => d.owner = mcp[k].proposer

Provenance ==
    ApprovalsHold /\ ToolsApproved /\ CallsApproved /\ WritesComeFromApprovals

LEMMA InitProvenance == Init => Provenance
BY DEF Init, R!Init, Provenance, ApprovalsHold, ToolsApproved, CallsApproved,
       WritesComeFromApprovals

\* Conversations only disappear or keep their owner, and new ones are new threads.
OwnersKept ==
    /\ used \subseteq used'
    /\ \A t \in used : conversations'[t] # None =>
          conversations[t] # None /\ conversations'[t].owner_id = conversations[t].owner_id

\* Requests send what was left to send, for the same user and thread.
ToolsKept ==
    \A r \in Requests :
       todo'[r] \subseteq todo[r] /\ (todo'[r] # {} => job'[r] = job[r])

\* Calls end, or lose the request that waits for them.
CallsKept ==
    \A k \in Calls : mcp'[k] # None =>
       /\ mcp[k] # None
       /\ mcp'[k].thread = mcp[k].thread /\ mcp'[k].user_id = mcp[k].user_id
       /\ mcp'[k].command = mcp[k].command /\ mcp'[k].stage = mcp[k].stage
       /\ mcp'[k].proposer = mcp[k].proposer

LEMMA KeepsApprovals ==
    ASSUME ApprovalsHold, OwnersKept, UNCHANGED approvals
    PROVE  ApprovalsHold'
BY DEF ApprovalsHold, OwnersKept

LEMMA KeepsTools ==
    ASSUME ToolsApproved, ToolsKept, approvals \subseteq approvals'
    PROVE  ToolsApproved'
BY DEF ToolsApproved, ToolsKept, ThreadOf, UserOf, Approves

LEMMA KeepsCalls ==
    ASSUME CallsApproved, CallsKept, approvals \subseteq approvals'
    PROVE  CallsApproved'
BY DEF CallsApproved, CallsKept, Approves

LEMMA KeepsWrites ==
    ASSUME WritesComeFromApprovals, UNCHANGED audits, approvals \subseteq approvals'
    PROVE  WritesComeFromApprovals'
BY DEF WritesComeFromApprovals

LEMMA OrphanedKept ==
    ASSUME TypeOK, NEW ks, ks \subseteq Calls, \A k \in ks : mcp[k] # None,
           mcp' = Orphaned(ks)
    PROVE  CallsKept
<1>1. \A k \in ks : mcp[k] \in Call
    BY DEF TypeOK
<1> QED
    BY <1>1 DEF Orphaned, CallsKept, Call
LEMMA NextProvenance == Typing /\ Stores /\ Provenance /\ [Next]_vars => Provenance'
<1> SUFFICES ASSUME Typing, Stores, Provenance, [Next]_vars PROVE Provenance'
    OBVIOUS
<1> /\ ApprovalsHold /\ ToolsApproved /\ CallsApproved /\ WritesComeFromApprovals
    /\ CheckpointHasRow /\ HolderKnows /\ KnownThreads
    /\ TypeOK /\ JobState /\ Exclusion /\ RowStays
    BY DEF Provenance, Stores, Typing
<1>1. ASSUME UNCHANGED <<approvals, audits>>, OwnersKept, ToolsKept, CallsKept
      PROVE  Provenance'
    BY <1>1, KeepsApprovals, KeepsTools, KeepsCalls, KeepsWrites DEF Provenance
<1>2. UNCHANGED convVars => OwnersKept
    BY DEF OwnersKept, convVars
<1>3. UNCHANGED mcp => CallsKept
    BY DEF CallsKept
<1>4. UNCHANGED <<job, todo>> => ToolsKept
    BY DEF ToolsKept
<1>5. ASSUME NEW r \in Requests, todo' = [todo EXCEPT ![r] = {}],
             \A s \in Requests \ {r} : job'[s] = job[s]
      PROVE  ToolsKept
    BY <1>5 DEF ToolsKept, TypeOK
<1>6. ASSUME NEW r \in Requests, Finish(r) PROVE ToolsKept
    BY <1>5, <1>6 DEF Finish, TypeOK
<1>7. ASSUME NEW u \in Users, NEW t \in Threads, NewConversation(u, t) PROVE Provenance'
    <2> USE <1>7 DEF NewConversation, reqVars, dbVars, ghostVars
    <2>1. OwnersKept
        BY DEF OwnersKept, TypeOK
    <2> QED
        BY <1>1, <1>3, <1>4, <2>1
<1>8. ASSUME NEW r \in Requests, NEW u \in Users, NEW kind \in Kinds, NEW t \in Threads,
             Arrive(r, u, kind, t)
      PROVE  Provenance'
    <2> USE <1>8 DEF Arrive, dbVars, ghostVars
    <2>1. ToolsKept
        BY DEF ToolsKept, TypeOK, JobState
    <2> QED
        BY <1>1, <1>2, <1>3, <2>1
<1>9. ASSUME NEW r \in Requests,
             Refuse(r) \/ NothingToDecide(r) \/ StoreFails(r)
      PROVE  Provenance'
    <2> USE <1>9 DEF Refuse, NothingToDecide, StoreFails, dbVars, ghostVars
    <2>1. ToolsKept
        BY <1>6
    <2> QED
        BY <1>1, <1>2, <1>3, <2>1
<1>10. ASSUME NEW r \in Requests, StartChat(r) \/ DeleteCheckpoint(r) \/ RunReturns(r)
       PROVE  Provenance'
    BY <1>10, <1>1, <1>2, <1>3, <1>4
       DEF StartChat, DeleteCheckpoint, RunReturns, dbVars, ghostVars
<1>11. ASSUME NEW r \in Requests, PersistResume(r) PROVE Provenance'
    BY <1>11, <1>1, <1>2, <1>3, <1>4 DEF PersistResume, reqVars, dbVars, ghostVars
<1>12. ASSUME NEW r \in Requests, Resync(r) PROVE Provenance'
    <2> USE <1>12 DEF Resync, dbVars, ghostVars
    <2>1. /\ Conv(r) \in Conversation /\ Conv(r) # None /\ ThreadOf(r) \in Threads
          /\ Interrupts(ThreadOf(r)) \in SUBSET Command
        BY Serving, InterruptsType DEF Accepted, Readable
    <2> DEFINE row == Saved(Conv(r), Interrupts(ThreadOf(r)), FALSE, None)
    <2>2. row.owner_id = Conv(r).owner_id
        BY <2>1, SavedType
    <2>3. conversations' = [conversations EXCEPT ![ThreadOf(r)] = row]
        BY DEF Conv
    <2> HIDE DEF row
    <2>4. OwnersKept
        BY <2>1, <2>2, <2>3 DEF OwnersKept, TypeOK, Conv
    <2> QED
        BY <1>1, <1>3, <1>4, <2>4
<1>13. ASSUME NEW r \in Requests, SaveSnapshot(r) PROVE Provenance'
    <2>1. /\ UNCHANGED <<used, mcp, dbVars, ghostVars>> /\ Finish(r)
          /\ Conv(r) # None /\ pc[r] # "idle"
        BY <1>13 DEF SaveSnapshot
    <2>2. ThreadOf(r) \in Threads
        BY <2>1, Serving
    <2>3. OwnersKept
        BY <1>13, <2>1, <2>2, SaveKeepsRow DEF OwnersKept, TypeOK, Conv
    <2> QED
        BY <1>1, <1>3, <1>6, <2>1, <2>3 DEF dbVars, ghostVars
<1>14. ASSUME NEW r \in Requests, DeleteMetadata(r) PROVE Provenance'
    <2> USE <1>14 DEF DeleteMetadata, dbVars, ghostVars
    <2>1. OwnersKept
        BY DEF OwnersKept, TypeOK
    <2> QED
        BY <1>1, <1>3, <1>6, <2>1
<1>15. ASSUME NEW r \in Requests, Resume(r) PROVE Provenance'
    <2> USE <1>15 DEF Resume, GiveDecision, convVars, dbVars
    <2>1. /\ ThreadOf(r) \in Threads /\ Conv(r) # None
          /\ ThreadOf(r) \in used
          /\ Conv(r).owner_id = UserOf(r).user_id \/ Conv(r).owner_id \in Operators
        BY Serving DEF RowStays, Busy, KnownThreads, HolderKnows, Conv
    <2>2. CallsApproved' /\ WritesComeFromApprovals'
        BY <1>3, KeepsCalls, KeepsWrites
    <2>3. CASE job[r].kind # "approve"
        BY <1>1, <1>2, <1>3, <1>4, <2>3
    <2>4. CASE job[r].kind = "approve"
        <3> DEFINE new == [thread |-> ThreadOf(r), owner |-> Conv(r).owner_id,
                           reviewer |-> UserOf(r).user_id,
                           commands |-> Interrupts(ThreadOf(r))]
        <3>1. approvals' = approvals \union {new}
            BY <2>4
        <3>2. ApprovalsHold'
            BY <2>1, <3>1 DEF ApprovalsHold, Conv
        <3>3. /\ todo'[r] = new.commands
              /\ \A s \in Requests \ {r} : todo'[s] = todo[s]
            BY <2>4 DEF TypeOK
        <3>4. ToolsApproved'
            BY <3>1, <3>3 DEF ToolsApproved, Approves, ThreadOf, UserOf
        <3> QED
            BY <2>2, <3>2, <3>4 DEF Provenance
    <2> QED
        BY <2>3, <2>4
<1>16. ASSUME NEW r \in Requests, NEW k \in Calls, NEW c \in Command, SendTool(r, k, c)
       PROVE  Provenance'
    <2> USE <1>16 DEF SendTool, dbVars, ghostVars
    <2>1. ApprovalsHold' /\ WritesComeFromApprovals'
        BY <1>2, KeepsApprovals, KeepsWrites
    <2>2. ToolsApproved'
        BY KeepsTools DEF ToolsKept, TypeOK
    <2>3. CallsApproved'
        <3> SUFFICES ASSUME NEW j \in Calls, mcp'[j] # None
                     PROVE  \E d \in approvals :
                               /\ Approves(d, mcp'[j].thread, mcp'[j].user_id, mcp'[j].command)
                               /\ mcp'[j].stage = "authorized" => d.owner = mcp'[j].proposer
            BY DEF CallsApproved, Approves
        <3>1. CASE j = k
            BY <3>1 DEF ToolsApproved, TypeOK
        <3>2. CASE j # k
            BY <3>2 DEF CallsApproved, TypeOK
        <3> QED
            BY <3>1, <3>2
    <2> QED
        BY <2>1, <2>2, <2>3 DEF Provenance
<1>17. ASSUME NEW r \in Requests, RunRaises(r) \/ ToolForbidden(r) PROVE Provenance'
    <2> USE <1>17 DEF RunRaises, ToolForbidden, Raise, dbVars, ghostVars
    <2>1. CallsKept
        BY <1>3, OrphanedKept DEF InFlight
    <2>2. ToolsKept
        BY <1>5
    <2> QED
        BY <1>1, <1>2, <2>1, <2>2
<1>18. ASSUME NEW r \in Requests, ToolTimeout(r) PROVE Provenance'
    <2> USE <1>18 DEF ToolTimeout, reqVars, dbVars, ghostVars
    <2>1. CallsKept
        BY OrphanedKept DEF InFlight
    <2> QED
        BY <1>1, <1>2, <1>4, <2>1
<1>19. CASE ApiCrash
    <2> USE <1>19 DEF ApiCrash, dbVars, ghostVars
    <2>1. CallsKept
        BY OrphanedKept
    <2>2. ToolsKept
        BY DEF ToolsKept
    <2> QED
        BY <1>1, <1>2, <2>1, <2>2
<1>20. ASSUME NEW k \in Calls, Authorize(k) PROVE Provenance'
    <2> USE <1>20 DEF Authorize, reqVars, dbVars, ghostVars
    <2>1. mcp[k] \in Call
        BY DEF TypeOK
    <2>2. ApprovalsHold' /\ WritesComeFromApprovals' /\ ToolsApproved'
        BY <1>2, <1>4, KeepsApprovals, KeepsWrites, KeepsTools
    <2>3. CASE ~ Authorized(k)
        <3>1. CallsKept
            BY <2>3 DEF CallsKept, TypeOK
        <3> QED
            BY <2>2, <3>1, KeepsCalls DEF Provenance
    <2>4. CASE Authorized(k)
        <3> DEFINE call == [mcp[k] EXCEPT !.stage = "authorized", !.proposer = ProposerOf(k)]
        <3>1. /\ call.thread = mcp[k].thread /\ call.user_id = mcp[k].user_id
              /\ call.command = mcp[k].command /\ call.proposer = ProposerOf(k)
            BY <2>1 DEF Call
        <3>2. mcp' = [mcp EXCEPT ![k] = call]
            BY <2>4
        <3> HIDE DEF call
        <3>3. PICK d \in approvals :
                 Approves(d, mcp[k].thread, mcp[k].user_id, mcp[k].command)
            BY DEF CallsApproved
        <3>4. d.owner = ProposerOf(k)
            BY <2>4, <3>3 DEF ApprovalsHold, Approves, Authorized, ProposerOf
        <3>5. CallsApproved'
            <4> SUFFICES ASSUME NEW j \in Calls, mcp'[j] # None
                         PROVE  \E e \in approvals :
                                   /\ Approves(e, mcp'[j].thread, mcp'[j].user_id,
                                               mcp'[j].command)
                                   /\ mcp'[j].stage = "authorized" => e.owner = mcp'[j].proposer
                BY DEF CallsApproved, Approves
            <4>1. CASE j = k
                BY <3>1, <3>2, <3>3, <3>4, <4>1 DEF TypeOK
            <4>2. CASE j # k
                BY <3>2, <4>2 DEF CallsApproved, TypeOK
            <4> QED
                BY <4>1, <4>2
        <3> QED
            BY <2>2, <3>5 DEF Provenance
    <2> QED
        BY <2>3, <2>4
<1>21. ASSUME NEW k \in Calls, Execute(k) PROVE Provenance'
    <2> USE <1>21 DEF Execute, reqVars, ghostVars
    <2>1. ApprovalsHold' /\ ToolsApproved'
        BY <1>2, <1>4, KeepsApprovals, KeepsTools
    <2>2. CallsApproved'
        BY KeepsCalls DEF CallsKept, TypeOK
    <2>3. PICK id \in AuditIds :
             R!CreateOrGet(id, mcp[k].command, mcp[k].user_id, mcp[k].proposer)
        OBVIOUS
    <2>4. PICK d \in approvals :
             /\ Approves(d, mcp[k].thread, mcp[k].user_id, mcp[k].command)
             /\ d.owner = mcp[k].proposer
        BY DEF CallsApproved
    <2>5. \E a : /\ audits' = audits \union {a}
                 /\ a.actor = mcp[k].user_id /\ a.proposed_by = mcp[k].proposer
                 /\ a.idempotency_key = mcp[k].command.idempotency_key
                 /\ a.order_id = mcp[k].command.order_id
        <3> DEFINE c == mcp[k].command
                   \* The entry for an incident row of this command.
                   entry(inc, outcome) ==
                      R!AuditOf(id, inc, mcp[k].user_id, mcp[k].proposer, outcome)
        <3>1. ASSUME NEW inc, NEW outcome, audits' = audits \union {entry(inc, outcome)},
                     inc.idempotency_key = c.idempotency_key, inc.order_id = c.order_id
              PROVE  \E a : /\ audits' = audits \union {a}
                            /\ a.actor = mcp[k].user_id /\ a.proposed_by = mcp[k].proposer
                            /\ a.idempotency_key = c.idempotency_key
                            /\ a.order_id = c.order_id
            <4>1. /\ entry(inc, outcome).actor = mcp[k].user_id
                  /\ entry(inc, outcome).proposed_by = mcp[k].proposer
                  /\ entry(inc, outcome).idempotency_key = c.idempotency_key
                  /\ entry(inc, outcome).order_id = c.order_id
                BY <3>1 DEF R!AuditOf
            <4> HIDE DEF entry
            <4> WITNESS entry(inc, outcome)
            <4> QED
                BY <3>1, <4>1
        <3>2. CASE R!Create(id, c, mcp[k].user_id, mcp[k].proposer)
            <4>1. /\ R!IncidentOf(id, c).idempotency_key = c.idempotency_key
                  /\ R!IncidentOf(id, c).order_id = c.order_id
                BY DEF R!IncidentOf
            <4> QED
                BY <3>1, <3>2, <4>1 DEF R!Create
        <3>3. CASE R!Replay(id, c, mcp[k].user_id, mcp[k].proposer)
            <4>1. PICK inc \in R!WithKey(incidents, c.idempotency_key) :
                     /\ R!SameContent(inc, c)
                     /\ audits' = audits \union {entry(inc, "already_existed")}
                BY <3>3 DEF R!Replay
            <4>2. inc.idempotency_key = c.idempotency_key /\ inc.order_id = c.order_id
                BY <4>1 DEF R!WithKey, R!SameContent
            <4> QED
                BY <3>1, <4>1, <4>2
        <3> QED
            BY <2>3, <3>2, <3>3 DEF R!CreateOrGet
    <2>6. d.owner = d.reviewer \/ d.owner \in Operators
        BY DEF ApprovalsHold
    <2>7. WritesComeFromApprovals'
        BY <2>4, <2>5, <2>6 DEF WritesComeFromApprovals, Approves
    <2> QED
        BY <2>1, <2>2, <2>7 DEF Provenance
<1>22. ASSUME NEW k \in Calls, BusinessRefusal(k) PROVE Provenance'
    <2> USE <1>22 DEF BusinessRefusal, reqVars, dbVars, ghostVars
    <2>1. CallsKept
        BY DEF CallsKept, TypeOK
    <2> QED
        BY <1>1, <1>2, <1>4, <2>1
<1>23. ASSUME NEW u \in Deactivatable, Deactivate(u) PROVE Provenance'
    BY <1>23, <1>1, <1>2, <1>3, <1>4 DEF Deactivate, reqVars, dbVars, ghostVars
<1>24. CASE UNCHANGED vars
    BY <1>24, <1>1, <1>2, <1>3, <1>4 DEF vars, reqVars, dbVars, ghostVars
<1> QED
    BY <1>7, <1>8, <1>9, <1>10, <1>11, <1>12, <1>13, <1>14, <1>15, <1>16, <1>17, <1>18,
       <1>19, <1>20, <1>21, <1>22, <1>23, <1>24
       DEF Next, RequestStep, CallStep

\* Every audited write goes back to an entitled decision on exactly this command,
\* also when the call outlives its request, its conversation or the API process.
THEOREM WritesApproved == Spec => []WritesComeFromApprovals
<1>1. Provenance => WritesComeFromApprovals
    BY DEF Provenance
<1> QED
    BY <1>1, InitTyping, NextTyping, InitStores, NextStores, InitProvenance,
       NextProvenance, PTL DEF Spec
=============================================================================
