------------------------ MODULE ConversationApiAgrees ------------------------
(***************************************************************************)
(* What holds without faults, for any number of threads, requests, calls   *)
(* and users.  The metadata agree with the checkpoint whenever nobody works*)
(* on the conversation: who works on a thread remembers who decided, and   *)
(* what the row already says, until it saves.  A call is served while the  *)
(* request that approved it waits for it.                                  *)
(***************************************************************************)
EXTENDS ConversationApiProofs

\* The row of t and its checkpoint say the same.
Agrees(t) ==
    /\ conversations[t].pending_actions = Interrupts(t)
    /\ (conversations[t].status = "approval_required") <=> (Interrupts(t) # {})
    /\ conversations[t].reviewer_id = decider[t]

Unattended(t) == \A r \in Requests : pc[r] \in Busy => ThreadOf(r) # t

\* What the holder of r's lock will make the row agree with.
Recorded(r) ==
    /\ pc[r] = "resuming" => Agrees(ThreadOf(r))
    /\ pc[r] \in {"running", "saving", "saving_failed"} =>
          IF job[r].kind \in {"approve", "reject"}
          THEN decider[ThreadOf(r)] = UserOf(r).user_id
          ELSE Conv(r).reviewer_id = decider[ThreadOf(r)]

DecidersKnown == \A t \in Threads : decider[t] # None => t \in used

Records ==
    /\ faults = 0 => /\ \A t \in Threads :
                           conversations[t] # None /\ Unattended(t) => Agrees(t)
                     /\ \A r \in Requests : Recorded(r)
    /\ DecidersKnown

LEMMA InitRecords == Init => Records
BY DEF Init, Records, Recorded, DecidersKnown

\* A step of a lock holder, or of nobody, leaves the other threads and their
\* holders alone.
Elsewhere(r) ==
    /\ \A t \in Threads \ {ThreadOf(r)} :
          /\ conversations'[t] = conversations[t] /\ checkpoints'[t] = checkpoints[t]
          /\ decider'[t] = decider[t]
    /\ \A s \in Requests \ {r} : pc'[s] = pc[s] /\ job'[s] = job[s]

LEMMA OthersRecorded ==
    ASSUME Typing, Records, faults = 0, NEW r \in Requests, pc[r] # "idle", HasLock(r),
           Elsewhere(r)
    PROVE  /\ \A s \in Requests \ {r} : Recorded(s)'
           /\ \A t \in Threads \ {ThreadOf(r)} :
                 conversations'[t] # None /\ Unattended(t)' => Agrees(t)'
<1>1. ASSUME NEW s \in Requests \ {r} PROVE Recorded(s)'
    <2>1. CASE pc[s] \in Busy
        <3>1. ThreadOf(s) # ThreadOf(r) /\ ThreadOf(s) \in Threads
            BY <2>1, Alone, Serving DEF Busy
        <3> QED
            BY <1>1, <3>1 DEF Elsewhere, Records, Recorded, Agrees, Interrupts, Conv,
                              ThreadOf, UserOf
    <2>2. CASE pc[s] \notin Busy
        BY <1>1, <2>2 DEF Elsewhere, Recorded, Busy
    <2> QED
        BY <2>1, <2>2
<1>2. ASSUME NEW t \in Threads \ {ThreadOf(r)}, conversations'[t] # None, Unattended(t)'
      PROVE  Agrees(t)'
    <2>1. Unattended(t)
        BY <1>2 DEF Unattended, Elsewhere, ThreadOf
    <2> QED
        BY <1>2, <2>1 DEF Elsewhere, Records, Agrees, Interrupts
<1> QED
    BY <1>1, <1>2

\* The row that a save writes agrees with the checkpoint.
LEMMA SavedAgrees ==
    ASSUME NEW conv \in Conversation, NEW actions \in SUBSET Command,
           NEW failed \in BOOLEAN, NEW reviewer \in Users \union {None},
           NEW who \in Users \union {None},
           IF reviewer # None THEN reviewer = who ELSE conv.reviewer_id = who
    PROVE  /\ Saved(conv, actions, failed, reviewer).pending_actions = actions
           /\ (Saved(conv, actions, failed, reviewer).status = "approval_required")
                 <=> (actions # {})
           /\ Saved(conv, actions, failed, reviewer).reviewer_id = who
BY DEF Saved, Conversation

LEMMA NextRecords == Typing /\ Stores /\ Records /\ [Next]_vars => Records'
<1> SUFFICES ASSUME Typing, Stores, Records, [Next]_vars PROVE Records'
    OBVIOUS
<1> /\ CheckpointHasRow /\ HolderKnows /\ KnownThreads /\ DecidersKnown
    /\ TypeOK /\ JobState /\ Exclusion /\ RowStays
    BY DEF Records, Stores, Typing
<1>1. ASSUME UNCHANGED <<used, decider>>, faults' # 0 PROVE Records'
    BY <1>1 DEF Records, DecidersKnown
<1>2. ASSUME NEW r \in Requests, pc[r] # "idle", HasLock(r), Elsewhere(r),
             UNCHANGED faults, used' = used, DecidersKnown',
             faults = 0 => Recorded(r)', NEW t, t = ThreadOf(r),
             faults = 0 /\ conversations'[t] # None /\ Unattended(t)' => Agrees(t)'
      PROVE  Records'
    <2>1. CASE faults = 0
        <3>1. /\ \A s \in Requests \ {r} : Recorded(s)'
              /\ \A s \in Threads \ {t} :
                    conversations'[s] # None /\ Unattended(s)' => Agrees(s)'
            BY <1>2, <2>1, OthersRecorded
        <3>2. /\ \A s \in Requests : Recorded(s)'
              /\ \A s \in Threads :
                    conversations'[s] # None /\ Unattended(s)' => Agrees(s)'
            BY <1>2, <2>1, <3>1
        <3> QED
            BY <1>2, <3>2 DEF Records
    <2>2. CASE faults # 0
        BY <1>2, <2>2 DEF Records
    <2> QED
        BY <2>1, <2>2
<1>3. ASSUME NEW r \in Requests, pc[r] = "waiting", HasLock(r), faults = 0, Conv(r) # None
      PROVE  Agrees(ThreadOf(r))
    <2>1. ThreadOf(r) \in Threads
        BY <1>3, Serving
    <2>2. Unattended(ThreadOf(r))
        BY <1>3, OneAtATime DEF Unattended, Busy
    <2> QED
        BY <1>3, <2>1, <2>2 DEF Records, Conv
<1>4. ASSUME NEW r \in Requests, pc[r] \in Busy
      PROVE  /\ pc[r] # "idle" /\ HasLock(r) /\ ThreadOf(r) \in Threads /\ Conv(r) # None
             /\ Conv(r) \in Conversation /\ UserOf(r).user_id \in Users
    BY <1>4, Serving DEF Busy, Exclusion, RowStays
<1>5. ASSUME NEW r \in Requests, Finish(r), pc[r] # "idle", HasLock(r),
             UNCHANGED <<used, checkpoints, decider, faults>>,
             \A t \in Threads \ {ThreadOf(r)} : conversations'[t] = conversations[t],
             NEW t, t = ThreadOf(r),
             faults = 0 /\ conversations'[t] # None => Agrees(t)'
      PROVE  Records'
    <2>1. Elsewhere(r) /\ pc'[r] = "idle"
        BY <1>5 DEF Elsewhere, Finish, TypeOK
    <2> QED
        BY <1>2, <1>5, <2>1 DEF Recorded, DecidersKnown
<1>6. ASSUME NEW r \in Requests, Refuse(r) \/ NothingToDecide(r) PROVE Records'
    <2>0. PICK t : t = ThreadOf(r)
        OBVIOUS
    <2>1. /\ pc[r] \in {"waiting", "resuming"} /\ HasLock(r) /\ Finish(r)
          /\ UNCHANGED <<conversations, used, checkpoints, decider, faults>>
        BY <1>4, <1>6 DEF Refuse, NothingToDecide, convVars, ghostVars, Busy
    <2>2. faults = 0 /\ conversations[t] # None => Agrees(t)
        BY <1>3, <2>0, <2>1 DEF Records, Recorded, Conv
    <2>3. faults = 0 /\ conversations'[t] # None => Agrees(t)'
        BY <2>1, <2>2 DEF Agrees, Interrupts
    <2> QED
        BY <1>5, <2>0, <2>1, <2>3
<1>8. ASSUME NEW r \in Requests, DeleteMetadata(r) PROVE Records'
    <2> USE <1>8 DEF DeleteMetadata, ghostVars
    <2>1. conversations'[ThreadOf(r)] = None
        BY <1>4 DEF Busy, TypeOK
    <2> QED
        BY <1>4, <1>5, <2>1 DEF Busy, TypeOK
<1>9. ASSUME NEW r \in Requests, SaveSnapshot(r) PROVE Records'
    <2> USE <1>9 DEF SaveSnapshot, ghostVars
    <2> DEFINE t == ThreadOf(r)
               failed == pc[r] = "saving_failed"
               row == Saved(Conv(r), Interrupts(t), failed, Reviewer(r))
    <2>1. /\ pc[r] # "idle" /\ HasLock(r) /\ t \in Threads /\ Conv(r) \in Conversation
          /\ UserOf(r).user_id \in Users
        BY <1>4 DEF Busy
    <2>2. Interrupts(t) \in SUBSET Command /\ Reviewer(r) \in Users \union {None}
        BY <2>1, InterruptsType DEF Reviewer
    <2>3. faults = 0 => IF Reviewer(r) # None THEN Reviewer(r) = decider[t]
                        ELSE Conv(r).reviewer_id = decider[t]
        BY <2>1, NoneAssumption DEF Records, Recorded, Reviewer
    <2>4. decider[t] \in Users \union {None} /\ failed \in BOOLEAN
        BY <2>1 DEF TypeOK
    <2>5. faults = 0 => /\ row.pending_actions = Interrupts(t)
                        /\ (row.status = "approval_required") <=> (Interrupts(t) # {})
                        /\ row.reviewer_id = decider[t]
        <3> HIDE DEF failed
        <3> QED
            BY <2>1, <2>2, <2>3, <2>4, SavedAgrees
    <2>6. conversations' = [conversations EXCEPT ![t] = row]
        BY DEF Conv
    <2>7. ASSUME NEW s, s = t PROVE faults = 0 => Agrees(s)'
        <3> HIDE DEF row, failed
        <3> QED
            BY <2>1, <2>5, <2>6, <2>7 DEF Agrees, Interrupts, TypeOK
    <2> HIDE DEF row
    <2> QED
        BY <1>5, <2>1, <2>6, <2>7 DEF TypeOK
<1>10. CASE ApiCrash \/ \E r \in Requests : StoreFails(r)
    BY <1>1, <1>10 DEF StoreFails, ApiCrash, convVars, ghostVars, TypeOK
<1>11. ASSUME NEW r \in Requests, pc[r] # "idle", HasLock(r), ThreadOf(r) \in Threads,
              NEW x \in Busy, pc' = [pc EXCEPT ![r] = x],
              UNCHANGED <<convVars, job, decider, faults>>,
              \A t \in Threads \ {ThreadOf(r)} : checkpoints'[t] = checkpoints[t],
              faults = 0 => Recorded(r)'
       PROVE  Records'
    <2>1. Elsewhere(r)
        BY <1>11 DEF Elsewhere, TypeOK, convVars
    <2>2. PICK t : t = ThreadOf(r)
        OBVIOUS
    <2>3. ~ Unattended(t)'
        BY <1>11, <2>2 DEF Unattended, ThreadOf, TypeOK
    <2> QED
        BY <1>2, <1>11, <2>1, <2>2, <2>3 DEF DecidersKnown, convVars
<1>12. ASSUME NEW r \in Requests, StartChat(r) PROVE Records'
    <2> USE <1>12 DEF StartChat, convVars, ghostVars
    <2>1. /\ pc[r] # "idle" /\ HasLock(r) /\ ThreadOf(r) \in Threads
          /\ Conv(r) # None /\ pc'[r] = "running"
        BY Serving DEF Accepted, Readable, TypeOK
    <2>2. faults = 0 => Recorded(r)'
        BY <1>3, <2>1 DEF Agrees, Recorded, Conv, ThreadOf
    <2> QED
        BY <1>11, <2>1, <2>2 DEF Busy, TypeOK
<1>13. ASSUME NEW r \in Requests, DeleteCheckpoint(r) PROVE Records'
    <2> USE <1>13 DEF DeleteCheckpoint, convVars, ghostVars
    <2>1. /\ pc[r] # "idle" /\ HasLock(r) /\ ThreadOf(r) \in Threads
          /\ pc'[r] = "deleting"
        BY Serving DEF TypeOK
    <2> QED
        BY <1>11, <2>1 DEF Recorded, Busy, TypeOK
<1>14. ASSUME NEW r \in Requests, pc[r] = "running",
              NEW x \in {"running", "saving", "saving_failed"}, pc' = [pc EXCEPT ![r] = x],
              UNCHANGED <<convVars, job, decider, faults>>,
              \A t \in Threads \ {ThreadOf(r)} : checkpoints'[t] = checkpoints[t]
       PROVE  Records'
    <2> USE <1>14
    <2>1. /\ pc[r] # "idle" /\ HasLock(r) /\ ThreadOf(r) \in Threads /\ pc'[r] = x
        BY <1>4 DEF Busy, TypeOK
    <2>2. faults = 0 => Recorded(r)'
        BY <2>1 DEF Records, Recorded, Conv, ThreadOf, UserOf, convVars
    <2> QED
        BY <1>11, <2>1, <2>2 DEF Busy
<1>15. ASSUME NEW r \in Requests,
              RunReturns(r) \/ PersistResume(r) \/ RunRaises(r) \/ ToolForbidden(r)
       PROVE  Records'
    <2>1. /\ pc[r] = "running" /\ UNCHANGED <<convVars, job, decider, faults>>
          /\ \/ pc' = [pc EXCEPT ![r] = "running"]
             \/ pc' = [pc EXCEPT ![r] = "saving"]
             \/ pc' = [pc EXCEPT ![r] = "saving_failed"]
        BY <1>15 DEF RunReturns, PersistResume, RunRaises, ToolForbidden, Raise, reqVars,
                     ghostVars, TypeOK
    <2>2. \A t \in Threads \ {ThreadOf(r)} : checkpoints'[t] = checkpoints[t]
        BY <1>15 DEF RunReturns, PersistResume, RunRaises, ToolForbidden, TypeOK
    <2> QED
        BY <1>14, <2>1, <2>2
<1>16. ASSUME NEW r \in Requests, Resync(r) PROVE Records'
    <2> USE <1>16 DEF Resync, ghostVars
    <2> DEFINE t == ThreadOf(r)
               row == Saved(Conv(r), Interrupts(t), FALSE, None)
    <2>1. /\ pc[r] # "idle" /\ HasLock(r) /\ t \in Threads /\ Conv(r) # None
          /\ Conv(r) \in Conversation /\ pc'[r] = "resuming" /\ t = ThreadOf(r)'
        BY Serving DEF Accepted, Readable, TypeOK, ThreadOf
    <2>2. Interrupts(t) \in SUBSET Command /\ decider[t] \in Users \union {None}
        BY <2>1, InterruptsType DEF TypeOK
    <2>3. faults = 0 => Conv(r).reviewer_id = decider[t]
        BY <1>3, <2>1 DEF Agrees, Conv
    <2>4. faults = 0 => /\ row.pending_actions = Interrupts(t)
                        /\ (row.status = "approval_required") <=> (Interrupts(t) # {})
                        /\ row.reviewer_id = decider[t]
        <3> DEFINE saved(failed) == Saved(Conv(r), Interrupts(t), failed, None)
        <3>1. ASSUME NEW failed \in BOOLEAN, faults = 0
              PROVE  /\ saved(failed).pending_actions = Interrupts(t)
                     /\ (saved(failed).status = "approval_required") <=> (Interrupts(t) # {})
                     /\ saved(failed).reviewer_id = decider[t]
            BY <2>1, <2>2, <2>3, <3>1, SavedAgrees
        <3> QED
            BY <3>1
    <2>5. conversations' = [conversations EXCEPT ![t] = row]
        BY DEF Conv
    <2> HIDE DEF row
    <2>6. faults = 0 => Agrees(t)'
        BY <2>1, <2>4, <2>5 DEF Agrees, Interrupts, TypeOK
    <2>7. faults = 0 => Recorded(r)'
        BY <2>1, <2>6 DEF Recorded
    <2>8. Elsewhere(r)
        BY <2>1, <2>5 DEF Elsewhere, TypeOK
    <2> QED
        BY <1>2, <2>1, <2>6, <2>7, <2>8 DEF DecidersKnown
<1>17. ASSUME NEW r \in Requests, Resume(r) PROVE Records'
    <2> USE <1>17 DEF Resume, GiveDecision, convVars
    <2>1. /\ pc[r] # "idle" /\ HasLock(r) /\ ThreadOf(r) \in Threads /\ Conv(r) # None
          /\ pc'[r] = "running" /\ ThreadOf(r) \in used
        BY <1>4 DEF Busy, TypeOK, KnownThreads, Conv
    <2>2. job[r].kind \in {"approve", "reject"}
        BY DEF HolderKnows
    <2>3. Recorded(r)'
        BY <2>1, <2>2 DEF Recorded, TypeOK, ThreadOf, UserOf
    <2>4. Elsewhere(r)
        BY <2>1 DEF Elsewhere, TypeOK
    <2>5. PICK t : t = ThreadOf(r)
        OBVIOUS
    <2>6. ~ Unattended(t)'
        BY <2>1, <2>5 DEF Unattended, ThreadOf, Busy
    <2>7. DecidersKnown'
        BY <2>1 DEF DecidersKnown, TypeOK
    <2> QED
        BY <1>2, <2>1, <2>3, <2>4, <2>5, <2>6, <2>7
<1>18. ASSUME UNCHANGED <<convVars, checkpoints, pc, job, decider>>, faults' = 0 => faults = 0
       PROVE  Records'
    BY <1>18 DEF convVars, Records, Recorded, Unattended, Agrees, Interrupts, DecidersKnown,
                 ThreadOf, UserOf, Conv
<1>19. ASSUME \/ \E r \in Requests, k \in Calls, c \in Command : SendTool(r, k, c)
              \/ \E k \in Calls : CallStep(k)
              \/ \E u \in Deactivatable : Deactivate(u)
       PROVE  Records'
    BY <1>18, <1>19 DEF SendTool, CallStep, Authorize, Execute, BusinessRefusal,
                        Deactivate, reqVars, ghostVars
<1>20. ASSUME NEW r \in Requests, ToolTimeout(r) PROVE Records'
    BY <1>1, <1>20 DEF ToolTimeout, convVars, ghostVars, TypeOK
<1>21. ASSUME NEW u \in Users, NEW t \in Threads, NewConversation(u, t) PROVE Records'
    <2> USE <1>21 DEF NewConversation, reqVars, ghostVars
    <2> DEFINE row == [owner_id |-> u, status |-> "completed", pending_actions |-> {},
                       reviewer_id |-> None]
    <2>1. checkpoints[t] = None /\ decider[t] = None
        BY DEF KnownThreads, CheckpointHasRow, DecidersKnown
    <2>2. conversations'[t] = row /\ \A s \in Threads : s # t =>
             conversations'[s] = conversations[s]
        BY DEF TypeOK
    <2> HIDE DEF row
    <2>3. Agrees(t)'
        BY <2>1, <2>2 DEF row, Agrees, Interrupts
    <2>4. ASSUME NEW s \in Threads, s # t,
                 faults = 0, conversations'[s] # None, Unattended(s)'
          PROVE  Agrees(s)'
        BY <2>2, <2>4 DEF Records, Unattended, Agrees, Interrupts, ThreadOf
    <2>5. ASSUME NEW r \in Requests, faults = 0 PROVE Recorded(r)'
        <3>1. pc[r] \in Busy => ThreadOf(r) \in Threads /\ ThreadOf(r) # t
            BY <1>4 DEF KnownThreads, Conv
        <3> QED
            BY <2>2, <2>5, <3>1 DEF Records, Recorded, Agrees, Interrupts, ThreadOf, UserOf,
                                    Conv, Busy
    <2> QED
        BY <2>3, <2>4, <2>5 DEF Records, DecidersKnown
<1>22. ASSUME NEW r \in Requests, NEW u \in Users, NEW kind \in Kinds, NEW t \in Threads,
              Arrive(r, u, kind, t)
       PROVE  Records'
    <2> USE <1>22 DEF Arrive, convVars, ghostVars
    <2>1. /\ pc'[r] = "waiting" /\ pc[r] = "idle"
          /\ \A s \in Requests : s # r => pc'[s] = pc[s] /\ job'[s] = job[s]
        BY DEF TypeOK
    <2>2. \A s \in Requests : Recorded(s) => Recorded(s)'
        BY <2>1 DEF Recorded, Agrees, Interrupts, ThreadOf, UserOf, Conv
    <2>3. \A s \in Threads : Unattended(s)' => Unattended(s)
        BY <2>1 DEF Unattended, ThreadOf, Busy
    <2> QED
        BY <2>2, <2>3 DEF Records, DecidersKnown, Agrees, Interrupts
<1>23. CASE UNCHANGED vars
    BY <1>18, <1>23 DEF vars, reqVars, ghostVars
<1> QED
    BY <1>6, <1>8, <1>9, <1>10, <1>12, <1>13, <1>15, <1>16, <1>17, <1>19, <1>20,
       <1>21, <1>22, <1>23
       DEF Next, RequestStep

\* As long as no fault has hit the API, a conversation nobody works on shows the
\* pending actions, the status and the reviewer of its checkpoint and decisions.
THEOREM MetadataAgree == Spec => []StoresAgree
<1>1. Typing /\ Records => StoresAgree
    <2> SUFFICES ASSUME Typing, Records, NEW t \in Threads, faults = 0, Settled(t),
                        conversations[t] # None
                 PROVE  Agrees(t)
        BY DEF StoresAgree, Agrees
    <2>1. Unattended(t)
        BY DEF Unattended, Settled, Typing, JobState, Busy
    <2> QED
        BY <2>1 DEF Records
<1> QED
    BY <1>1, InitTyping, NextTyping, InitStores, NextStores, InitRecords, NextRecords,
       PTL DEF Spec

-----------------------------------------------------------------------------
(* A write and the request that approved it *)

Quiet == faults = 0 /\ \A u \in Users : active[u]

\* Only supervisors have calls to send.
Entitled == \A r \in Requests : todo[r] # {} => UserOf(r).user_id \in Supervisors

\* The request waits for the call, and the metadata propose what it writes.
Attends(r, k) ==
    /\ pc[r] = "running" /\ job[r].kind = "approve"
    /\ ThreadOf(r) = mcp[k].thread /\ UserOf(r).user_id = mcp[k].user_id
    /\ mcp[k].stage = "authorized" =>
          mcp[k].command \in conversations[mcp[k].thread].pending_actions

AllAttended ==
    \A k \in Calls : mcp[k] # None => mcp[k].request \in Requests /\ Attends(mcp[k].request, k)

Attended == Entitled /\ (Quiet => AllAttended)

\* There are no calls at the start.
LEMMA InitAttended == Init => Attended
BY DEF Init, Attended, Entitled, AllAttended

\* A step that adds no call to send keeps the entitled.
LEMMA EntitledStay ==
    ASSUME Attended, ToolsKept
    PROVE  Entitled'
BY DEF Attended, Entitled, ToolsKept, UserOf

\* No request leaves its calls behind, nor its row the state they rely on.
Remain ==
    \A r \in Requests : pc[r] = "running" /\ InFlight(r) # {} =>
       /\ pc'[r] = "running" /\ job'[r] = job[r]
       /\ conversations'[ThreadOf(r)] = conversations[ThreadOf(r)]

\* Calls that go on do so with the request that waits for them.
LEMMA CallsStayAttended ==
    ASSUME AllAttended, Remain, \A k \in Calls : mcp'[k] # None => mcp'[k] = mcp[k]
    PROVE  AllAttended'
<1> SUFFICES ASSUME NEW k \in Calls, mcp'[k] # None
             PROVE  mcp'[k].request \in Requests /\ Attends(mcp[k].request, k)'
    BY DEF AllAttended, Attends, ThreadOf, UserOf
<1> DEFINE r == mcp[k].request
<1>1. mcp'[k] = mcp[k] /\ mcp[k] # None /\ r \in Requests /\ Attends(r, k)
    BY DEF AllAttended
<1>2. k \in InFlight(r)
    BY <1>1 DEF InFlight
<1> HIDE DEF r
<1>3. /\ pc'[r] = "running" /\ job'[r] = job[r]
      /\ conversations'[ThreadOf(r)] = conversations[ThreadOf(r)]
    BY <1>1, <1>2 DEF Remain, Attends
<1> QED
    BY <1>1, <1>3 DEF Attends, ThreadOf, UserOf, r

\* Another request's work on its own thread does not touch those that wait.
LEMMA OthersRemain ==
    ASSUME Typing, NEW r \in Requests, pc[r] # "idle", HasLock(r),
           pc[r] = "running" => InFlight(r) = {},
           \A s \in Requests \ {r} : pc'[s] = pc[s] /\ job'[s] = job[s],
           \A t \in Threads \ {ThreadOf(r)} : conversations'[t] = conversations[t]
    PROVE  Remain
<1> SUFFICES ASSUME NEW s \in Requests, pc[s] = "running", InFlight(s) # {}
             PROVE  /\ pc'[s] = "running" /\ job'[s] = job[s]
                    /\ conversations'[ThreadOf(s)] = conversations[ThreadOf(s)]
    BY DEF Remain
<1>1. s # r
    OBVIOUS
<1>2. ThreadOf(s) # ThreadOf(r) /\ ThreadOf(s) \in Threads
    BY <1>1, Alone, Serving DEF Busy
<1> QED
    BY <1>1, <1>2

\* Each step keeps calls attended, or ends the quiet.
LEMMA NextAttended == Typing /\ Stores /\ Attended /\ [Next]_vars => Attended'
<1> SUFFICES ASSUME Typing, Stores, Attended, [Next]_vars PROVE Attended'
    OBVIOUS
<1> /\ HolderKnows /\ KnownThreads /\ Entitled
    /\ TypeOK /\ JobState /\ Exclusion /\ RowStays
    BY DEF Attended, Stores, Typing
<1>1. ASSUME Entitled', Quiet' => AllAttended /\ Remain,
             \A k \in Calls : mcp'[k] # None => mcp'[k] = mcp[k]
      PROVE  Attended'
    BY <1>1, CallsStayAttended DEF Attended
<1>2. UNCHANGED <<active, faults>> => (Quiet' => AllAttended)
    BY DEF Attended, Quiet
<1>3. ASSUME NEW r \in Requests, Finish(r), pc[r] # "idle", pc[r] # "running", HasLock(r),
             UNCHANGED <<mcp, active, faults>>,
             \A t \in Threads \ {ThreadOf(r)} : conversations'[t] = conversations[t]
      PROVE  Attended'
    <2>1. ToolsKept /\ \A s \in Requests \ {r} : pc'[s] = pc[s] /\ job'[s] = job[s]
        BY <1>3 DEF ToolsKept, Finish, TypeOK
    <2> QED
        BY <1>1, <1>2, <1>3, <2>1, EntitledStay, OthersRemain
<1>4. ASSUME NEW r \in Requests,
             Refuse(r) \/ NothingToDecide(r) \/ DeleteMetadata(r) \/ SaveSnapshot(r)
      PROVE  Attended'
    <2>1. /\ pc[r] # "idle" /\ pc[r] # "running" /\ HasLock(r) /\ Finish(r)
          /\ UNCHANGED <<mcp, active, faults>>
        BY <1>4 DEF Refuse, NothingToDecide, DeleteMetadata, SaveSnapshot, Exclusion, Busy
    <2>2. \A t \in Threads \ {ThreadOf(r)} : conversations'[t] = conversations[t]
        BY <1>4 DEF Refuse, NothingToDecide, DeleteMetadata, SaveSnapshot, convVars, TypeOK
    <2> QED
        BY <1>3, <2>1, <2>2
<1>5. ASSUME NEW r \in Requests, NEW x, pc' = [pc EXCEPT ![r] = x],
             pc[r] # "idle", HasLock(r), pc[r] = "running" => InFlight(r) = {},
             UNCHANGED <<job, mcp, active, faults>>, ToolsKept,
             \A t \in Threads \ {ThreadOf(r)} : conversations'[t] = conversations[t]
      PROVE  Attended'
    <2>1. \A s \in Requests \ {r} : pc'[s] = pc[s] /\ job'[s] = job[s]
        BY <1>5 DEF TypeOK
    <2> QED
        BY <1>1, <1>2, <1>5, <2>1, EntitledStay, OthersRemain
<1>6. ASSUME NEW r \in Requests,
             \/ StartChat(r) \/ Resync(r) \/ DeleteCheckpoint(r)
             \/ RunReturns(r) \/ RunRaises(r)
      PROVE  Attended'
    <2>1. /\ pc[r] # "idle" /\ HasLock(r) /\ (pc[r] = "running" => InFlight(r) = {})
          /\ UNCHANGED <<job, mcp, active, faults>>
          /\ \E x : pc' = [pc EXCEPT ![r] = x]
        BY <1>6 DEF StartChat, Resync, DeleteCheckpoint, RunReturns, RunRaises, Raise,
                    Exclusion, Busy
    <2>2. \A t \in Threads \ {ThreadOf(r)} : conversations'[t] = conversations[t]
        BY <1>6 DEF StartChat, Resync, DeleteCheckpoint, RunReturns, RunRaises, convVars, TypeOK
    <2>3. ToolsKept
        BY <1>6 DEF StartChat, Resync, DeleteCheckpoint, RunReturns, RunRaises, Raise, ToolsKept,
                    TypeOK
    <2> QED
        BY <1>5, <2>1, <2>2, <2>3
<1>7. ASSUME NEW r \in Requests, Resume(r) PROVE Attended'
    <2> USE <1>7 DEF Resume, GiveDecision, convVars
    <2>1. /\ pc[r] # "idle" /\ HasLock(r) /\ UserOf(r).user_id \in Supervisors
          /\ \A s \in Requests \ {r} : pc'[s] = pc[s] /\ job'[s] = job[s]
        BY DEF Exclusion, Busy, HolderKnows, TypeOK
    <2>2. Entitled'
        BY <2>1 DEF Entitled, UserOf, TypeOK
    <2> QED
        BY <1>1, <1>2, <2>1, <2>2, OthersRemain
<1>8. ASSUME NEW r \in Requests, ToolTimeout(r) \/ StoreFails(r) PROVE Attended'
    <2>1. faults' # 0
        BY <1>8 DEF ToolTimeout, StoreFails, TypeOK
    <2>2. ToolsKept
        BY <1>8 DEF ToolTimeout, StoreFails, Finish, reqVars, ToolsKept, TypeOK
    <2> QED
        BY <2>1, <2>2, EntitledStay DEF Attended, Quiet
<1>9. CASE ApiCrash
    <2>1. faults' # 0 /\ ToolsKept
        BY <1>9 DEF ApiCrash, ToolsKept, TypeOK
    <2> QED
        BY <2>1, EntitledStay DEF Attended, Quiet
<1>10. ASSUME NEW u \in Deactivatable, Deactivate(u) PROVE Attended'
    <2>1. ~ active'[u] /\ u \in Users /\ ToolsKept
        BY <1>10, DeactivatableAssumption DEF Deactivate, TypeOK, ToolsKept, reqVars
    <2> QED
        BY <2>1, EntitledStay DEF Attended, Quiet
<1>11. ASSUME NEW r \in Requests, ToolForbidden(r) PROVE Attended'
    <2>1. ~ CanPropose(ReadUser(UserOf(r).user_id)) /\ todo[r] # {} /\ pc[r] # "idle"
        BY <1>11 DEF ToolForbidden
    <2>2. UserOf(r).user_id \in Supervisors
        BY <2>1 DEF Entitled
    <2>3. ~ active[UserOf(r).user_id]
        BY <2>1, <2>2 DEF CanPropose, ReadUser
    <2>4. ~ Quiet'
        BY <2>2, <2>3, <1>11 DEF Quiet, ToolForbidden, Users
    <2>5. ToolsKept
        BY <1>11 DEF ToolForbidden, Raise, ToolsKept, TypeOK
    <2> QED
        BY <2>4, <2>5, EntitledStay DEF Attended
<1>12. ASSUME NEW r \in Requests, PersistResume(r) PROVE Attended'
    BY <1>12, <1>1, <1>2 DEF PersistResume, convVars, reqVars, Remain, Entitled, UserOf
<1>13. ASSUME NEW u \in Users, NEW t \in Threads, NewConversation(u, t) PROVE Attended'
    <2> USE <1>13 DEF NewConversation, reqVars
    <2>1. Remain
        <3> SUFFICES ASSUME NEW r \in Requests, pc[r] = "running"
                     PROVE  conversations'[ThreadOf(r)] = conversations[ThreadOf(r)]
            BY DEF Remain
        <3>1. ThreadOf(r) \in used /\ ThreadOf(r) \in Threads
            BY Serving DEF RowStays, Busy, KnownThreads, Conv
        <3> QED
            BY <3>1 DEF TypeOK
    <2> QED
        BY <1>1, <1>2, <2>1 DEF Entitled, UserOf
<1>14. ASSUME NEW r \in Requests, NEW u \in Users, NEW kind \in Kinds, NEW t \in Threads,
              Arrive(r, u, kind, t)
       PROVE  Attended'
    <2> USE <1>14 DEF Arrive, convVars
    <2>1. ToolsKept
        BY DEF ToolsKept, TypeOK, JobState
    <2>2. Remain
        BY DEF Remain, TypeOK
    <2> QED
        BY <1>1, <1>2, <2>1, <2>2, EntitledStay
<1>15. ASSUME NEW k \in Calls, Execute(k) \/ BusinessRefusal(k) PROVE Attended'
    <2>1. /\ UNCHANGED <<conversations, pc, job, todo, active, faults>>
          /\ mcp' = [mcp EXCEPT ![k] = None]
        BY <1>15 DEF Execute, BusinessRefusal, convVars, reqVars
    <2> QED
        BY <1>1, <1>2, <2>1 DEF Remain, Entitled, UserOf, TypeOK
<1>16. ASSUME NEW k \in Calls, Authorize(k) PROVE Attended'
    <2> DEFINE call == [mcp[k] EXCEPT !.stage = "authorized", !.proposer = ProposerOf(k)]
    <2>1. UNCHANGED <<conversations, pc, job, todo, active, faults>> /\ mcp[k] # None
        BY <1>16 DEF Authorize, convVars, reqVars
    <2>2. CASE ~ Authorized(k)
        <3>1. mcp' = [mcp EXCEPT ![k] = None]
            BY <1>16, <2>2 DEF Authorize
        <3> QED
            BY <1>1, <1>2, <2>1, <3>1 DEF Remain, Entitled, UserOf, TypeOK
    <2>3. CASE Authorized(k)
        <3>1. mcp' = [mcp EXCEPT ![k] = call]
            BY <1>16, <2>3 DEF Authorize
        <3>2. /\ call.thread = mcp[k].thread /\ call.user_id = mcp[k].user_id
              /\ call.command = mcp[k].command /\ call.request = mcp[k].request
            BY <2>1 DEF TypeOK, Call
        <3>3. mcp[k].command \in conversations[mcp[k].thread].pending_actions
            BY <2>3 DEF Authorized
        <3> HIDE DEF call
        <3>4. /\ mcp'[k] = call /\ \A j \in Calls \ {k} : mcp'[j] = mcp[j]
            BY <3>1 DEF TypeOK
        <3>5. Entitled'
            BY <2>1 DEF Entitled, UserOf
        <3>6. ASSUME Quiet', NEW j \in Calls, mcp'[j] # None
              PROVE  mcp'[j].request \in Requests /\ Attends(mcp[j].request, j)'
            <4>1. mcp[j] # None /\ mcp[j].request \in Requests /\ Attends(mcp[j].request, j)
                BY <1>2, <2>1, <3>4, <3>6 DEF AllAttended
            <4>2. CASE j # k
                BY <2>1, <3>4, <4>1, <4>2 DEF Attends, ThreadOf, UserOf
            <4>3. CASE j = k
                BY <2>1, <3>2, <3>3, <3>4, <4>1, <4>3 DEF Attends, ThreadOf, UserOf
            <4> QED
                BY <4>2, <4>3
        <3> QED
            BY <3>5, <3>6 DEF Attended, AllAttended, Attends, ThreadOf, UserOf
    <2> QED
        BY <2>2, <2>3
<1>17. ASSUME NEW r \in Requests, NEW k \in Calls, NEW c \in Command, SendTool(r, k, c)
       PROVE  Attended'
    <2> DEFINE call == [request |-> r, thread |-> ThreadOf(r), user_id |-> UserOf(r).user_id,
                        approved |-> job[r].kind = "approve", command |-> c,
                        stage |-> "received", proposer |-> None]
    <2>1. /\ UNCHANGED <<conversations, pc, job, active, faults>>
          /\ pc[r] = "running" /\ todo[r] # {} /\ mcp' = [mcp EXCEPT ![k] = call]
        BY <1>17 DEF SendTool, convVars
    <2>2. job[r].kind = "approve"
        BY <2>1 DEF HolderKnows
    <2>3. /\ call.request = r /\ call.thread = ThreadOf(r)
          /\ call.user_id = UserOf(r).user_id /\ call.stage = "received"
        OBVIOUS
    <2> HIDE DEF call
    <2>4. /\ mcp'[k] = call /\ \A j \in Calls \ {k} : mcp'[j] = mcp[j]
        BY <2>1 DEF TypeOK
    <2>5. Entitled'
        BY <1>17, EntitledStay DEF SendTool, ToolsKept, TypeOK
    <2>6. ASSUME Quiet', NEW j \in Calls, mcp'[j] # None
          PROVE  mcp'[j].request \in Requests /\ Attends(mcp[j].request, j)'
        <3>1. CASE j # k
            BY <1>2, <2>1, <2>4, <2>6, <3>1 DEF AllAttended, Attends, ThreadOf, UserOf
        <3>2. CASE j = k
            BY <2>1, <2>2, <2>3, <2>4, <3>2 DEF Attends, ThreadOf, UserOf
        <3> QED
            BY <3>1, <3>2
    <2> QED
        BY <2>5, <2>6 DEF Attended, AllAttended, Attends, ThreadOf, UserOf
<1>18. CASE UNCHANGED vars
    BY <1>18, <1>1, <1>2 DEF vars, convVars, reqVars, Remain, Entitled, UserOf
<1> QED
    BY <1>4, <1>6, <1>7, <1>8, <1>9, <1>10, <1>11, <1>12, <1>13, <1>14, <1>15, <1>16, <1>17,
       <1>18
       DEF Next, RequestStep, CallStep

\* Without faults and deactivations an incident is written only while the request
\* that approved it waits for it and the metadata still propose it, however many
\* requests and calls there are and whatever conversations are opened or deleted.
THEOREM WritesAttended == Spec => WritesHappenUnderApproval
<1>1. Typing /\ Attended /\ [Next]_vars =>
         [\A k \in Calls :
             ( /\ mcp[k] # None /\ mcp'[k] = None /\ audits' # audits
               /\ faults = 0 /\ \A u \in Users : active[u]) =>
                /\ conversations[mcp[k].thread] # None
                /\ mcp[k].command \in conversations[mcp[k].thread].pending_actions
                /\ \E r \in Requests :
                      /\ pc[r] = "running" /\ job[r].kind = "approve"
                      /\ ThreadOf(r) = mcp[k].thread
                      /\ UserOf(r).user_id = mcp[k].user_id]_vars
    <2> SUFFICES ASSUME Typing, Attended, Next, NEW k \in Calls,
                        mcp[k] # None, mcp'[k] = None, audits' # audits, Quiet
                 PROVE  /\ conversations[mcp[k].thread] # None
                        /\ mcp[k].command \in conversations[mcp[k].thread].pending_actions
                        /\ \E r \in Requests :
                              /\ pc[r] = "running" /\ job[r].kind = "approve"
                              /\ ThreadOf(r) = mcp[k].thread
                              /\ UserOf(r).user_id = mcp[k].user_id
        BY DEF Quiet
    <2>1. \E j \in Calls : Execute(j)
        BY DEF Next, RequestStep, CallStep, NewConversation, Arrive, Refuse, StartChat, Resync,
               NothingToDecide, Resume, GiveDecision, DeleteCheckpoint, DeleteMetadata, SendTool,
               RunReturns, ToolForbidden, SaveSnapshot, PersistResume, RunRaises, ToolTimeout,
               StoreFails, Authorize, BusinessRefusal, ApiCrash, Deactivate, dbVars
    <2>2. Execute(k)
        BY <2>1 DEF Execute, Typing, TypeOK
    <2>3. mcp[k].request \in Requests /\ Attends(mcp[k].request, k) /\ mcp[k].stage = "authorized"
        BY <2>2 DEF Attended, AllAttended, Execute
    <2>4. conversations[mcp[k].thread] # None
        BY <2>3 DEF Attends, Typing, RowStays, Busy, Conv
    <2> QED
        BY <2>3, <2>4 DEF Attends
<1> QED
    BY <1>1, InitTyping, NextTyping, InitStores, NextStores, InitAttended, NextAttended, PTL
       DEF Spec, WritesHappenUnderApproval
==============================================================================
