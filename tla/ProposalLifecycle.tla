--------------------------- MODULE ProposalLifecycle ---------------------------
(***************************************************************************)
(* What the application promises about proposals, without locks, requests, *)
(* tool calls or stores: a proposal is pending until an entitled           *)
(* supervisor decides or its owner withdraws it, and a write is the        *)
(* registry's CreateOrGet for a command that somebody has approved.        *)
(* ConversationApi implements this specification; UiSession uses it as its *)
(* server.                                                                 *)
(***************************************************************************)
EXTENDS Access

CONSTANTS Threads, Keys, Orders, Reasons, AuditIds, Seeded, None

VARIABLES
    owner,      \* per thread: the user who opened it, or None
    pending,    \* per thread: the commands waiting for a decision, or None
                \* when there is no transcript
    decided,    \* per thread: is a decision being carried out?
    approvals,  \* history: the decisions that approved something
    incidents, audits

talk == <<owner, pending, decided>>
vars == <<talk, approvals, incidents, audits>>

R == INSTANCE IncidentRegistry
        WITH Ids <- AuditIds, Approvers <- Supervisors, Proposers <- Users

Init ==
    /\ owner = [t \in Threads |-> None]
    /\ pending = [t \in Threads |-> None]
    /\ decided = [t \in Threads |-> FALSE]
    /\ approvals = {}
    /\ R!Init

\* A supervisor decides in his own conversations and in those of operators.
MayDecide(u, t) == u \in Supervisors /\ (owner[t] = u \/ owner[t] \in Operators)

Open(t, u) ==
    /\ owner[t] = None
    /\ owner' = [owner EXCEPT ![t] = u]
    /\ UNCHANGED <<pending, decided, approvals, incidents, audits>>

\* What waits for a decision; nothing without a transcript.
Waiting(t) == IF pending[t] = None THEN {} ELSE pending[t]

\* The first message starts the transcript.
Begin(t) ==
    /\ owner[t] # None /\ pending[t] = None
    /\ pending' = [pending EXCEPT ![t] = {}]
    /\ UNCHANGED <<owner, decided, approvals, incidents, audits>>

\* A run of the agent ends with proposals; readers have no tool to propose.
Propose(t, commands) ==
    /\ owner[t] \in Operators \union Supervisors
    /\ pending[t] = {} /\ ~ decided[t]
    /\ pending' = [pending EXCEPT ![t] = commands]
    /\ UNCHANGED <<owner, decided, approvals, incidents, audits>>

\* One decision for all that is pending ...
Decide(t, u) ==
    /\ MayDecide(u, t) /\ Waiting(t) # {} /\ ~ decided[t]
    /\ decided' = [decided EXCEPT ![t] = TRUE]
    /\ UNCHANGED <<owner, pending, incidents, audits>>

\* ... which may be an approval.
Approval(t, u) ==
    [thread |-> t, owner |-> owner[t], reviewer |-> u, commands |-> pending[t]]

\* The decision is consumed; the resumed run may go on, end, or propose again.
Settle(t, commands, goesOn) ==
    /\ decided[t]
    /\ pending' = [pending EXCEPT ![t] = commands]
    /\ decided' = [decided EXCEPT ![t] = goesOn]
    /\ UNCHANGED <<owner, approvals, incidents, audits>>

\* Runs that die before their decision is consumed: it has to be given again.
Forget(ts) ==
    /\ decided' = [t \in Threads |-> decided[t] /\ t \notin ts]
    /\ UNCHANGED <<owner, pending, approvals, incidents, audits>>

\* The owner deletes the conversation: first the transcript with what is
\* pending, then the rest.
Withdraw(t) ==
    /\ owner[t] # None /\ ~ decided[t]
    /\ pending' = [pending EXCEPT ![t] = None]
    /\ UNCHANGED <<owner, decided, approvals, incidents, audits>>

Close(t) ==
    /\ owner[t] # None /\ pending[t] = None /\ ~ decided[t]
    /\ owner' = [owner EXCEPT ![t] = None]
    /\ UNCHANGED <<pending, decided, approvals, incidents, audits>>

\* Approved commands are written, possibly more than once (replays) and
\* possibly late: the reviewer is the actor, the owner the proposer.
Write ==
    /\ \E d \in approvals, id \in AuditIds : \E c \in d.commands :
          R!CreateOrGet(id, c, d.reviewer, d.owner)
    /\ UNCHANGED <<talk, approvals>>

Next ==
    \/ \E t \in Threads :
          \/ \E u \in Users :
                \/ Open(t, u)
                \/ /\ Decide(t, u)
                   /\ approvals' \in {approvals, approvals \union {Approval(t, u)}}
          \/ \E commands \in SUBSET R!Command :
                \/ Propose(t, commands)
                \/ \E goesOn \in BOOLEAN : Settle(t, commands, goesOn)
          \/ Begin(t) \/ Withdraw(t) \/ Close(t)
    \/ \E ts \in SUBSET Threads : Forget(ts)
    \/ Write

Spec == Init /\ [][Next]_vars
=============================================================================
