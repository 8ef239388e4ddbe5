------------------------------- MODULE UiSession -------------------------------
(***************************************************************************)
(* Browser sessions of the Streamlit page (ui/app.py) in front of the API. *)
(* A click reruns the whole script: it fetches the lists, settles which    *)
(* chat is selected, fetches that chat, and only then handles the click,   *)
(* on what it has just fetched.  Other sessions act in between, and a call *)
(* the page gives up on after 90 seconds is served all the same.           *)
(*                                                                         *)
(* Until a run draws a new page, the old one stays on the screen and can   *)
(* be clicked: Streamlit then stops the run, whatever it waits for, and    *)
(* starts another one.  The call in flight goes on in the API; its answer  *)
(* reaches nobody.  Only calls take time: what the script does between two *)
(* of them is one step.                                                    *)
(*                                                                         *)
(* The API is ProposalLifecycle behind one FIFO lock per thread, with the  *)
(* metadata the lists are made of; its faults are in ConversationApi.      *)
(*                                                                         *)
(* An operator introduced by "Mutant:" is a faulty variant of the          *)
(* definition that follows it; no action uses it.                          *)
(***************************************************************************)
EXTENDS Access, Sequences, Naturals

CONSTANTS
    Sessions, Threads, Keys, Orders, Reasons,
    Switching,    \* bounds which sessions change their profile
    MaxTimeouts,  \* bounds calls the page gives up on or cannot send
    MaxInterruptions,  \* bounds clicks while a run is in progress
    None,
    Absent        \* no entry next_thread in the session state

ASSUME BoundsAssumption ==
    MaxTimeouts \in Nat /\ MaxInterruptions \in Nat /\ Switching \subseteq Sessions

\* None and Absent are not among what they stand beside.
ASSUME NoneAssumption ==
    /\ None \notin Threads \union Sessions \union Users
    /\ Absent \notin Threads \union {None}

VARIABLES
    owner, pending, decided,  \* of ProposalLifecycle
    used,     \* thread identifiers already drawn
    meta,     \* columns status and reviewer_id of table conversations
    queue,    \* per thread: the request that holds the lock, then the waiting
    ui,       \* per session: session state, screen, position in the script
    timeouts, interruptions

talk == <<owner, pending, decided>>
server == <<talk, used, meta>>
counters == <<timeouts, interruptions>>
vars == <<server, queue, ui, counters>>

L == INSTANCE ProposalLifecycle WITH
        approvals <- {}, incidents <- {}, audits <- {}, AuditIds <- {}, Seeded <- {}

Actions == SUBSET L!R!Command

Profile(u) == [user_id |-> u, active |-> TRUE]

\* What a page shows; page.thread = None is "new conversation".
Blank == [thread |-> None, owner |-> None, actions |-> {},
          can_chat |-> TRUE, can_decide |-> FALSE]
Stopped == [Blank EXCEPT !.can_chat = FALSE]

Page == [thread : Threads \union {None}, owner : Users \union {None},
         actions : Actions, can_chat : BOOLEAN, can_decide : BOOLEAN]

\* A click, with the chats (of the page, and of the selectbox beside it) and
\* the actions that were on the screen.
Kinds == {"none", "message", "decision", "delete", "confirm", "cancel"}
Click == [kind : Kinds, seen : SUBSET (Threads \union {None}), shown : Actions]
NoClick == [kind |-> "none", seen |-> {}, shown |-> {}]

Row == [owner_id : Users, status : {"completed", "approval_required"},
        reviewer_id : Users \union {None}]

\* session = None: nobody waits for the answer.  seen, shown and asked remember
\* the screen on which the user clicked; row is what the history handler has read.
Request == [kind : {"history", "chat", "decision", "delete"},
            session : Sessions \union {None}, user : Users, running : BOOLEAN,
            seen : SUBSET (Threads \union {None}), shown : Actions,
            asked : Threads \union {None}, row : Row \union {None}]

Session ==
    [user : Users,                              \* active_user_id
     choice : Threads \union {None},            \* chat_choice
     next : Threads \union {None, Absent},      \* next_thread
     target : Threads \union {None},            \* delete_target
     box : Threads \union {None},               \* chat_choice as the browser has it
     saved : SUBSET Threads,                    \* answer of GET /conversations
     options : SUBSET Threads,                  \* chats offered by the selectbox
     page : Page,                               \* on the screen
     click : Click,                             \* for which the script runs
     pc : {"page", "lists", "approvals", "row", "history", "act", "creating",
           "first", "waiting"},
     made : Threads \union {None},  \* history: the chat this session has started
     asked : Threads \union {None}] \* history: the chat asked to be deleted

TypeOK ==
    /\ owner \in [Threads -> Users \union {None}]
    /\ pending \in [Threads -> Actions \union {None}]
    /\ decided \in [Threads -> BOOLEAN]
    /\ used \subseteq Threads
    /\ meta \in [Threads -> [status : {"completed", "approval_required"},
                             reviewer_id : Users \union {None}]]
    /\ queue \in [Threads -> Seq(Request)]
    /\ ui \in [Sessions -> Session]
    /\ timeouts \in 0 .. MaxTimeouts
    /\ interruptions \in 0 .. MaxInterruptions

\* Somebody has opened the page with some profile; nothing is stored yet.
Init ==
    /\ L!Init
    /\ used = {}
    /\ meta = [t \in Threads |-> [status |-> "completed", reviewer_id |-> None]]
    /\ queue = [t \in Threads |-> <<>>]
    /\ ui \in [Sessions ->
          {[user |-> u, choice |-> None, next |-> Absent, target |-> None,
            box |-> None, saved |-> {}, options |-> {}, page |-> Blank,
            click |-> NoClick, pc |-> "page",
            made |-> None, asked |-> None] : u \in Users}]
    /\ timeouts = 0 /\ interruptions = 0

-----------------------------------------------------------------------------
(* The script up to the handling of the click *)

Becomes(s, session) == ui' = [ui EXCEPT ![s] = session]

\* The end of a script run, and st.rerun(): buttons do not stay pressed.
Shows(session, page) ==
    [session EXCEPT !.pc = "page", !.page = page, !.click = NoClick,
                    !.box = session.choice, !.saved = {}]

\* The script starts from the top; the screen stays as it is for the moment.
Rerun(session) == [session EXCEPT !.pc = "lists", !.click = NoClick, !.saved = {}]

\* POST /conversations.
Creates(u, t) ==
    /\ t \notin used
    /\ L!Open(t, u)
    /\ used' = used \union {t}
    /\ UNCHANGED meta

\* The requests of s: nobody waits for them any more.
Abandoned(s) ==
    [t \in Threads |-> [i \in DOMAIN queue[t] |->
        IF queue[t][i].session = s THEN [queue[t][i] EXCEPT !.session = None]
        ELSE queue[t][i]]]

\* The user acts: a run that is in progress stops where it waits, and the API
\* may or may not have created the chat it was asked for.
Acts(s, session) ==
    /\ Becomes(s, session)
    /\ queue' = Abandoned(s)
    /\ UNCHANGED timeouts
    /\ \/ ui[s].pc = "page" /\ UNCHANGED <<server, interruptions>>
       \/ /\ ui[s].pc # "page" /\ interruptions < MaxInterruptions
          /\ interruptions' = interruptions + 1
          /\ \/ UNCHANGED server
             \/ ui[s].pc = "creating" /\ \E t \in Threads : Creates(ui[s].user, t)

\* The run that follows starts with the chat that the browser has selected; what
\* a stopped run has set before it drew the selectbox is lost.
Clicked(session) == [Rerun(session) EXCEPT !.choice = session.box]

\* Without a selectbox on the screen the browser has nothing to say.
ToNewChat(session) ==
    [Clicked(session) EXCEPT
        !.choice = None, !.box = IF session.options = {} THEN None ELSE @,
        !.target = None, !.made = None, !.asked = None]

\* Another profile is selected.
SelectProfile(s, u) ==
    /\ s \in Switching /\ u # ui[s].user
    /\ Acts(s, [ToNewChat(ui[s]) EXCEPT !.user = u, !.next = Absent])

\* Button "new conversation".
NewChat(s) == Acts(s, ToNewChat(ui[s]))

\* Another chat is selected in the sidebar.
ChooseChat(s, t) ==
    /\ t \in ui[s].options \union {None} /\ t # ui[s].box
    /\ Acts(s, [Clicked(ui[s]) EXCEPT !.choice = t, !.box = t, !.made = None])

\* Which clicks the page offers.
Offered(session, kind) ==
    LET page == session.page
        own == page.thread # None /\ page.owner = session.user
    IN  CASE kind = "none" -> TRUE   \* button "refresh"
          [] kind = "message" -> page.can_chat
          [] kind = "decision" -> page.actions # {} /\ page.can_decide
          [] kind = "delete" -> own
          [] kind \in {"confirm", "cancel"} -> own /\ session.target = page.thread

\* The button has no key of its own for each chat: the next run only learns
\* which kind of button it was.
Press(s, kind) ==
    /\ Offered(ui[s], kind)
    /\ Acts(s, [Clicked(ui[s]) EXCEPT
          !.click = IF kind = "none" THEN NoClick
                    ELSE [kind |-> kind, seen |-> {ui[s].page.thread, ui[s].box},
                          shown |-> IF kind = "decision" THEN ui[s].page.actions ELSE {}]])

RowOf(t) == IF owner[t] = None THEN None
            ELSE [owner_id |-> owner[t], status |-> meta[t].status,
                  reviewer_id |-> meta[t].reviewer_id]

CanRead(u, t) == owner[t] # None /\ CanReadConversation(Profile(u), RowOf(t))

\* GET /conversations, GET /approvals.
SavedChats(u) ==
    {t \in Threads : CanRead(u, t) /\ (owner[t] = u \/ meta[t].reviewer_id = u)}

PendingChats(u) == {t \in Threads : CanRead(u, t) /\ meta[t].status = "approval_required"}

\* A chat that is no longer offered is replaced by "new conversation".
\* Mutant: the list has no empty entry, the first chat is the default.
FirstOption(choice, options) ==
    IF choice \in options \/ options = {} THEN choice
    ELSE CHOOSE t \in options : TRUE

StillOffered(choice, options) == IF choice \in options THEN choice ELSE None

\* Mutant: the deletion target survives the visit of another chat.
TargetKept(target, thread) == target

TargetOf(target, thread) == IF target = thread THEN target ELSE None

\* A page is drawn.  History: a deletion is asked for until the user has seen
\* the page of another chat.
Draws(session, page) ==
    [session EXCEPT !.pc = "act", !.page = page,
                    !.asked = IF page.thread = @ THEN @ ELSE None]

\* The chat this run of the script is about.
WithOptions(session, options) ==
    LET wanted == IF session.next = Absent THEN session.choice ELSE session.next
        thread == StillOffered(wanted, options)
        settled == [session EXCEPT !.options = options, !.saved = {}, !.next = Absent,
                                   !.choice = thread, !.box = thread,
                                   !.target = TargetOf(@, thread), !.pc = "row"]
    IN  IF thread = None THEN Draws(settled, Blank) ELSE settled

FetchSaved(s) ==
    /\ ui[s].pc = "lists"
    /\ LET chats == SavedChats(ui[s].user)
       IN  IF ui[s].user \in Supervisors
           THEN Becomes(s, [ui[s] EXCEPT !.pc = "approvals", !.saved = chats])
           ELSE Becomes(s, WithOptions(ui[s], chats))
    /\ UNCHANGED <<server, queue, counters>>

FetchApprovals(s) ==
    /\ ui[s].pc = "approvals"
    /\ Becomes(s, WithOptions(ui[s], ui[s].saved \union PendingChats(ui[s].user)))
    /\ UNCHANGED <<server, queue, counters>>

NewRequest(s, kind, row) ==
    [kind |-> kind, session |-> s, user |-> ui[s].user, running |-> FALSE,
     seen |-> ui[s].click.seen, shown |-> ui[s].click.shown,
     asked |-> ui[s].asked, row |-> row]

\* GET /conversations/{id}: the row is read before the lock is asked for.
FetchRow(s) ==
    LET t == ui[s].choice
    IN  /\ ui[s].pc = "row"
        /\ IF CanRead(ui[s].user, t)
           THEN /\ queue' = [queue EXCEPT ![t] = Append(@, NewRequest(s, "history", RowOf(t)))]
                /\ Becomes(s, [ui[s] EXCEPT !.pc = "history"])
           ELSE /\ Becomes(s, Shows(ui[s], Stopped))
                /\ UNCHANGED queue
        /\ UNCHANGED <<server, counters>>

-----------------------------------------------------------------------------
(* The handling of the click *)

Handles(s, kind) ==
    ui[s].pc = "act" /\ ui[s].click.kind = kind /\ Offered(ui[s], kind)

AskDeletion(s) ==
    /\ Handles(s, "delete")
    /\ Becomes(s, [Shows(ui[s], ui[s].page) EXCEPT !.target = ui[s].page.thread,
                                                   !.asked = ui[s].page.thread])
    /\ UNCHANGED <<server, queue, counters>>

CancelDeletion(s) ==
    /\ Handles(s, "cancel")
    /\ Becomes(s, [Rerun(ui[s]) EXCEPT !.target = None, !.asked = None])
    /\ UNCHANGED <<server, queue, counters>>

Post(s, t, kind) ==
    /\ queue' = [queue EXCEPT ![t] = Append(@, NewRequest(s, kind, None))]
    /\ Becomes(s, [ui[s] EXCEPT !.pc = "waiting"])
    /\ UNCHANGED <<server, counters>>

ConfirmDeletion(s) == Handles(s, "confirm") /\ Post(s, ui[s].page.thread, "delete")

\* Approve or reject: the same call, whose contents the page does not use.
Decide(s) == Handles(s, "decision") /\ Post(s, ui[s].page.thread, "decision")

\* chat_input returns the text also when the box is disabled by now.
Message(s) == ui[s].pc = "act" /\ ui[s].click.kind = "message"

SendMessage(s) ==
    Message(s) /\ ui[s].page.thread # None /\ Post(s, ui[s].page.thread, "chat")

StartNewChat(s) ==
    /\ Message(s) /\ ui[s].page.thread = None
    /\ Becomes(s, [ui[s] EXCEPT !.pc = "creating"])
    /\ UNCHANGED <<server, queue, counters>>

\* Mutant: next_thread is only set once the first message is answered.
AnsweredWithoutNext(session, t) ==
    [session EXCEPT !.pc = "first", !.page.thread = t, !.made = t]

\* The new chat is selected from the next run of the script on.
Answered(session, t) ==
    [session EXCEPT !.pc = "first", !.page.thread = t, !.made = t, !.next = t]

ChatCreated(s) ==
    /\ ui[s].pc = "creating"
    /\ \E t \in Threads : Creates(ui[s].user, t) /\ Becomes(s, Answered(ui[s], t))
    /\ UNCHANGED <<queue, counters>>

SendFirstMessage(s) ==
    LET t == ui[s].page.thread
    IN  /\ ui[s].pc = "first"
        /\ queue' = [queue EXCEPT ![t] =
              Append(@, [NewRequest(s, "chat", None) EXCEPT !.seen = {t}])]
        /\ Becomes(s, [ui[s] EXCEPT !.pc = "waiting"])
        /\ UNCHANGED <<server, counters>>

\* The answer is an error.
CreationFails(s) ==
    /\ ui[s].pc = "creating"
    /\ Becomes(s, Rerun(ui[s]))
    /\ UNCHANGED <<server, queue, counters>>

\* No click, or one whose widget this run of the script does not draw.
Display(s) ==
    /\ ui[s].pc = "act"
    /\ ~ Message(s)
    /\ Offered(ui[s], ui[s].click.kind) => ui[s].click.kind = "none"
    /\ Becomes(s, Shows(ui[s], ui[s].page))
    /\ UNCHANGED <<server, queue, counters>>

-----------------------------------------------------------------------------
(* The API *)

\* Mutant: the transcript is read without the lock.
AnyTurn(t, i) == i \in DOMAIN queue[t]

HistoryTurn(t, i) == i = 1 /\ queue[t] # <<>>

Decidable(q, actions) == CanDecide(Profile(q.user), q.row) /\ actions # {}

HistoryPage(t, q) ==
    [thread |-> t, owner |-> q.row.owner_id, actions |-> L!Waiting(t),
     can_chat |-> q.user = q.row.owner_id /\ L!Waiting(t) = {},
     can_decide |-> Decidable(q, L!Waiting(t))]

Without(t, i) == [queue EXCEPT ![t] = SubSeq(@, 1, i - 1) \o SubSeq(@, i + 1, Len(@))]

\* The answer of the history handler: the row of one moment, the actions of another.
AnswerHistory(t, i) ==
    LET q == queue[t][i]
    IN  /\ HistoryTurn(t, i) /\ q.kind = "history"
        /\ queue' = Without(t, i)
        /\ IF q.session = None THEN UNCHANGED ui
           ELSE Becomes(q.session, Draws(ui[q.session], HistoryPage(t, q)))
        /\ UNCHANGED <<server, counters>>

Holder(t) == Head(queue[t])

Serves(t, kinds, running) ==
    queue[t] # <<>> /\ Holder(t).kind \in kinds /\ Holder(t).running = running

\* The checks under the lock.
Accepted(t) ==
    LET q == Holder(t)
    IN  /\ CanRead(q.user, t)
        /\ q.kind \in {"chat", "delete"} => owner[t] = q.user
        /\ q.kind = "chat" => L!Waiting(t) = {}
        /\ q.kind = "decision" =>
              CanDecide(Profile(q.user), RowOf(t)) /\ L!Waiting(t) # {}

\* Mutant: a refused decision is sent again.
RetriedAnswer(session, kind, ok) ==
    IF kind = "decision" /\ ~ ok THEN [session EXCEPT !.pc = "act"] ELSE Rerun(session)

\* The script gets its answer and reruns; a deleted chat is deselected.
Answer(session, kind, ok) ==
    IF kind = "delete" /\ ok
    THEN [Rerun(session) EXCEPT !.target = None, !.next = None]
    ELSE Rerun(session)

Ends(t, ok) ==
    LET q == Holder(t)
    IN  /\ queue' = [queue EXCEPT ![t] = Tail(@)]
        /\ IF q.session = None THEN UNCHANGED ui
           ELSE Becomes(q.session, Answer(ui[q.session], q.kind, ok))
        /\ UNCHANGED <<used, counters>>

Refuse(t) ==
    /\ Serves(t, {"chat", "decision", "delete"}, FALSE) /\ ~ Accepted(t)
    /\ Ends(t, FALSE)
    /\ UNCHANGED <<talk, meta>>

StartRun(t) ==
    LET q == Holder(t)
    IN  /\ Serves(t, {"chat", "decision", "delete"}, FALSE) /\ Accepted(t)
        /\ CASE q.kind = "chat" -> IF pending[t] = None THEN L!Begin(t) ELSE UNCHANGED talk
             [] q.kind = "decision" -> L!Decide(t, q.user)
             [] q.kind = "delete" -> L!Withdraw(t)
        /\ queue' = [queue EXCEPT ![t][1].running = TRUE]
        /\ UNCHANGED <<used, meta, ui, counters>>

\* Mutant: a status the CHECK constraint of the table does not know.
InterruptedStatus(commands) == IF commands \in {None, {}} THEN "completed" ELSE "interrupted"

StatusOf(commands) ==
    IF commands \in {None, {}} THEN "completed" ELSE "approval_required"

\* save_state: metadata follow the transcript.
Saves(t, reviewer) ==
    meta' = [meta EXCEPT ![t] =
       [status |-> StatusOf(pending'[t]),
        reviewer_id |-> IF reviewer = None THEN @.reviewer_id ELSE reviewer]]

\* A run of a message ends with an answer, with proposals, or raises.
EndChat(t, ok) ==
    /\ Serves(t, {"chat"}, TRUE)
    /\ \/ UNCHANGED talk
       \/ ok /\ \E commands \in Actions \ {{}} : L!Propose(t, commands)
    /\ Saves(t, None)
    /\ Ends(t, ok)

\* A resumed run ends, proposes again, or raises before or after its decision
\* is consumed.
EndDecision(t, ok) ==
    /\ Serves(t, {"decision"}, TRUE)
    /\ \/ \E commands \in Actions : (ok \/ commands = {}) /\ L!Settle(t, commands, FALSE)
       \/ ~ ok /\ L!Forget({t})
    /\ Saves(t, Holder(t).user)
    /\ Ends(t, ok)

EndDeletion(t) ==
    /\ Serves(t, {"delete"}, TRUE)
    /\ L!Close(t)
    /\ Ends(t, TRUE)
    /\ UNCHANGED meta

-----------------------------------------------------------------------------
(* The network *)

NeverArrived(s) ==
    \E t \in Threads : \E i \in DOMAIN queue[t] :
       /\ queue[t][i].session = s /\ ~ queue[t][i].running
       /\ queue' = Without(t, i)

\* httpx gives up: a GET stops the page, a POST or DELETE reruns the script.
GiveUp(s) ==
    /\ timeouts < MaxTimeouts
    /\ timeouts' = timeouts + 1
    /\ UNCHANGED interruptions
    /\ \/ /\ ui[s].pc \in {"lists", "approvals"}
          /\ Becomes(s, [Shows(ui[s], Stopped) EXCEPT !.options = {}])
          /\ UNCHANGED <<server, queue>>
       \/ /\ ui[s].pc \in {"row", "history"}
          /\ queue' = Abandoned(s) \/ NeverArrived(s)
          /\ Becomes(s, Shows(ui[s], Stopped))
          /\ UNCHANGED server
       \/ /\ ui[s].pc = "creating"
          /\ \E t \in Threads : Creates(ui[s].user, t)
          /\ Becomes(s, Rerun(ui[s]))
          /\ UNCHANGED queue
       \/ /\ ui[s].pc = "first"
          /\ Becomes(s, Rerun(ui[s]))
          /\ UNCHANGED <<server, queue>>
       \/ /\ ui[s].pc = "waiting"
          /\ queue' = Abandoned(s) \/ NeverArrived(s)
          /\ Becomes(s, Rerun(ui[s]))
          /\ UNCHANGED server

-----------------------------------------------------------------------------

UserStep(s) ==
    \/ \E u \in Users : SelectProfile(s, u)
    \/ NewChat(s)
    \/ \E t \in Threads \union {None} : ChooseChat(s, t)
    \/ \E kind \in Kinds : Press(s, kind)

ScriptStep(s) ==
    \/ FetchSaved(s) \/ FetchApprovals(s) \/ FetchRow(s)
    \/ AskDeletion(s) \/ CancelDeletion(s) \/ ConfirmDeletion(s) \/ Decide(s)
    \/ SendMessage(s) \/ StartNewChat(s) \/ ChatCreated(s) \/ SendFirstMessage(s)
    \/ CreationFails(s) \/ Display(s)

ServerStep(t) ==
    \/ \E i \in DOMAIN queue[t] : AnswerHistory(t, i)
    \/ Refuse(t) \/ StartRun(t) \/ EndDeletion(t)
    \/ \E ok \in BOOLEAN : EndChat(t, ok) \/ EndDecision(t, ok)

Next ==
    \/ \E s \in Sessions : UserStep(s) \/ ScriptStep(s) \/ GiveUp(s)
    \/ \E t \in Threads : ServerStep(t)

\* Streamlit runs every script, the API serves every thread; nobody has to
\* click and no call has to be given up.
Fairness == /\ \A s \in Sessions : WF_vars(ScriptStep(s))
            /\ \A t \in Threads : WF_vars(ServerStep(t))

Spec == Init /\ [][Next]_vars
FairSpec == Spec /\ Fairness

-----------------------------------------------------------------------------
(* Properties *)

\* What a click sends concerns a chat that was on the screen when the user
\* clicked: the chat of the page, or the one selected beside it, although the
\* script has fetched the lists and settled the chat anew since then
\* (ui/app.py:90-94, 170-185); a message may also start a new chat.  Once a run
\* has ended the two are the same chat.  While it is in progress they may differ,
\* and the click goes to the one selected (ui/app.py:169, 197-198).
ClicksStayOnTheScreen ==
    /\ \A t \in Threads : \A i \in DOMAIN queue[t] :
          queue[t][i].kind # "history" => t \in queue[t][i].seen
    /\ \A s \in Sessions :
          ui[s].pc = "page" /\ ui[s].page # Stopped => ui[s].page.thread = ui[s].box

\* A chat is deleted only if the user has asked for its deletion and confirmed
\* without having seen another chat in between: not for another chat, not for
\* another profile and not for an earlier visit, whatever runs were stopped on the
\* way (ui/app.py:65, 80, 112-113, 132-159).
DeletionsAreConfirmed ==
    \A t \in Threads : \A i \in DOMAIN queue[t] :
       queue[t][i].kind = "delete" => queue[t][i].asked = t

\* After a message has created a chat and the page has learned of it, pages that
\* can be shown at all show that chat until the user moves on, also when the
\* message itself has failed, timed out or was overtaken by a click: repeating it
\* does not start a second chat (ui/app.py:178-184).  A creation whose answer was
\* lost leaves a chat that the page does not know of.
NewChatIsShown ==
    \A s \in Sessions :
       (/\ ui[s].pc = "page" /\ ui[s].page # Stopped
        /\ ui[s].made # None /\ owner[ui[s].made] # None)
          => ui[s].page.thread = ui[s].made

\* The history handler reads the row before it waits for the lock and the
\* transcript after (api/main.py:224-238): what it offers for a decision is
\* pending at that moment, for this user, and not being decided already.
OffersAreOpen ==
    [][\A s \in Sessions :
          (ui[s].pc = "history" /\ ui'[s].pc = "act" /\ ui'[s].page.can_decide = TRUE) =>
             LET t == ui'[s].page.thread
             IN  /\ ui'[s].page.actions = L!Waiting(t)
                 /\ ~ decided[t] /\ L!MayDecide(ui[s].user, t)]_vars

\* Whatever fails or times out, every session shows a page again and does not
\* send its click for ever (ui/app.py:145-187, 200-210).
SessionsRecover == \A s \in Sessions : ui[s].pc # "page" ~> ui[s].pc = "page"

-----------------------------------------------------------------------------
(* Statements of the documentation *)

\* README.md:413: "la decision porte sur l'ensemble des actions affichees".
DecisionsCoverWhatWasShown ==
    [][\A t \in Threads :
          (~ decided[t] /\ decided'[t]) => pending[t] = Holder(t).shown]_vars
=============================================================================
