---------------------------- MODULE UiSessionProofs ----------------------------
(***************************************************************************)
(* Proofs about UiSession, for any number of sessions, threads and users,  *)
(* changes of profile, calls given up and runs interrupted.  The invariant *)
(* relates what is drawn, clicked and selected; the last section shows     *)
(* that the server of the pages is the lifecycle that ConversationApi      *)
(* implements.                                                             *)
(***************************************************************************)
EXTENDS UiSession, SequenceTheorems, TLAPS

-----------------------------------------------------------------------------
(* The inductive invariant *)

\* What the screen, the browser and the script say of the chat selected: between the
\* settling of the lists and the end of the run they agree; before, the next chat is one
\* that the screen shows, and a click refers to what was on the screen.
Screen(u) ==
    /\ u.pc = "page" => u.box = u.choice
    /\ u.pc = "page" /\ u.page # Stopped => u.next = Absent /\ u.page.thread = u.choice
    /\ u.pc \in {"row", "history", "act", "creating"} => u.next = Absent /\ u.box = u.choice
    /\ u.pc \in {"row", "history"} => u.choice # None
    /\ u.pc = "act" => u.page.thread = u.choice
    /\ u.pc = "creating" => u.choice = None
    /\ u.pc = "first" => u.page.thread # None
    /\ u.page.thread = None => u.page.actions = {}
    /\ u.page # Stopped => u.next \in {Absent, None, u.page.thread}
    /\ u.click.kind # "none" =>
          /\ u.pc \in {"lists", "approvals"} =>
                /\ u.next \in {Absent, None} \union u.click.seen
                /\ u.choice \in {None} \union u.click.seen
          /\ u.pc \in {"row", "history", "act"} => u.choice \in {None} \union u.click.seen

\* The deletion target is the chat whose deletion was asked for, and once the lists
\* are there it is the chat selected.
Target(u) ==
    /\ u.target \in {None, u.asked}
    /\ u.pc \in {"row", "history", "act", "creating"} => u.target \in {None, u.choice}

\* The chat that the session has started is selected, in the script and in the browser,
\* or will be next.
Made(u, owners, drawn) ==
    u.made # None =>
       /\ u.made \in drawn
       /\ owners[u.made] \in {None, u.user}
       /\ owners[u.made] # None =>
             /\ u.next = u.made \/ (u.next = Absent /\ u.choice = u.made /\ u.box = u.made)
             /\ u.pc = "approvals" => u.made \in u.saved

Good(u, owners, drawn) == Screen(u) /\ Target(u) /\ Made(u, owners, drawn)

SessionsInv == \A s \in Sessions : Good(ui[s], owner, used)

\* Who waits for a request, and what the request is about.
Waits(q, t, sessions) ==
    q.session # None =>
       /\ sessions[q.session].pc = IF q.kind = "history" THEN "history" ELSE "waiting"
       /\ sessions[q.session].user = q.user
       /\ q.kind \in {"history", "delete"} =>
             sessions[q.session].choice = t /\ sessions[q.session].next = Absent

Meant(q, t, owners, drawn) ==
    /\ q.kind # "history" => t \in q.seen
    /\ q.kind = "delete" => q.asked = t
    /\ q.kind = "history" =>
          /\ ~ q.running /\ q.row \in Row
          /\ t \in drawn /\ owners[t] \in {None, q.row.owner_id}

RequestsInv ==
    \A t \in Threads : \A i \in DOMAIN queue[t] :
       /\ Waits(queue[t][i], t, ui) /\ Meant(queue[t][i], t, owner, used)
       /\ queue[t][i].running => i = 1

\* A session waits for one request at a time; those of stopped runs have no session.
OneRequest ==
    \A t, tt \in Threads : \A i \in DOMAIN queue[t], j \in DOMAIN queue[tt] :
       queue[t][i].session = queue[tt][j].session /\ queue[t][i].session # None =>
          t = tt /\ i = j

ServerInv ==
    \A t \in Threads :
       /\ pending[t] # None => owner[t] # None
       /\ owner[t] # None => t \in used
       /\ decided[t] => /\ pending[t] # None /\ queue[t] # <<>>
                        /\ Holder(t).running /\ Holder(t).kind = "decision"

Inv == TypeOK /\ SessionsInv /\ RequestsInv /\ OneRequest /\ ServerInv

-----------------------------------------------------------------------------
(* Types of what the script draws *)

LEMMA Drawn ==
    /\ Blank \in Page /\ Stopped \in Page /\ NoClick \in Click
    /\ \A u \in Session :
          /\ Rerun(u) \in Session /\ Clicked(u) \in Session /\ ToNewChat(u) \in Session
          /\ \A page \in Page : Shows(u, page) \in Session /\ Draws(u, page) \in Session
<1>1. Blank \in Page /\ Stopped \in Page /\ NoClick \in Click
    BY DEF Blank, Stopped, NoClick, Page, Click, Kinds, Actions
<1>2. ASSUME NEW u \in Session PROVE Rerun(u) \in Session
    BY <1>1, <1>2 DEF Rerun, Session
<1>3. ASSUME NEW u \in Session PROVE Clicked(u) \in Session
    BY <1>2, <1>3 DEF Clicked, Session
<1>4. ASSUME NEW u \in Session PROVE ToNewChat(u) \in Session
    BY <1>3, <1>4 DEF ToNewChat, Session
<1>5. ASSUME NEW u \in Session, NEW page \in Page PROVE Shows(u, page) \in Session
    BY <1>1, <1>5 DEF Shows, Session
<1>6. ASSUME NEW u \in Session, NEW page \in Page PROVE Draws(u, page) \in Session
    BY <1>1, <1>6 DEF Draws, Session
<1> QED
    BY <1>1, <1>2, <1>3, <1>4, <1>5, <1>6

\* What a step of one session leaves alone in the others: they keep the chat
\* they have started, since an identifier is never drawn twice.
Grows(owners, drawn, owners2, drawn2) ==
    /\ drawn \subseteq drawn2
    /\ \A t \in drawn : owners2[t] \in {None, owners[t]}

LEMMA MadeKept ==
    ASSUME NEW u \in Session, NEW owners, NEW owners2, NEW drawn, NEW drawn2,
           Made(u, owners, drawn), Grows(owners, drawn, owners2, drawn2)
    PROVE  Made(u, owners2, drawn2)
BY NoneAssumption DEF Made, Grows, Session

LEMMA MeantKept ==
    ASSUME NEW q \in Request, NEW t, NEW owners, NEW owners2, NEW drawn, NEW drawn2,
           Meant(q, t, owners, drawn), Grows(owners, drawn, owners2, drawn2)
    PROVE  Meant(q, t, owners2, drawn2)
BY NoneAssumption DEF Meant, Grows
-----------------------------------------------------------------------------
(* Queues *)

QueuesType == queue \in [Threads -> Seq(Request)]

\* Where a request was before the one at i was taken out.
Before(i, j) == IF j < i THEN j ELSE j + 1

LEMMA TakingOut ==
    ASSUME NEW q \in Seq(Request), NEW i \in DOMAIN q
    PROVE  LET r == SubSeq(q, 1, i - 1) \o SubSeq(q, i + 1, Len(q)) IN
           /\ r \in Seq(Request)
           /\ Len(r) = Len(q) - 1
           /\ \A j \in DOMAIN r : Before(i, j) \in DOMAIN q /\ r[j] = q[Before(i, j)]
<1> DEFINE a == SubSeq(q, 1, i - 1)
           b == SubSeq(q, i + 1, Len(q))
<1>1. i \in 1 .. Len(q) /\ Len(q) \in Nat
    BY LenProperties
<1>2. \A j \in 1 .. Len(q) : q[j] \in Request
    BY ElementOfSeq
<1>3. /\ a \in Seq(Request) /\ Len(a) = i - 1
      /\ \A j \in 1 .. i - 1 : a[j] = q[j]
    <2>1. \A j \in 1 .. i - 1 : q[j] \in Request
        BY <1>1, <1>2
    <2>2. /\ SubSeq(q, 1, i - 1) \in Seq(Request)
          /\ Len(SubSeq(q, 1, i - 1)) = IF 1 <= i - 1 THEN (i - 1) - 1 + 1 ELSE 0
          /\ \A j \in 1 .. (i - 1) - 1 + 1 : SubSeq(q, 1, i - 1)[j] = q[1 + j - 1]
        BY <1>1, <2>1, SubSeqProperties
    <2> QED
        BY <1>1, <2>2
<1>4. /\ b \in Seq(Request) /\ Len(b) = Len(q) - i
      /\ \A j \in 1 .. Len(q) - i : b[j] = q[i + j]
    <2>1. \A j \in i + 1 .. Len(q) : q[j] \in Request
        BY <1>1, <1>2
    <2>2. /\ SubSeq(q, i + 1, Len(q)) \in Seq(Request)
          /\ Len(SubSeq(q, i + 1, Len(q))) =
                IF i + 1 <= Len(q) THEN Len(q) - (i + 1) + 1 ELSE 0
          /\ \A j \in 1 .. Len(q) - (i + 1) + 1 :
                SubSeq(q, i + 1, Len(q))[j] = q[(i + 1) + j - 1]
        BY <1>1, <2>1, SubSeqProperties
    <2> QED
        BY <1>1, <2>2
<1> HIDE DEF a, b
<1>5. /\ a \o b \in Seq(Request)
      /\ Len(a \o b) = Len(a) + Len(b)
      /\ \A j \in 1 .. Len(a) + Len(b) :
            (a \o b)[j] = IF j <= Len(a) THEN a[j] ELSE b[j - Len(a)]
    BY <1>3, <1>4, ConcatProperties
<1>6. DOMAIN (a \o b) = 1 .. Len(q) - 1 /\ Len(a \o b) = Len(q) - 1
    BY <1>1, <1>3, <1>4, <1>5, LenProperties
<1>7. ASSUME NEW j \in 1 .. Len(q) - 1
      PROVE  Before(i, j) \in DOMAIN q /\ (a \o b)[j] = q[Before(i, j)]
    <2>1. CASE j < i
        BY <1>1, <1>3, <1>4, <1>5, <2>1, LenProperties DEF Before
    <2>2. CASE ~ j < i
        <3>1. j - (i - 1) \in 1 .. Len(q) - i /\ i + (j - (i - 1)) = j + 1
            BY <1>1, <2>2
        <3>2. (a \o b)[j] = b[j - (i - 1)]
            <4>1. /\ Len(a) = i - 1 /\ j \in 1 .. Len(a) + Len(b)
                  /\ ~ (j <= Len(a))
                BY <1>1, <1>3, <1>4, <2>2
            <4> QED
                BY <1>5, <4>1
        <3>3. b[j - (i - 1)] = q[j + 1]
            BY <1>4, <3>1
        <3> QED
            BY <1>1, <2>2, <3>2, <3>3, LenProperties DEF Before
    <2> QED
        BY <2>1, <2>2
<1> QED
    BY <1>5, <1>6, <1>7 DEF a, b

LEMMA Removed ==
    ASSUME QueuesType, NEW t \in Threads, NEW i \in DOMAIN queue[t], queue' = Without(t, i)
    PROVE  /\ QueuesType'
           /\ \A tt \in Threads \ {t} : queue'[tt] = queue[tt]
           /\ Len(queue'[t]) = Len(queue[t]) - 1
           /\ \A j \in DOMAIN queue'[t] :
                 Before(i, j) \in DOMAIN queue[t] /\ queue'[t][j] = queue[t][Before(i, j)]
<1> DEFINE r == SubSeq(queue[t], 1, i - 1) \o SubSeq(queue[t], i + 1, Len(queue[t]))
<1>1. queue[t] \in Seq(Request)
    BY DEF QueuesType
<1>2. /\ r \in Seq(Request) /\ Len(r) = Len(queue[t]) - 1
      /\ \A j \in DOMAIN r : Before(i, j) \in DOMAIN queue[t] /\ r[j] = queue[t][Before(i, j)]
    BY <1>1, TakingOut
<1>3. queue' = [queue EXCEPT ![t] = r]
    BY DEF Without
<1> HIDE DEF r
<1> QED
    BY <1>2, <1>3 DEF QueuesType

\* The head is taken out.
LEMMA HeadRemoved ==
    ASSUME QueuesType, NEW t \in Threads, queue[t] # <<>>,
           queue' = [queue EXCEPT ![t] = Tail(@)]
    PROVE  1 \in DOMAIN queue[t] /\ queue' = Without(t, 1)
<1>1. queue[t] \in Seq(Request)
    BY DEF QueuesType
<1>2. Len(queue[t]) \in Nat \ {0} /\ DOMAIN queue[t] = 1 .. Len(queue[t])
    BY <1>1, EmptySeq, LenProperties
<1>3. SubSeq(queue[t], 1, 0) = <<>>
    BY SubSeqEmpty
<1>4. Tail(queue[t]) = SubSeq(queue[t], 2, Len(queue[t])) /\ Tail(queue[t]) \in Seq(Request)
    BY <1>1, TailIsSubSeq, HeadTailProperties
<1>5. SubSeq(queue[t], 1, 1 - 1) \o SubSeq(queue[t], 1 + 1, Len(queue[t])) = Tail(queue[t])
    BY <1>3, <1>4, ConcatEmptySeq
<1>6. queue' = [queue EXCEPT ![t] = Tail(queue[t])]
    OBVIOUS
<1>7. Without(t, 1) =
        [queue EXCEPT ![t] = SubSeq(queue[t], 1, 1 - 1) \o SubSeq(queue[t], 1 + 1, Len(queue[t]))]
    BY Zenon DEF Without
<1>8. 1 \in DOMAIN queue[t]
    BY <1>2
<1> QED
    BY <1>5, <1>6, <1>7, <1>8, Zenon

LEMMA Added ==
    ASSUME QueuesType, NEW t \in Threads, NEW q \in Request,
           queue' = [queue EXCEPT ![t] = Append(@, q)]
    PROVE  /\ QueuesType'
           /\ \A tt \in Threads \ {t} : queue'[tt] = queue[tt]
           /\ Len(queue[t]) \in Nat /\ DOMAIN queue[t] = 1 .. Len(queue[t])
           /\ DOMAIN queue'[t] = 1 .. Len(queue[t]) + 1
           /\ \A j \in DOMAIN queue[t] : queue'[t][j] = queue[t][j]
           /\ queue'[t][Len(queue[t]) + 1] = q
<1>1. queue[t] \in Seq(Request)
    BY DEF QueuesType
<1>2. queue'[t] = Append(queue[t], q)
    BY DEF QueuesType
<1>3. /\ Append(queue[t], q) \in Seq(Request)
      /\ Len(Append(queue[t], q)) = Len(queue[t]) + 1
      /\ \A j \in 1 .. Len(queue[t]) : Append(queue[t], q)[j] = queue[t][j]
      /\ Append(queue[t], q)[Len(queue[t]) + 1] = q
    BY <1>1, AppendProperties
<1> QED
    BY <1>1, <1>2, <1>3, LenProperties DEF QueuesType
-----------------------------------------------------------------------------
(* What the script does to the session *)

LEMMA Restarted ==
    ASSUME NEW u \in Session, NEW owners, NEW drawn, Good(u, owners, drawn)
    PROVE  Good(Rerun(u), owners, drawn)
<1> DEFINE x == Rerun(u)
<1>1. /\ x.pc = "lists" /\ x.page = u.page /\ x.click = NoClick /\ x.box = u.box
      /\ x.next = u.next /\ x.target = u.target /\ x.asked = u.asked
      /\ x.choice = u.choice /\ x.made = u.made /\ x.user = u.user
    BY DEF Rerun, Session
<1> HIDE DEF x
<1>2. Screen(x)
    BY <1>1 DEF Good, Screen, NoClick
<1>3. Target(x)
    BY <1>1 DEF Good, Target
<1>4. Made(x, owners, drawn)
    BY <1>1 DEF Good, Made
<1> QED
    BY <1>2, <1>3, <1>4 DEF Good, x

\* What a click leaves of the session, and what it does not touch.
LEMMA ClickedFields ==
    ASSUME NEW u \in Session
    PROVE  LET x == Clicked(u) IN
           /\ x.pc = "lists" /\ x.page = u.page /\ x.click = NoClick /\ x.box = u.box
           /\ x.next = u.next /\ x.target = u.target /\ x.asked = u.asked
           /\ x.choice = u.box /\ x.made = u.made /\ x.user = u.user
           /\ x.options = u.options
BY DEF Clicked, Rerun, Session

\* The user goes to another chat: the session forgets the one it has started.
LEMMA MovedOn ==
    ASSUME NEW u \in Session, NEW owners, NEW drawn, Good(u, owners, drawn), NEW x \in Session,
           x.pc = "lists", x.page = u.page, x.click = NoClick, x.made = None,
           x.next \in {Absent, u.next},
           \/ x.target = None
           \/ x.target = u.target /\ x.asked = u.asked
    PROVE  Good(x, owners, drawn)
<1>1. Screen(x)
    BY DEF Good, Screen, NoClick
<1>2. Target(x)
    BY DEF Good, Target
<1>3. Made(x, owners, drawn)
    BY DEF Made
<1> QED
    BY <1>1, <1>2, <1>3 DEF Good

\* A click on the page; the chat it will be taken for is the one selected by then.
LEMMA Pressed ==
    ASSUME NEW u \in Session, NEW owners, NEW drawn, Good(u, owners, drawn),
           NEW kind \in Kinds, Offered(u, kind), NEW c,
           c = IF kind = "none" THEN NoClick
               ELSE [kind |-> kind, seen |-> {u.page.thread, u.box},
                     shown |-> IF kind = "decision" THEN u.page.actions ELSE {}]
    PROVE  /\ [Clicked(u) EXCEPT !.click = c] \in Session
           /\ Good([Clicked(u) EXCEPT !.click = c], owners, drawn)
<1> DEFINE x == [Clicked(u) EXCEPT !.click = c]
<1>1. c \in Click
    <2>1. /\ u.page.thread \in Threads \union {None} /\ u.box \in Threads \union {None}
          /\ u.page.actions \in Actions /\ {} \in Actions
        BY DEF Session, Page, Actions
    <2> QED
        BY <2>1, Drawn DEF Click
<1> DEFINE y == Clicked(u)
<1>2. /\ y.pc = "lists" /\ y.page = u.page /\ y.box = u.box
      /\ y.next = u.next /\ y.target = u.target /\ y.asked = u.asked
      /\ y.choice = u.box /\ y.made = u.made /\ y.user = u.user
      /\ y \in Session
    BY Drawn, ClickedFields
<1> HIDE DEF y
<1>3. \A k \in Click :
         LET z == [y EXCEPT !.click = k] IN
         /\ z.pc = y.pc /\ z.page = y.page /\ z.click = k /\ z.box = y.box
         /\ z.next = y.next /\ z.target = y.target /\ z.asked = y.asked
         /\ z.choice = y.choice /\ z.made = y.made /\ z.user = y.user
         /\ z \in Session
    <2> SUFFICES ASSUME NEW k \in Click, NEW z, z = [y EXCEPT !.click = k]
                 PROVE  /\ z.pc = y.pc /\ z.page = y.page /\ z.click = k /\ z.box = y.box
                        /\ z.next = y.next /\ z.target = y.target /\ z.asked = y.asked
                        /\ z.choice = y.choice /\ z.made = y.made /\ z.user = y.user
                        /\ z \in Session
        OBVIOUS
    <2> QED
        BY <1>2 DEF Session
<1>4. /\ x.pc = "lists" /\ x.page = u.page /\ x.click = c /\ x.box = u.box
      /\ x.next = u.next /\ x.target = u.target /\ x.asked = u.asked
      /\ x.choice = u.box /\ x.made = u.made /\ x.user = u.user
      /\ x \in Session
    BY <1>1, <1>2, <1>3 DEF y
<1>5. c.kind # "none" => u.page # Stopped /\ c.seen = {u.page.thread, u.box}
    BY DEF Offered, Stopped, Blank, NoClick, Kinds
<1> HIDE DEF x
<1>6. Screen(x)
    BY <1>4, <1>5 DEF Good, Screen
<1>7. Target(x)
    BY <1>4 DEF Good, Target
<1>8. Made(x, owners, drawn)
    BY <1>4 DEF Good, Made
<1> QED
    BY <1>4, <1>6, <1>7, <1>8 DEF Good, x

\* The page stops on an error.
LEMMA StoppedShort ==
    ASSUME NEW u \in Session, NEW owners, NEW drawn, Good(u, owners, drawn),
           NEW x \in Session, NEW options,
           x = [Shows(u, Stopped) EXCEPT !.options = options]
    PROVE  Good(x, owners, drawn)
<1>1. /\ x.pc = "page" /\ x.page = Stopped /\ x.click = NoClick /\ x.box = u.choice
      /\ x.next = u.next /\ x.target = u.target /\ x.asked = u.asked
      /\ x.choice = u.choice /\ x.made = u.made /\ x.user = u.user
    BY DEF Shows, Session
<1>2. Stopped.actions = {}
    BY DEF Stopped, Blank
<1>3. Screen(x)
    BY <1>1, <1>2 DEF Screen, NoClick
<1>4. Target(x)
    BY <1>1 DEF Good, Target
<1>5. Made(x, owners, drawn)
    BY <1>1 DEF Good, Made
<1> QED
    BY <1>3, <1>4, <1>5 DEF Good

\* A page is drawn for the chat that is selected.
LEMMA DrawnFor ==
    ASSUME NEW u \in Session, NEW owners, NEW drawn, NEW page \in Page,
           u.next = Absent, u.box = u.choice, u.choice = page.thread,
           page.thread = None => page.actions = {},
           u.click.kind # "none" => u.choice \in {None} \union u.click.seen,
           u.target \in {None, u.asked}, u.target \in {None, u.choice},
           Made(u, owners, drawn)
    PROVE  /\ Draws(u, page) \in Session /\ Draws(u, page).pc = "act"
           /\ Draws(u, page).page = page
           /\ Good(Draws(u, page), owners, drawn)
<1> DEFINE x == Draws(u, page)
<1> DEFINE asked == IF page.thread = u.asked THEN u.asked ELSE None
<1>1. x = [u EXCEPT !.pc = "act", !.page = page, !.asked = asked]
    BY DEF Draws
<1>2. x \in Session
    BY Drawn
<1> HIDE DEF x, asked
<1>3. /\ x.pc = "act" /\ x.page = page /\ x.click = u.click /\ x.box = u.box
      /\ x.next = u.next /\ x.target = u.target
      /\ x.asked = asked
      /\ x.choice = u.choice /\ x.made = u.made /\ x.user = u.user
    BY <1>1 DEF Session
<1>4. Screen(x)
    BY <1>3 DEF Screen
<1>5. Target(x)
    BY <1>3 DEF Target, asked
<1>6. Made(x, owners, drawn)
    BY <1>3 DEF Made
<1> QED
    BY <1>3, <1>4, <1>5, <1>6, <1>2 DEF Good, x

\* The lists have arrived: the chat selected is settled.  The chat that the
\* session has started is among those of its user as long as it exists.
LEMMA Settled ==
    ASSUME NEW u \in Session, NEW owners, NEW drawn, Good(u, owners, drawn),
           u.pc \in {"lists", "approvals"}, NEW options \in SUBSET Threads,
           u.made # None /\ owners[u.made] # None => u.made \in options
    PROVE  /\ WithOptions(u, options) \in Session
           /\ WithOptions(u, options).pc \in {"row", "act"}
           /\ Good(WithOptions(u, options), owners, drawn)
<1> DEFINE wanted == IF u.next = Absent THEN u.choice ELSE u.next
           thread == StillOffered(wanted, options)
           x == [u EXCEPT !.options = options, !.saved = {}, !.next = Absent,
                          !.choice = thread, !.box = thread,
                          !.target = TargetOf(u.target, thread), !.pc = "row"]
<1>1. thread \in {None, wanted} /\ (thread # None => thread \in options)
    BY DEF StillOffered
<1>2. WithOptions(u, options) = IF thread = None THEN Draws(x, Blank) ELSE x
    BY DEF WithOptions
<1>3. /\ thread \in Threads \union {None}
      /\ TargetOf(u.target, thread) \in {None, thread}
      /\ TargetOf(u.target, thread) \in {None, u.target}
    BY <1>1 DEF TargetOf, StillOffered
<1>4. u.click.kind # "none" => wanted \in {None} \union u.click.seen
    BY DEF Good, Screen
<1>5. u.made # None /\ owners[u.made] # None => wanted = u.made
    BY NoneAssumption DEF Good, Made, Session
<1>6. u.made # None /\ owners[u.made] # None => thread = u.made
    BY <1>5 DEF StillOffered
<1> HIDE DEF thread, x
<1>7. /\ x.pc = "row" /\ x.page = u.page /\ x.click = u.click /\ x.box = thread
      /\ x.next = Absent /\ x.target = TargetOf(u.target, thread) /\ x.asked = u.asked
      /\ x.choice = thread /\ x.made = u.made /\ x.user = u.user
      /\ x \in Session
    BY <1>3 DEF Session, x
<1> HIDE DEF wanted
<1>8. Made(x, owners, drawn)
    BY <1>6, <1>7 DEF Good, Made
<1>9. x.target \in {None, x.asked} /\ x.target \in {None, x.choice}
    BY <1>3, <1>7 DEF Good, Target
<1>10. x.click.kind # "none" => x.choice \in {None} \union x.click.seen
    BY <1>1, <1>4, <1>7
<1>11. CASE thread = None
    <2>1. Blank \in Page /\ Blank.thread = None /\ Blank.actions = {}
        BY Drawn DEF Blank
    <2>2. /\ Draws(x, Blank) \in Session /\ Draws(x, Blank).pc = "act"
          /\ Good(Draws(x, Blank), owners, drawn)
        BY <1>7, <1>8, <1>9, <1>10, <1>11, <2>1, DrawnFor
    <2> QED
        BY <1>2, <1>11, <2>2
<1>12. CASE thread # None
    <2>1. Screen(x)
        BY <1>7, <1>10, <1>12 DEF Good, Screen
    <2>2. Target(x)
        BY <1>7, <1>9 DEF Target
    <2> QED
        BY <1>2, <1>7, <1>8, <1>12, <2>1, <2>2 DEF Good
<1> QED
    BY <1>11, <1>12

\* A chat or "new conversation" is drawn and the script ends.
LEMMA ShownAsDrawn ==
    ASSUME NEW u \in Session, NEW owners, NEW drawn, Good(u, owners, drawn), u.pc = "act",
           NEW x \in Session, NEW target, NEW asked,
           x = [Shows(u, u.page) EXCEPT !.target = target, !.asked = asked],
           \/ target = u.target /\ asked = u.asked
           \/ target = u.page.thread /\ asked = u.page.thread
    PROVE  Good(x, owners, drawn)
<1>1. /\ x.pc = "page" /\ x.page = u.page /\ x.click = NoClick /\ x.box = u.choice
      /\ x.next = u.next /\ x.target = target /\ x.asked = asked
      /\ x.choice = u.choice /\ x.made = u.made /\ x.user = u.user
    BY DEF Shows, Session
<1>2. Screen(x)
    BY <1>1 DEF Good, Screen, NoClick
<1>3. Target(x)
    BY <1>1 DEF Good, Target
<1>4. Made(x, owners, drawn)
    BY <1>1 DEF Good, Made
<1> QED
    BY <1>2, <1>3, <1>4 DEF Good

\* The script goes on without changing what it has settled.
LEMMA WentOn ==
    ASSUME NEW u \in Session, NEW owners, NEW drawn, Good(u, owners, drawn),
           NEW pc \in {"history", "creating", "waiting"},
           \/ u.pc = "row" /\ pc = "history"
           \/ u.pc = "act" /\ u.choice = None /\ pc = "creating"
           \/ pc = "waiting"
    PROVE  /\ [u EXCEPT !.pc = pc] \in Session
           /\ Good([u EXCEPT !.pc = pc], owners, drawn)
<1> DEFINE x == [u EXCEPT !.pc = pc]
<1>1. /\ x.pc = pc /\ x.page = u.page /\ x.click = u.click /\ x.box = u.box
      /\ x.next = u.next /\ x.target = u.target /\ x.asked = u.asked
      /\ x.choice = u.choice /\ x.made = u.made /\ x.user = u.user
      /\ x \in Session
    BY DEF Session
<1> HIDE DEF x
<1>2. Screen(x)
    BY <1>1 DEF Good, Screen
<1>3. Target(x)
    BY <1>1 DEF Good, Target
<1>4. Made(x, owners, drawn)
    BY <1>1 DEF Good, Made
<1> QED
    BY <1>1, <1>2, <1>3, <1>4 DEF Good, x
-----------------------------------------------------------------------------
(* Frames: what a step has to show *)

ServerType ==
    /\ owner \in [Threads -> Users \union {None}]
    /\ pending \in [Threads -> Actions \union {None}]
    /\ decided \in [Threads -> BOOLEAN]
    /\ used \subseteq Threads
    /\ meta \in [Threads -> [status : {"completed", "approval_required"},
                             reviewer_id : Users \union {None}]]

UiType == ui \in [Sessions -> Session]

CountersType == timeouts \in 0 .. MaxTimeouts /\ interruptions \in 0 .. MaxInterruptions

LEMMA Types == TypeOK <=> ServerType /\ QueuesType /\ UiType /\ CountersType
BY DEF TypeOK, ServerType, QueuesType, UiType, CountersType

\* A session goes from one good state to another, while no thread is given
\* to somebody else.
LEMMA SessionMoves ==
    ASSUME UiType, SessionsInv, NEW s \in Sessions, NEW x \in Session, Becomes(s, x),
           Good(x, owner', used'), Grows(owner, used, owner', used')
    PROVE  UiType' /\ SessionsInv'
<1>1. UiType'
    BY DEF UiType, Becomes
<1>2. ASSUME NEW ss \in Sessions PROVE Good(ui'[ss], owner', used')
    <2>1. CASE ss = s
        BY <2>1 DEF UiType, Becomes
    <2>2. CASE ss # s
        <3>1. ui'[ss] = ui[ss] /\ ui[ss] \in Session
            BY <2>2 DEF UiType, Becomes
        <3>2. Made(ui[ss], owner', used')
            BY <3>1, MadeKept DEF SessionsInv, Good
        <3> QED
            BY <3>1, <3>2 DEF SessionsInv, Good
    <2> QED
        BY <2>1, <2>2
<1> QED
    BY <1>1, <1>2 DEF SessionsInv

LEMMA SessionsStay ==
    ASSUME UiType, SessionsInv, UNCHANGED ui, Grows(owner, used, owner', used')
    PROVE  UiType' /\ SessionsInv'
BY MadeKept DEF UiType, SessionsInv, Good

\* Nobody waits for a session that is not waiting: its requests are none.
LEMMA RequestsStay ==
    ASSUME QueuesType, RequestsInv, OneRequest, UNCHANGED queue, NEW s \in Sessions, NEW x,
           ui[s].pc \notin {"history", "waiting"}, UiType, Becomes(s, x),
           Grows(owner, used, owner', used')
    PROVE  QueuesType' /\ RequestsInv' /\ OneRequest'
<1>1. QueuesType' /\ OneRequest'
    BY DEF QueuesType, OneRequest
<1>2. ASSUME NEW t \in Threads, NEW i \in DOMAIN queue[t]
      PROVE  /\ Waits(queue[t][i], t, ui') /\ Meant(queue[t][i], t, owner', used')
             /\ queue[t][i].running => i = 1
    <2>1. queue[t][i] \in Request
        BY ElementOfSeq, LenProperties DEF QueuesType
    <2>2. Waits(queue[t][i], t, ui) /\ Meant(queue[t][i], t, owner, used)
          /\ (queue[t][i].running => i = 1)
        BY DEF RequestsInv
    <2>3. queue[t][i].session # s
        BY <2>2, NoneAssumption DEF Waits
    <2>4. queue[t][i].session # None => ui'[queue[t][i].session] = ui[queue[t][i].session]
        BY <2>1, <2>3 DEF Becomes, UiType, Request
    <2>5. Waits(queue[t][i], t, ui')
        BY <2>2, <2>4 DEF Waits
    <2> QED
        BY <2>1, <2>2, <2>5, MeantKept
<1> QED
    BY <1>1, <1>2 DEF RequestsInv

\* No decision is taken, and what is stored stays in order.
ServerKept ==
    /\ decided' = decided
    /\ \A t \in Threads : /\ decided[t] => pending'[t] # None
                          /\ pending'[t] # None => owner'[t] # None
                          /\ owner'[t] # None => t \in used'

LEMMA ServerStays ==
    ASSUME ServerType, ServerInv, UNCHANGED server, UNCHANGED queue
    PROVE  ServerType' /\ ServerInv' /\ Grows(owner, used, owner', used')
BY DEF ServerType, ServerInv, server, talk, Grows, Holder

LEMMA ServerSame ==
    ASSUME ServerType, ServerInv, UNCHANGED server
    PROVE  ServerType' /\ ServerKept /\ Grows(owner, used, owner', used')
BY DEF ServerType, ServerInv, server, talk, Grows, ServerKept

LEMMA Creation ==
    ASSUME ServerType, ServerInv, NEW u \in Users, NEW t \in Threads, Creates(u, t)
    PROVE  /\ ServerType' /\ Grows(owner, used, owner', used') /\ ServerKept
           /\ t \in used' /\ owner'[t] = u
<1> USE DEF Creates, L!Open
<1>1. ServerType'
    BY DEF ServerType
<1>2. ServerKept
    BY NoneAssumption DEF ServerType, ServerInv, ServerKept
<1>3. Grows(owner, used, owner', used')
    BY DEF ServerType, Grows
<1> QED
    BY <1>1, <1>2, <1>3 DEF ServerType

\* A request of another session keeps being waited for.
LEMMA OthersWait ==
    ASSUME UiType, NEW q \in Request, NEW t, Waits(q, t, ui), NEW s \in Sessions, NEW x,
           q.session # s, Becomes(s, x)
    PROVE  Waits(q, t, ui')
BY DEF Becomes, UiType, Request, Waits

\* A session that waits for nothing sends a request.
LEMMA Sent ==
    ASSUME QueuesType, UiType, RequestsInv, OneRequest, ServerType, ServerInv,
           NEW s \in Sessions, NEW x, ui[s].pc \notin {"history", "waiting"}, Becomes(s, x),
           NEW t \in Threads, NEW q \in Request, q.session = s, ~ q.running,
           queue' = [queue EXCEPT ![t] = Append(@, q)],
           Waits(q, t, ui'), Meant(q, t, owner, used), UNCHANGED server
    PROVE  QueuesType' /\ RequestsInv' /\ OneRequest' /\ ServerType' /\ ServerInv'
<1> DEFINE n == Len(queue[t]) + 1
<1>1. /\ QueuesType'
      /\ \A tt \in Threads \ {t} : queue'[tt] = queue[tt]
      /\ n \in Nat \ {0} /\ DOMAIN queue[t] = 1 .. n - 1 /\ DOMAIN queue'[t] = 1 .. n
      /\ \A j \in DOMAIN queue[t] : queue'[t][j] = queue[t][j]
      /\ queue'[t][n] = q
    <2>1. /\ QueuesType'
          /\ \A tt \in Threads \ {t} : queue'[tt] = queue[tt]
          /\ Len(queue[t]) \in Nat /\ DOMAIN queue[t] = 1 .. Len(queue[t])
          /\ DOMAIN queue'[t] = 1 .. Len(queue[t]) + 1
          /\ \A j \in DOMAIN queue[t] : queue'[t][j] = queue[t][j]
          /\ queue'[t][Len(queue[t]) + 1] = q
        BY Added
    <2>2. n \in Nat \ {0} /\ n - 1 = Len(queue[t])
        BY <2>1
    <2> QED
        BY <2>1, <2>2
<1> HIDE DEF n
<1>2. \A tt \in Threads : \A i \in DOMAIN queue'[tt] :
         \/ tt = t /\ i = n /\ queue'[tt][i] = q
         \/ i \in DOMAIN queue[tt] /\ queue'[tt][i] = queue[tt][i]
    BY <1>1
<1>3. ASSUME NEW tt \in Threads, NEW i \in DOMAIN queue[tt]
      PROVE  queue[tt][i] \in Request /\ queue[tt][i].session # s
    <2>1. queue[tt][i] \in Request
        BY ElementOfSeq, LenProperties DEF QueuesType
    <2>2. Waits(queue[tt][i], tt, ui)
        BY DEF RequestsInv
    <2> QED
        BY <2>1, <2>2, NoneAssumption DEF Waits
<1>4. RequestsInv'
    <2> SUFFICES ASSUME NEW tt \in Threads, NEW i \in DOMAIN queue'[tt]
                 PROVE  /\ Waits(queue'[tt][i], tt, ui') /\ Meant(queue'[tt][i], tt, owner', used')
                        /\ queue'[tt][i].running => i = 1
        BY DEF RequestsInv
    <2>1. CASE queue'[tt][i] = q /\ tt = t
        BY <2>1 DEF server, talk
    <2>2. CASE i \in DOMAIN queue[tt] /\ queue'[tt][i] = queue[tt][i]
        <3>1. /\ Waits(queue[tt][i], tt, ui) /\ Meant(queue[tt][i], tt, owner, used)
              /\ queue[tt][i].running => i = 1
            BY <2>2 DEF RequestsInv
        <3>2. Waits(queue[tt][i], tt, ui')
            BY <1>3, <2>2, <3>1, OthersWait
        <3> QED
            BY <2>2, <3>1, <3>2 DEF server, talk
    <2> QED
        BY <1>2, <2>1, <2>2
<1>5. OneRequest'
    <2> SUFFICES ASSUME NEW t1 \in Threads, NEW t2 \in Threads,
                        NEW i \in DOMAIN queue'[t1], NEW j \in DOMAIN queue'[t2],
                        queue'[t1][i].session = queue'[t2][j].session,
                        queue'[t1][i].session # None
                 PROVE  t1 = t2 /\ i = j
        BY DEF OneRequest
    <2> QED
        BY <1>2, <1>3 DEF OneRequest
<1>6. ServerType' /\ UNCHANGED <<owner, pending, decided, used>>
    BY DEF ServerType, server, talk
<1>7. ASSUME NEW tt \in Threads, decided[tt]
      PROVE  queue'[tt] # <<>> /\ queue'[tt][1].running /\ queue'[tt][1].kind = "decision"
    <2>1. queue[tt] # <<>> /\ queue[tt][1].running /\ queue[tt][1].kind = "decision"
        BY <1>7 DEF ServerInv, Holder
    <2>2. 1 \in DOMAIN queue[tt]
        BY <2>1, EmptySeq, LenProperties DEF QueuesType
    <2>3. queue'[tt][1] = queue[tt][1] /\ 1 \in DOMAIN queue'[tt]
        BY <1>1, <2>2
    <2> QED
        BY <1>1, <2>1, <2>3, EmptySeq, LenProperties DEF QueuesType
<1>8. ServerInv'
    BY <1>6, <1>7 DEF ServerInv, Holder
<1> QED
    BY <1>1, <1>4, <1>5, <1>6, <1>8

\* Somebody gets an answer, or a request is lost on its way.
LEMMA Gone ==
    ASSUME QueuesType, UiType, RequestsInv, OneRequest,
           NEW t \in Threads, NEW i \in DOMAIN queue[t], queue' = Without(t, i),
           Grows(owner, used, owner', used'),
           \/ queue[t][i].session = None /\ UNCHANGED ui
           \/ queue[t][i].session # None /\ \E x : Becomes(queue[t][i].session, x)
    PROVE  QueuesType' /\ RequestsInv' /\ OneRequest'
<1> DEFINE s == queue[t][i].session
           Was(tt, j) == IF tt = t THEN Before(i, j) ELSE j
<1>1. /\ QueuesType'
      /\ \A tt \in Threads \ {t} : queue'[tt] = queue[tt]
      /\ \A j \in DOMAIN queue'[t] :
            Before(i, j) \in DOMAIN queue[t] /\ queue'[t][j] = queue[t][Before(i, j)]
    BY Removed
<1>2. /\ \A tt \in Threads : DOMAIN queue[tt] \subseteq Nat \ {0}
      /\ \A tt \in Threads : DOMAIN queue'[tt] \subseteq Nat \ {0}
    BY <1>1, LenProperties DEF QueuesType
<1>3. ASSUME NEW tt \in Threads, NEW j \in DOMAIN queue'[tt]
      PROVE  /\ Was(tt, j) \in DOMAIN queue[tt] /\ queue'[tt][j] = queue[tt][Was(tt, j)]
             /\ ~ (tt = t /\ Was(tt, j) = i)
             /\ Was(tt, j) = 1 => j = 1
    BY <1>1, <1>2 DEF Before
<1>4. ASSUME NEW tt \in Threads, NEW j \in DOMAIN queue'[tt], NEW k \in DOMAIN queue'[tt],
             Was(tt, j) = Was(tt, k)
      PROVE  j = k
    BY <1>2, <1>4 DEF Before
<1> HIDE DEF Was
<1>5. ASSUME NEW tt \in Threads, NEW j \in DOMAIN queue'[tt]
      PROVE  /\ queue'[tt][j] \in Request
             /\ queue'[tt][j].session = s => s = None
    <2>1. queue'[tt][j] \in Request
        BY <1>1, ElementOfSeq, LenProperties DEF QueuesType
    <2> QED
        BY <1>3, <2>1 DEF OneRequest
<1>6. s \in Sessions \union {None}
    <2>1. queue[t][i] \in Request
        BY ElementOfSeq, LenProperties DEF QueuesType
    <2> QED
        BY <2>1 DEF Request
<1>7. RequestsInv'
    <2> SUFFICES ASSUME NEW tt \in Threads, NEW j \in DOMAIN queue'[tt]
                 PROVE  /\ Waits(queue'[tt][j], tt, ui') /\ Meant(queue'[tt][j], tt, owner', used')
                        /\ queue'[tt][j].running => j = 1
        BY DEF RequestsInv
    <2>1. /\ Waits(queue'[tt][j], tt, ui) /\ Meant(queue'[tt][j], tt, owner, used)
          /\ queue'[tt][j].running => j = 1
        BY <1>3 DEF RequestsInv
    <2>2. Meant(queue'[tt][j], tt, owner', used')
        BY <1>5, <2>1, MeantKept
    <2>3. CASE UNCHANGED ui
        BY <2>1, <2>2, <2>3
    <2>4. CASE s # None /\ \E x : Becomes(s, x)
        BY <1>5, <1>6, <2>1, <2>2, <2>4, OthersWait
    <2> QED
        BY <2>3, <2>4
<1>8. OneRequest'
    <2> SUFFICES ASSUME NEW t1 \in Threads, NEW t2 \in Threads,
                        NEW j \in DOMAIN queue'[t1], NEW k \in DOMAIN queue'[t2],
                        queue'[t1][j].session = queue'[t2][k].session,
                        queue'[t1][j].session # None
                 PROVE  t1 = t2 /\ j = k
        BY DEF OneRequest
    <2>1. t1 = t2 /\ Was(t1, j) = Was(t2, k)
        BY <1>3 DEF OneRequest
    <2> QED
        BY <1>4, <2>1
<1> QED
    BY <1>1, <1>7, <1>8

\* A decision is carried out by the request that holds the lock.
LEMMA DecisionsHold ==
    ASSUME QueuesType, ServerInv,
           NEW t \in Threads, NEW i \in DOMAIN queue[t], queue' = Without(t, i),
           \A tt \in Threads : decided'[tt] => decided[tt],
           i = 1 => ~ decided'[t],
           \A tt \in Threads : /\ decided'[tt] => pending'[tt] # None
                               /\ pending'[tt] # None => owner'[tt] # None
                               /\ owner'[tt] # None => tt \in used'
    PROVE  ServerInv'
<1>1. /\ QueuesType'
      /\ \A tt \in Threads \ {t} : queue'[tt] = queue[tt]
      /\ Len(queue'[t]) = Len(queue[t]) - 1
      /\ \A j \in DOMAIN queue'[t] : queue'[t][j] = queue[t][Before(i, j)]
    BY Removed
<1>2. ASSUME NEW tt \in Threads, decided'[tt]
      PROVE  queue'[tt] # <<>> /\ queue'[tt][1].running /\ queue'[tt][1].kind = "decision"
    <2>1. queue[tt] # <<>> /\ queue[tt][1].running /\ queue[tt][1].kind = "decision"
        BY <1>2 DEF ServerInv, Holder
    <2>2. CASE tt # t
        BY <1>1, <2>1, <2>2
    <2>3. CASE tt = t
        <3>1. /\ Len(queue[t]) \in Nat /\ i \in 2 .. Len(queue[t])
              /\ queue'[t] \in Seq(Request)
            BY <1>1, <1>2, <2>3, LenProperties DEF QueuesType
        <3>2. 1 \in DOMAIN queue'[t] /\ queue'[t] # <<>>
            BY <1>1, <3>1, EmptySeq, LenProperties
        <3>3. Before(i, 1) = 1
            BY <3>1 DEF Before
        <3> QED
            BY <1>1, <2>1, <2>3, <3>2, <3>3
    <2> QED
        BY <2>2, <2>3
<1> QED
    BY <1>2 DEF ServerInv, Holder

\* Nobody waits for the requests of s any more.
LEMMA LeftAlone ==
    ASSUME QueuesType, UiType, RequestsInv, OneRequest, ServerInv, ServerKept,
           Grows(owner, used, owner', used'),
           NEW s \in Sessions, NEW x, Becomes(s, x), queue' = Abandoned(s)
    PROVE  QueuesType' /\ RequestsInv' /\ OneRequest' /\ ServerInv'
<1> DEFINE Left(q) == IF q.session = s THEN [q EXCEPT !.session = None] ELSE q
<1>1. ASSUME NEW t \in Threads
      PROVE  /\ queue'[t] \in Seq(Request) /\ Len(queue'[t]) = Len(queue[t])
             /\ DOMAIN queue'[t] = DOMAIN queue[t]
             /\ \A i \in DOMAIN queue[t] : queue'[t][i] = Left(queue[t][i])
    <2>1. queue[t] \in Seq(Request) /\ Len(queue[t]) \in Nat
          /\ DOMAIN queue[t] = 1 .. Len(queue[t])
        BY LenProperties DEF QueuesType
    <2>2. \A i \in 1 .. Len(queue[t]) : queue[t][i] \in Request
        BY <2>1, ElementOfSeq
    <2>3. queue'[t] = [i \in 1 .. Len(queue[t]) |-> Left(queue[t][i])]
        BY <2>1 DEF Abandoned
    <2>4. \A i \in 1 .. Len(queue[t]) : Left(queue[t][i]) \in Request
        BY <2>2 DEF Request
    <2>5. queue'[t] \in [1 .. Len(queue[t]) -> Request]
        BY <2>3, <2>4
    <2>6. queue'[t] \in Seq(Request)
        BY <2>1, <2>5, SeqDef
    <2> QED
        BY <2>1, <2>3, <2>6, LenProperties
<1>2. ASSUME NEW t \in Threads, NEW i \in DOMAIN queue[t]
      PROVE  queue[t][i] \in Request
    BY ElementOfSeq, LenProperties DEF QueuesType
<1>3. ASSUME NEW q \in Request
      PROVE  /\ Left(q).session = (IF q.session = s THEN None ELSE q.session)
             /\ Left(q).kind = q.kind /\ Left(q).running = q.running /\ Left(q).seen = q.seen
             /\ Left(q).asked = q.asked /\ Left(q).row = q.row /\ Left(q).user = q.user
    BY <1>3 DEF Request
<1> HIDE DEF Left
<1>4. QueuesType'
    <2>1. queue' = [t \in Threads |-> queue'[t]]
        BY DEF Abandoned
    <2> QED
        BY <1>1, <2>1 DEF QueuesType
<1>5. RequestsInv'
    <2> SUFFICES ASSUME NEW t \in Threads, NEW i \in DOMAIN queue[t]
                 PROVE  /\ Waits(Left(queue[t][i]), t, ui')
                        /\ Meant(Left(queue[t][i]), t, owner', used')
                        /\ Left(queue[t][i]).running => i = 1
        BY <1>1 DEF RequestsInv
    <2> DEFINE q == queue[t][i]
    <2>1. q \in Request /\ Waits(q, t, ui) /\ Meant(q, t, owner, used) /\ (q.running => i = 1)
        BY <1>2 DEF RequestsInv
    <2> HIDE DEF q
    <2>2. Meant(q, t, owner', used')
        BY <2>1, MeantKept
    <2>3. Meant(Left(q), t, owner', used')
        BY <1>3, <2>1, <2>2 DEF Meant
    <2>4. Waits(Left(q), t, ui')
        <3>1. CASE q.session = s
            BY <1>3, <2>1, <3>1 DEF Waits
        <3>2. CASE q.session # s
            <4>1. Waits(q, t, ui')
                BY <2>1, <3>2, OthersWait
            <4> QED
                BY <1>3, <2>1, <3>2, <4>1 DEF Waits
        <3> QED
            BY <3>1, <3>2
    <2> QED
        BY <1>3, <2>1, <2>3, <2>4 DEF q
<1>6. OneRequest'
    <2> SUFFICES ASSUME NEW t1 \in Threads, NEW t2 \in Threads,
                        NEW j \in DOMAIN queue[t1], NEW k \in DOMAIN queue[t2],
                        Left(queue[t1][j]).session = Left(queue[t2][k]).session,
                        Left(queue[t1][j]).session # None
                 PROVE  t1 = t2 /\ j = k
        BY <1>1 DEF OneRequest
    <2> QED
        BY <1>2, <1>3 DEF OneRequest
<1>7. ServerInv'
    <2>1. ASSUME NEW t \in Threads, decided[t]
          PROVE  queue'[t] # <<>> /\ queue'[t][1].running /\ queue'[t][1].kind = "decision"
        <3>1. queue[t] # <<>> /\ queue[t][1].running /\ queue[t][1].kind = "decision"
            BY <2>1 DEF ServerInv, Holder
        <3>2. 1 \in DOMAIN queue[t]
            BY <3>1, EmptySeq, LenProperties DEF QueuesType
        <3>3. queue'[t][1] = Left(queue[t][1]) /\ 1 \in DOMAIN queue'[t]
            BY <1>1, <3>2
        <3>4. queue'[t] # <<>>
            BY <1>1, <3>3, EmptySeq, LenProperties
        <3> QED
            BY <1>2, <1>3, <3>1, <3>2, <3>3, <3>4
    <2> QED
        BY <2>1 DEF ServerInv, ServerKept, Holder
<1> QED
    BY <1>4, <1>5, <1>6, <1>7

\* The request that holds the lock starts to run.
LEMMA Started ==
    ASSUME QueuesType, UiType, RequestsInv, OneRequest, UNCHANGED ui,
           NEW t \in Threads, queue[t] # <<>>, Holder(t).kind # "history",
           queue' = [queue EXCEPT ![t][1].running = TRUE],
           Grows(owner, used, owner', used')
    PROVE  /\ QueuesType' /\ RequestsInv' /\ OneRequest'
           /\ \A tt \in Threads \ {t} : queue'[tt] = queue[tt]
           /\ queue'[t] # <<>> /\ Holder(t)'.running /\ Holder(t)'.kind = Holder(t).kind
<1> DEFINE Runs(tt, i) == IF tt = t /\ i = 1 THEN [queue[tt][i] EXCEPT !.running = TRUE]
                          ELSE queue[tt][i]
<1>1. queue[t] \in Seq(Request) /\ 1 \in DOMAIN queue[t]
    BY EmptySeq, LenProperties DEF QueuesType
<1>2. ASSUME NEW tt \in Threads, NEW i \in DOMAIN queue[tt]
      PROVE  queue[tt][i] \in Request
    BY ElementOfSeq, LenProperties DEF QueuesType
<1>3. queue'[t] = [queue[t] EXCEPT ![1] = [queue[t][1] EXCEPT !.running = TRUE]]
    BY DEF QueuesType
<1>4. queue'[t] \in Seq(Request)
    <2>1. \A q \in Request : [q EXCEPT !.running = TRUE] \in Request
        BY DEF Request
    <2> DEFINE e == [queue[t][1] EXCEPT !.running = TRUE]
    <2>2. e \in Request
        BY <1>1, <1>2, <2>1
    <2>3. 1 \in 1 .. Len(queue[t])
        BY <1>1, LenProperties
    <2>4. queue'[t] = [queue[t] EXCEPT ![1] = e]
        BY <1>3
    <2> HIDE DEF e
    <2>5. [queue[t] EXCEPT ![1] = e] \in Seq(Request)
        BY <1>1, <2>2, <2>3, ExceptSeq
    <2> QED
        BY <2>4, <2>5
<1>5. ASSUME NEW tt \in Threads
      PROVE  /\ DOMAIN queue'[tt] = DOMAIN queue[tt]
             /\ \A i \in DOMAIN queue[tt] : queue'[tt][i] = Runs(tt, i)
    BY <1>1, <1>3 DEF QueuesType
<1>6. \A tt \in Threads \ {t} : queue'[tt] = queue[tt]
    BY DEF QueuesType
<1>7. ASSUME NEW tt \in Threads, NEW i \in DOMAIN queue[tt]
      PROVE  /\ Runs(tt, i) \in Request
             /\ Runs(tt, i).running = ((tt = t /\ i = 1) \/ queue[tt][i].running)
             /\ Runs(tt, i).session = queue[tt][i].session
             /\ Runs(tt, i).kind = queue[tt][i].kind /\ Runs(tt, i).seen = queue[tt][i].seen
             /\ Runs(tt, i).asked = queue[tt][i].asked /\ Runs(tt, i).row = queue[tt][i].row
             /\ Runs(tt, i).user = queue[tt][i].user
    <2>1. queue[tt][i] \in Request
        BY <1>2
    <2> QED
        BY <2>1 DEF Request
<1> HIDE DEF Runs
<1>8. QueuesType'
    BY <1>4 DEF QueuesType
<1>9. RequestsInv'
    <2> SUFFICES ASSUME NEW tt \in Threads, NEW i \in DOMAIN queue'[tt]
                 PROVE  /\ Waits(queue'[tt][i], tt, ui')
                        /\ Meant(queue'[tt][i], tt, owner', used')
                        /\ queue'[tt][i].running => i = 1
        BY DEF RequestsInv
    <2>0. i \in DOMAIN queue[tt] /\ queue'[tt][i] = Runs(tt, i)
        BY <1>5
    <2>1. /\ Waits(queue[tt][i], tt, ui) /\ Meant(queue[tt][i], tt, owner, used)
          /\ queue[tt][i].running => i = 1
        BY <2>0 DEF RequestsInv
    <2>2. Meant(queue[tt][i], tt, owner', used')
        BY <1>2, <2>0, <2>1, MeantKept
    <2>3. tt = t /\ i = 1 => queue[tt][i].kind # "history"
        BY DEF Holder
    <2>4. Waits(Runs(tt, i), tt, ui')
        BY <1>7, <2>0, <2>1 DEF Waits
    <2>5. Meant(Runs(tt, i), tt, owner', used')
        BY <1>7, <2>0, <2>2, <2>3 DEF Meant
    <2>6. Runs(tt, i).running => i = 1
        BY <1>7, <2>0, <2>1
    <2> QED
        BY <2>0, <2>4, <2>5, <2>6
<1>10. OneRequest'
    BY <1>5, <1>7 DEF OneRequest
<1>11. queue'[t] # <<>> /\ Holder(t)'.running /\ Holder(t)'.kind = Holder(t).kind
    <2>1. /\ queue'[t][1] = Runs(t, 1) /\ Runs(t, 1).running
          /\ Runs(t, 1).kind = queue[t][1].kind
        BY <1>1, <1>5, <1>7
    <2>2. queue'[t] # <<>>
        BY <1>1, <1>4, <1>5, EmptySeq, LenProperties
    <2> QED
        BY <2>1, <2>2 DEF Holder
<1> QED
    BY <1>6, <1>8, <1>9, <1>10, <1>11
-----------------------------------------------------------------------------
(* The steps of the user and of the script *)

\* The counters stay in their bounds when nothing counts.
LEMMA CountersStay ==
    ASSUME CountersType, UNCHANGED counters
    PROVE  CountersType'
BY DEF CountersType, counters

\* A step that touches neither the server nor a request.
LEMMA QuietStep ==
    ASSUME Inv, NEW s \in Sessions, NEW x \in Session, Becomes(s, x), Good(x, owner, used),
           ui[s].pc \notin {"history", "waiting"},
           UNCHANGED <<server, queue>>, CountersType'
    PROVE  Inv'
<1>1. ServerType /\ QueuesType /\ UiType
    BY Types DEF Inv
<1>2. ServerType' /\ ServerInv' /\ Grows(owner, used, owner', used')
    BY <1>1, ServerStays DEF Inv
<1>3. UNCHANGED <<owner, used>>
    BY DEF server, talk
<1>4. UiType' /\ SessionsInv'
    BY <1>1, <1>2, <1>3, SessionMoves DEF Inv
<1>5. QueuesType' /\ RequestsInv' /\ OneRequest'
    BY <1>1, <1>2, RequestsStay DEF Inv
<1>6. TypeOK'
    BY <1>2, <1>4, <1>5 DEF TypeOK, ServerType, QueuesType, UiType, CountersType
<1> QED
    BY <1>2, <1>4, <1>5, <1>6 DEF Inv

\* Nobody waits any more for the requests of s, which run all the same.
LEMMA Dropped ==
    ASSUME Inv, NEW s \in Sessions, NEW x \in Session, Becomes(s, x), Good(x, owner', used'),
           queue' = Abandoned(s), CountersType',
           ServerType', ServerKept, Grows(owner, used, owner', used')
    PROVE  Inv'
<1>1. ServerType /\ QueuesType /\ UiType
    BY Types DEF Inv
<1>2. UiType' /\ SessionsInv'
    BY <1>1, SessionMoves DEF Inv
<1>3. QueuesType' /\ RequestsInv' /\ OneRequest' /\ ServerInv'
    BY <1>1, LeftAlone DEF Inv
<1>4. TypeOK'
    BY <1>2, <1>3 DEF TypeOK, ServerType, QueuesType, UiType, CountersType
<1> QED
    BY <1>2, <1>3, <1>4 DEF Inv

\* The user acts, on a page that is at rest or while a run is in progress: the run
\* stops, and its call is answered to nobody.
LEMMA Acting ==
    ASSUME Inv, NEW s \in Sessions, NEW x \in Session, Good(x, owner, used), Acts(s, x)
    PROVE  Inv'
<1>1. /\ ServerType /\ CountersType /\ ui[s] \in Session
      /\ Becomes(s, x) /\ queue' = Abandoned(s)
    BY Types DEF Inv, UiType, Acts
<1>2. CountersType'
    <2>1. \/ UNCHANGED interruptions
          \/ interruptions < MaxInterruptions /\ interruptions' = interruptions + 1
        BY DEF Acts
    <2>2. timeouts' = timeouts
        BY DEF Acts
    <2> QED
        BY <1>1, <2>1, <2>2, BoundsAssumption DEF CountersType
<1>3. CASE UNCHANGED server
    <2>1. ServerType' /\ ServerKept /\ Grows(owner, used, owner', used')
        BY <1>1, <1>3, ServerSame DEF Inv
    <2>2. Good(x, owner', used')
        BY <1>3 DEF server, talk
    <2> QED
        BY <1>1, <1>2, <2>1, <2>2, Dropped
<1>4. ASSUME NEW t \in Threads, Creates(ui[s].user, t) PROVE Inv'
    <2>1. ui[s].user \in Users
        BY <1>1 DEF Session
    <2>2. ServerType' /\ ServerKept /\ Grows(owner, used, owner', used')
        BY <1>1, <1>4, <2>1, Creation DEF Inv
    <2>3. Good(x, owner', used')
        <3>1. Made(x, owner', used')
            BY <2>2, MadeKept DEF Good
        <3> QED
            BY <3>1 DEF Good
    <2> QED
        BY <1>1, <1>2, <2>2, <2>3, Dropped
<1> QED
    BY <1>3, <1>4 DEF Acts

LEMMA UserSteps == ASSUME Inv, NEW s \in Sessions, UserStep(s) PROVE Inv'
<1> DEFINE u == ui[s]
<1>1. u \in Session /\ Good(u, owner, used)
    BY DEF Inv, TypeOK, SessionsInv
<1> HIDE DEF u
<1>2. /\ Clicked(u) \in Session /\ Clicked(u).pc = "lists" /\ Clicked(u).page = u.page
      /\ Clicked(u).click = NoClick /\ Clicked(u).next = u.next
      /\ Clicked(u).target = u.target /\ Clicked(u).asked = u.asked
    BY <1>1, Drawn, ClickedFields
<1> DEFINE after == Clicked(u)
           box == IF u.options = {} THEN None ELSE after.box
<1>3. ToNewChat(u) = [after EXCEPT !.choice = None, !.box = box, !.target = None,
                                   !.made = None, !.asked = None]
    BY <1>1, ClickedFields DEF ToNewChat
<1>4. ToNewChat(u) \in Session
    BY <1>1, Drawn
<1> HIDE DEF after, box
<1>5. /\ ToNewChat(u) \in Session /\ ToNewChat(u).pc = "lists" /\ ToNewChat(u).page = u.page
      /\ ToNewChat(u).click = NoClick /\ ToNewChat(u).next = u.next
      /\ ToNewChat(u).target = None /\ ToNewChat(u).made = None
    BY <1>3, <1>2, <1>4 DEF Session, after
<1>6. ASSUME NEW v \in Users, SelectProfile(s, v) PROVE Inv'
    <2> DEFINE x == [ToNewChat(u) EXCEPT !.user = v, !.next = Absent]
    <2>1. /\ x \in Session /\ x.pc = "lists" /\ x.page = u.page /\ x.click = NoClick
          /\ x.made = None /\ x.next = Absent /\ x.target = None
        BY <1>5, <1>6 DEF Session
    <2>2. Acts(s, x)
        BY <1>6 DEF SelectProfile, u
    <2> HIDE DEF x
    <2>3. Good(x, owner, used)
        BY <1>1, <2>1, MovedOn
    <2> QED
        BY <2>1, <2>2, <2>3, Acting
<1>7. ASSUME NewChat(s) PROVE Inv'
    <2>1. Acts(s, ToNewChat(u))
        BY <1>7 DEF NewChat, u
    <2>2. Good(ToNewChat(u), owner, used)
        BY <1>1, <1>5, MovedOn
    <2> QED
        BY <1>5, <2>1, <2>2, Acting
<1>8. ASSUME NEW t \in Threads \union {None}, ChooseChat(s, t) PROVE Inv'
    <2> DEFINE x == [Clicked(u) EXCEPT !.choice = t, !.box = t, !.made = None]
    <2>1. /\ x \in Session /\ x.pc = "lists" /\ x.page = u.page /\ x.click = NoClick
          /\ x.made = None /\ x.target = u.target /\ x.asked = u.asked /\ x.next = u.next
        BY <1>2 DEF Session
    <2>2. Acts(s, x)
        BY <1>8 DEF ChooseChat, u
    <2> HIDE DEF x
    <2>3. Good(x, owner, used)
        BY <1>1, <2>1, MovedOn
    <2> QED
        BY <2>1, <2>2, <2>3, Acting
<1>9. ASSUME NEW kind \in Kinds, Press(s, kind) PROVE Inv'
    <2> DEFINE c == IF kind = "none" THEN NoClick
                    ELSE [kind |-> kind, seen |-> {u.page.thread, u.box},
                          shown |-> IF kind = "decision" THEN u.page.actions ELSE {}]
               x == [Clicked(u) EXCEPT !.click = c]
    <2>1. Offered(u, kind) /\ Acts(s, x)
        BY <1>9 DEF Press, u
    <2>2. x \in Session /\ Good(x, owner, used)
        BY <1>1, <2>1, Pressed
    <2> QED
        BY <2>1, <2>2, Acting
<1> QED
    BY <1>6, <1>7, <1>8, <1>9 DEF UserStep

\* A chat that the session has started is in the list of saved chats.
LEMMA MadeIsSaved ==
    ASSUME ServerType, NEW u \in Session, Made(u, owner, used),
           u.made # None, owner[u.made] # None
    PROVE  u.made \in SavedChats(u.user)
<1>1. u.made \in Threads /\ owner[u.made] = u.user
    BY DEF Made, Session
<1>2. CanRead(u.user, u.made)
    BY <1>1 DEF CanRead, CanReadConversation, Profile, RowOf
<1> QED
    BY <1>1, <1>2 DEF SavedChats

LEMMA FetchSteps ==
    ASSUME Inv, NEW s \in Sessions, FetchSaved(s) \/ FetchApprovals(s) PROVE Inv'
<1> DEFINE u == ui[s]
           chats == SavedChats(u.user)
           more == u.saved \union PendingChats(u.user)
<1>1. /\ u \in Session /\ Good(u, owner, used) /\ ServerType
      /\ CountersType /\ UNCHANGED <<server, queue, counters>>
      /\ u.pc \in {"lists", "approvals"}
    BY Types DEF Inv, UiType, SessionsInv, FetchSaved, FetchApprovals
<1>2. ASSUME NEW x \in Session, Becomes(s, x), Good(x, owner, used)
      PROVE  Inv'
    BY <1>1, <1>2, QuietStep, CountersStay
<1>3. chats \in SUBSET Threads /\ more \in SUBSET Threads
    BY <1>1 DEF SavedChats, PendingChats, Session
<1>4. u.made # None /\ owner[u.made] # None => u.made \in chats
    BY <1>1, MadeIsSaved DEF Good
<1>5. u.pc = "approvals" /\ u.made # None /\ owner[u.made] # None => u.made \in more
    BY <1>1 DEF Good, Made
<1>6. \/ u.pc = "lists" /\ Becomes(s, [u EXCEPT !.pc = "approvals", !.saved = chats])
      \/ u.pc = "lists" /\ Becomes(s, WithOptions(u, chats))
      \/ u.pc = "approvals" /\ Becomes(s, WithOptions(u, more))
    BY DEF FetchSaved, FetchApprovals
<1> HIDE DEF u, chats, more
<1>7. ASSUME u.pc = "lists", Becomes(s, [u EXCEPT !.pc = "approvals", !.saved = chats])
      PROVE  Inv'
    <2> DEFINE x == [u EXCEPT !.pc = "approvals", !.saved = chats]
    <2>1. /\ x.pc = "approvals" /\ x.page = u.page /\ x.click = u.click /\ x.box = u.box
          /\ x.saved = chats
          /\ x.next = u.next /\ x.target = u.target /\ x.asked = u.asked
          /\ x.choice = u.choice /\ x.made = u.made /\ x.user = u.user
          /\ x \in Session
        BY <1>1, <1>3 DEF Session
    <2> HIDE DEF x
    <2>2. Screen(x)
        BY <1>1, <1>7, <2>1 DEF Good, Screen
    <2>3. Target(x)
        BY <1>1, <2>1 DEF Good, Target
    <2>4. Made(x, owner, used)
        BY <1>1, <1>4, <2>1 DEF Good, Made
    <2>5. Good(x, owner, used)
        BY <2>2, <2>3, <2>4 DEF Good
    <2> QED
        BY <1>2, <1>7, <2>1, <2>5 DEF x
<1>8. ASSUME u.pc = "lists", Becomes(s, WithOptions(u, chats)) PROVE Inv'
    <2>1. WithOptions(u, chats) \in Session /\ Good(WithOptions(u, chats), owner, used)
        BY <1>1, <1>3, <1>4, Settled
    <2> QED
        BY <1>2, <1>8, <2>1
<1>9. ASSUME u.pc = "approvals", Becomes(s, WithOptions(u, more)) PROVE Inv'
    <2>1. WithOptions(u, more) \in Session /\ Good(WithOptions(u, more), owner, used)
        BY <1>1, <1>3, <1>5, <1>9, Settled
    <2> QED
        BY <1>2, <1>9, <2>1
<1> QED
    BY <1>6, <1>7, <1>8, <1>9

\* The request of a session that has been waiting for nothing.
LEMMA NewRequestType ==
    ASSUME Inv, NEW s \in Sessions, NEW row \in Row \union {None},
           NEW kind \in {"history", "chat", "decision", "delete"}
    PROVE  /\ NewRequest(s, kind, row) \in Request
           /\ NewRequest(s, kind, row).seen = ui[s].click.seen
           /\ NewRequest(s, kind, row).asked = ui[s].asked
           /\ NewRequest(s, kind, row).session = s /\ ~ NewRequest(s, kind, row).running
           /\ NewRequest(s, kind, row).kind = kind /\ NewRequest(s, kind, row).row = row
           /\ NewRequest(s, kind, row).user = ui[s].user
<1>1. ui[s] \in Session
    BY DEF Inv, TypeOK
<1>2. /\ ui[s].click.seen \in SUBSET (Threads \union {None}) /\ ui[s].click.shown \in Actions
      /\ ui[s].asked \in Threads \union {None} /\ ui[s].user \in Users
    BY <1>1 DEF Session, Click
<1> QED
    BY <1>2 DEF NewRequest, Request

\* Everything a step that sends a request has to show.
LEMMA Sending ==
    ASSUME Inv, NEW s \in Sessions, NEW x \in Session, Becomes(s, x), Good(x, owner, used),
           ui[s].pc \notin {"history", "waiting"}, NEW t \in Threads,
           NEW q \in Request, q.session = s, ~ q.running,
           queue' = [queue EXCEPT ![t] = Append(@, q)],
           Waits(q, t, ui'), Meant(q, t, owner, used), UNCHANGED <<server, counters>>
    PROVE  Inv'
<1>1. ServerType /\ QueuesType /\ UiType /\ CountersType
    BY Types DEF Inv
<1>2. UNCHANGED <<owner, used>> /\ Grows(owner, used, owner', used')
    BY <1>1 DEF server, talk, Grows
<1>3. UiType' /\ SessionsInv'
    BY <1>1, <1>2, SessionMoves DEF Inv
<1>4. QueuesType' /\ RequestsInv' /\ OneRequest' /\ ServerType' /\ ServerInv'
    BY <1>1, Sent DEF Inv
<1>5. CountersType'
    BY <1>1, CountersStay
<1>6. TypeOK'
    BY <1>3, <1>4, <1>5 DEF TypeOK, ServerType, QueuesType, UiType, CountersType
<1> QED
    BY <1>3, <1>4, <1>6 DEF Inv

LEMMA FetchesRow == ASSUME Inv, NEW s \in Sessions, FetchRow(s) PROVE Inv'
<1> DEFINE u == ui[s]
           t == u.choice
<1>1. /\ u \in Session /\ Good(u, owner, used) /\ ServerType /\ UiType /\ u.pc = "row"
      /\ CountersType /\ UNCHANGED <<server, counters>>
    BY Types DEF Inv, UiType, SessionsInv, FetchRow
<1>2. t \in Threads /\ u.next = Absent /\ u.user \in Users
    BY <1>1 DEF Good, Screen, Session
<1>3. CASE CanRead(u.user, t)
    <2> DEFINE q == NewRequest(s, "history", RowOf(t))
               x == [u EXCEPT !.pc = "history"]
    <2>1. queue' = [queue EXCEPT ![t] = Append(@, q)] /\ Becomes(s, x)
        BY <1>3 DEF FetchRow
    <2>2. owner[t] \in Users /\ RowOf(t) \in Row /\ RowOf(t).owner_id = owner[t] /\ t \in used
        <3>1. owner[t] \in Users
            BY <1>1, <1>2, <1>3 DEF CanRead, ServerType
        <3>2. /\ meta[t].status \in {"completed", "approval_required"}
              /\ meta[t].reviewer_id \in Users \union {None}
            BY <1>1, <1>2 DEF ServerType
        <3>3. RowOf(t) = [owner_id |-> owner[t], status |-> meta[t].status,
                          reviewer_id |-> meta[t].reviewer_id]
            BY <1>3 DEF RowOf, CanRead
        <3> QED
            BY <1>2, <1>3, <3>1, <3>2, <3>3 DEF Row, CanRead, Inv, ServerInv
    <2>3. /\ q \in Request /\ q.session = s /\ ~ q.running
          /\ q.kind = "history" /\ q.row = RowOf(t) /\ q.user = u.user
        BY <2>2, NewRequestType
    <2>4. x \in Session /\ Good(x, owner, used)
        <3> HIDE DEF u
        <3> QED
            BY <1>1, WentOn
    <2>5. x.pc = "history" /\ x.user = u.user /\ x.choice = t /\ x.next = Absent
        BY <1>1, <1>2 DEF Session
    <2>6. ui'[s] = x
        BY <1>1, <2>1 DEF Becomes, UiType
    <2> HIDE DEF q, x
    <2>7. Waits(q, t, ui')
        BY <2>3, <2>5, <2>6 DEF Waits
    <2>8. Meant(q, t, owner, used)
        BY <2>2, <2>3, NoneAssumption DEF Meant
    <2> QED
        BY <1>1, <1>2, <2>1, <2>3, <2>4, <2>7, <2>8, Sending
<1>4. CASE ~ CanRead(u.user, t)
    <2> DEFINE x == [Shows(u, Stopped) EXCEPT !.options = u.options]
    <2>1. Shows(u, Stopped) \in Session /\ Shows(u, Stopped).options = u.options
        BY <1>1, Drawn DEF Shows, Session
    <2>2. x = Shows(u, Stopped)
        BY <2>1 DEF Session
    <2>3. Becomes(s, x) /\ UNCHANGED queue
        BY <1>4, <2>2 DEF FetchRow
    <2>4. x \in Session
        BY <2>1, <2>2
    <2>5. Good(x, owner, used)
        BY <1>1, <2>4, StoppedShort
    <2> QED
        BY <1>1, <2>3, <2>4, <2>5, QuietStep, CountersStay
<1> QED
    BY <1>3, <1>4
-----------------------------------------------------------------------------
(* The handling of the click *)

\* What is sent in answer to a click concerns a chat that was on the screen at the
\* click, and a deletion the chat whose deletion was asked for.
LEMMA Posting ==
    ASSUME Inv, NEW s \in Sessions, NEW kind \in {"chat", "decision", "delete"},
           ui[s].pc = "act", ui[s].click.kind # "none", ui[s].page.thread # None,
           kind = "delete" => ui[s].target = ui[s].page.thread,
           Post(s, ui[s].page.thread, kind)
    PROVE  Inv'
<1> DEFINE u == ui[s]
           t == u.page.thread
           q == NewRequest(s, kind, None)
           x == [u EXCEPT !.pc = "waiting"]
<1>1. /\ u \in Session /\ Good(u, owner, used) /\ UiType
      /\ u.pc = "act" /\ u.click.kind # "none" /\ t # None
      /\ queue' = [queue EXCEPT ![t] = Append(@, q)] /\ Becomes(s, x)
      /\ UNCHANGED <<server, counters>>
    BY Types DEF Inv, UiType, SessionsInv, Post
<1>2. t \in Threads /\ t = u.choice /\ u.next = Absent /\ t \in u.click.seen
    <2>1. u.page.thread \in Threads \union {None}
        BY <1>1 DEF Session, Page
    <2> QED
        BY <1>1, <2>1 DEF Good, Screen
<1>3. kind = "delete" => u.asked = t
    BY <1>1, <1>2 DEF Good, Target
<1>4. /\ q \in Request /\ q.seen = u.click.seen /\ q.asked = u.asked /\ q.session = s
      /\ ~ q.running /\ q.kind = kind /\ q.user = u.user
    BY NewRequestType
<1>5. x.pc = "waiting" /\ x.user = u.user /\ x.choice = u.choice /\ x.next = u.next
    BY <1>1 DEF Session
<1>6. ui'[s] = x /\ u.pc \notin {"history", "waiting"} /\ ui[s] = u
    BY <1>1 DEF Becomes, UiType
<1> HIDE DEF u, t, q
<1>7. x \in Session /\ Good(x, owner, used)
    BY <1>1, WentOn
<1> HIDE DEF x
<1>8. Waits(q, t, ui')
    BY <1>2, <1>4, <1>5, <1>6 DEF Waits
<1>9. Meant(q, t, owner, used)
    BY <1>2, <1>3, <1>4 DEF Meant
<1> QED
    BY <1>1, <1>2, <1>4, <1>6, <1>7, <1>8, <1>9, Sending

LEMMA PostSteps ==
    ASSUME Inv, NEW s \in Sessions, ConfirmDeletion(s) \/ Decide(s) \/ SendMessage(s)
    PROVE  Inv'
<1>1. ui[s].page.thread = None => ui[s].page.actions = {}
    BY DEF Inv, SessionsInv, Good, Screen
<1>2. CASE ConfirmDeletion(s)
    BY <1>2, Posting DEF ConfirmDeletion, Handles, Offered
<1>3. CASE Decide(s)
    BY <1>1, <1>3, Posting DEF Decide, Handles, Offered
<1>4. CASE SendMessage(s)
    BY <1>4, Posting DEF SendMessage, Message
<1> QED
    BY <1>2, <1>3, <1>4

LEMMA DrawingSteps ==
    ASSUME Inv, NEW s \in Sessions,
           AskDeletion(s) \/ CancelDeletion(s) \/ Display(s) \/ StartNewChat(s) \/ CreationFails(s)
    PROVE  Inv'
<1> DEFINE u == ui[s]
<1>1. /\ u \in Session /\ Good(u, owner, used) /\ CountersType
      /\ u.pc \in {"act", "creating"} /\ UNCHANGED <<server, queue, counters>>
    BY Types DEF Inv, UiType, SessionsInv, AskDeletion, CancelDeletion, Display, StartNewChat,
           CreationFails, Handles, Message
<1>2. ASSUME NEW x \in Session, Becomes(s, x), Good(x, owner, used)
      PROVE  Inv'
    BY <1>1, <1>2, QuietStep, CountersStay
<1>3. u.page \in Page /\ u.page.thread \in Threads \union {None}
    BY <1>1 DEF Session, Page
<1>4. CASE AskDeletion(s)
    <2> DEFINE t == u.page.thread
               y == Shows(u, u.page)
               x == [y EXCEPT !.target = t, !.asked = t]
    <2>1. u.pc = "act" /\ Becomes(s, x)
        BY <1>4 DEF AskDeletion, Handles
    <2> HIDE DEF u
    <2>2. x \in Session
        <3>1. y \in Session
            BY <1>1, <1>3, Drawn
        <3> HIDE DEF y
        <3> QED
            BY <1>3, <3>1 DEF Session
    <2>3. Good(x, owner, used)
        BY <1>1, <2>1, <2>2, ShownAsDrawn
    <2> QED
        BY <1>2, <2>1, <2>2, <2>3
<1>5. CASE CancelDeletion(s)
    <2> DEFINE x == [Rerun(u) EXCEPT !.target = None, !.asked = None]
    <2>1. Becomes(s, x)
        BY <1>5 DEF CancelDeletion
    <2> HIDE DEF u
    <2>2. Rerun(u) \in Session /\ Good(Rerun(u), owner, used)
        BY <1>1, Drawn, Restarted
    <2>3. Rerun(u).pc = "lists" /\ Rerun(u).click = NoClick
        BY <1>1 DEF Rerun, Session
    <2>4. /\ x.pc = "lists" /\ x.page = Rerun(u).page /\ x.click = NoClick /\ x.target = None
          /\ x.next = Rerun(u).next /\ x.choice = Rerun(u).choice /\ x.box = Rerun(u).box
          /\ x.user = Rerun(u).user /\ x.made = Rerun(u).made /\ x \in Session
        BY <2>2, <2>3 DEF Session
    <2> HIDE DEF x
    <2>5. Screen(x) /\ Target(x) /\ Made(x, owner, used)
        <3>1. Screen(x)
            BY <2>2, <2>3, <2>4 DEF Good, Screen, NoClick
        <3>2. Target(x)
            BY <2>4 DEF Target
        <3>3. Made(x, owner, used)
            BY <2>2, <2>3, <2>4 DEF Good, Made
        <3> QED
            BY <3>1, <3>2, <3>3
    <2> QED
        BY <1>2, <2>1, <2>4, <2>5 DEF x, Good
<1>6. CASE Display(s)
    <2> DEFINE y == Shows(u, u.page)
               x == [y EXCEPT !.target = u.target, !.asked = u.asked]
    <2>1. u.pc = "act" /\ Becomes(s, y)
        BY <1>6 DEF Display
    <2> HIDE DEF u
    <2>2. y \in Session /\ y.target = u.target /\ y.asked = u.asked
        BY <1>1, <1>3, Drawn DEF Shows, Session
    <2>3. x = y
        <3> HIDE DEF y
        <3> QED
            BY <2>2 DEF Session
    <2>4. Good(x, owner, used)
        BY <1>1, <2>1, <2>2, <2>3, ShownAsDrawn
    <2> QED
        BY <1>2, <2>1, <2>2, <2>3, <2>4
<1>7. CASE StartNewChat(s)
    <2>1. u.pc = "act" /\ u.choice = None /\ Becomes(s, [u EXCEPT !.pc = "creating"])
        BY <1>1, <1>7 DEF StartNewChat, Message, Good, Screen
    <2> HIDE DEF u
    <2>2. [u EXCEPT !.pc = "creating"] \in Session /\ Good([u EXCEPT !.pc = "creating"], owner, used)
        BY <1>1, <2>1, WentOn
    <2> QED
        BY <1>2, <2>1, <2>2
<1>8. CASE CreationFails(s)
    <2>1. Becomes(s, Rerun(u))
        BY <1>8 DEF CreationFails
    <2> HIDE DEF u
    <2>2. Rerun(u) \in Session /\ Good(Rerun(u), owner, used)
        BY <1>1, Drawn, Restarted
    <2> QED
        BY <1>2, <2>1, <2>2
<1> QED
    BY <1>4, <1>5, <1>6, <1>7, <1>8

\* A new chat is opened on the server while its session is creating it.
LEMMA CreatingSteps ==
    ASSUME Inv, NEW s \in Sessions, ui[s].pc = "creating", NEW t \in Threads,
           Creates(ui[s].user, t), UNCHANGED queue, CountersType',
           NEW x \in {Answered(ui[s], t), Rerun(ui[s])}, Becomes(s, x)
    PROVE  Inv'
<1> DEFINE u == ui[s]
<1>1. /\ u \in Session /\ Good(u, owner, used) /\ u.user \in Users /\ u.pc = "creating"
      /\ ServerType /\ QueuesType /\ UiType
    BY Types DEF Inv, UiType, SessionsInv, Session
<1>2. /\ ServerType' /\ Grows(owner, used, owner', used') /\ ServerKept
      /\ t \in used' /\ owner'[t] = u.user
    BY <1>1, Creation DEF Inv
<1> HIDE DEF u
<1>3. x \in Session /\ Good(x, owner', used')
    <2>1. CASE x = Rerun(u)
        <3>1. x \in Session /\ Good(x, owner, used)
            BY <1>1, <2>1, Drawn, Restarted
        <3>2. Made(x, owner', used')
            BY <1>2, <3>1, MadeKept DEF Good
        <3> QED
            BY <3>1, <3>2 DEF Good
    <2>2. CASE x = Answered(u, t)
        <3> DEFINE page == [u.page EXCEPT !.thread = t]
        <3>1. page \in Page /\ page.thread = t
            BY <1>1 DEF Session, Page
        <3>2. x = [u EXCEPT !.pc = "first", !.page = page, !.made = t, !.next = t]
            BY <1>1, <2>2 DEF Answered, Session
        <3> HIDE DEF page
        <3>3. /\ x.pc = "first" /\ x.page = page /\ x.click = u.click /\ x.box = u.box
              /\ x.next = t /\ x.target = u.target /\ x.asked = u.asked
              /\ x.choice = u.choice /\ x.made = t /\ x.user = u.user
              /\ x \in Session
            BY <1>1, <3>1, <3>2 DEF Session
        <3>4. Screen(x)
            BY <3>1, <3>3, NoneAssumption DEF Screen
        <3>5. Target(x)
            BY <1>1, <3>3 DEF Good, Screen, Target
        <3>6. Made(x, owner', used')
            BY <1>2, <3>3 DEF Made
        <3> QED
            BY <3>3, <3>4, <3>5, <3>6 DEF Good
    <2> QED
        BY <2>1, <2>2 DEF u
<1>4. UiType' /\ SessionsInv'
    BY <1>1, <1>2, <1>3, SessionMoves DEF Inv
<1>5. QueuesType' /\ RequestsInv' /\ OneRequest'
    BY <1>1, <1>2, RequestsStay DEF Inv, u
<1>6. ServerInv'
    BY <1>2 DEF Inv, ServerInv, ServerKept, Holder
<1>7. TypeOK'
    BY <1>2, <1>4, <1>5 DEF TypeOK, ServerType, QueuesType, UiType, CountersType
<1> QED
    BY <1>4, <1>5, <1>6, <1>7 DEF Inv

LEMMA FirstMessage == ASSUME Inv, NEW s \in Sessions, SendFirstMessage(s) PROVE Inv'
<1> DEFINE u == ui[s]
           t == u.page.thread
           q == [NewRequest(s, "chat", None) EXCEPT !.seen = {t}]
           x == [u EXCEPT !.pc = "waiting"]
<1>1. /\ u \in Session /\ Good(u, owner, used) /\ UiType /\ u.pc = "first"
      /\ queue' = [queue EXCEPT ![t] = Append(@, q)] /\ Becomes(s, x)
      /\ UNCHANGED <<server, counters>>
    BY Types DEF Inv, UiType, SessionsInv, SendFirstMessage
<1>2. t \in Threads
    <2>1. u.page.thread \in Threads \union {None}
        BY <1>1 DEF Session, Page
    <2> QED
        BY <1>1, <2>1 DEF Good, Screen
<1>3. /\ q \in Request /\ q.seen = {t} /\ q.session = s
      /\ ~ q.running /\ q.kind = "chat" /\ q.user = u.user
    <2> DEFINE r == NewRequest(s, "chat", None)
    <2>1. r \in Request /\ r.session = s /\ ~ r.running /\ r.kind = "chat" /\ r.user = u.user
        BY NewRequestType
    <2> HIDE DEF r, u, t
    <2>2. LET y == [r EXCEPT !.seen = {t}] IN
             y \in Request /\ y.seen = {t} /\ y.session = s /\ ~ y.running /\ y.kind = "chat"
             /\ y.user = u.user
        BY <1>2, <2>1 DEF Request
    <2> QED
        BY <2>2 DEF r
<1>4. x.pc = "waiting" /\ x.user = u.user
    BY <1>1 DEF Session
<1>5. ui'[s] = x /\ u.pc \notin {"history", "waiting"} /\ ui[s] = u
    BY <1>1 DEF Becomes, UiType
<1> HIDE DEF u, t, q
<1>6. x \in Session /\ Good(x, owner, used)
    BY <1>1, WentOn
<1> HIDE DEF x
<1>7. Waits(q, t, ui')
    BY <1>3, <1>4, <1>5 DEF Waits
<1>8. Meant(q, t, owner, used)
    BY <1>3 DEF Meant
<1> QED
    BY <1>1, <1>2, <1>3, <1>5, <1>6, <1>7, <1>8, Sending

LEMMA ScriptSteps == ASSUME Inv, NEW s \in Sessions, ScriptStep(s) PROVE Inv'
<1>1. ASSUME ChatCreated(s) PROVE Inv'
    <2>1. PICK t \in Threads : Creates(ui[s].user, t) /\ Becomes(s, Answered(ui[s], t))
        BY <1>1 DEF ChatCreated
    <2> QED
        BY <1>1, <2>1, CreatingSteps, CountersStay, Types DEF ChatCreated, Inv
<1> QED
    BY <1>1, FetchSteps, FetchesRow, PostSteps, DrawingSteps, FirstMessage DEF ScriptStep
-----------------------------------------------------------------------------
(* Calls that the page gives up on *)

\* A request that has not started to run is lost on its way.
LEMMA Lost ==
    ASSUME Inv, NEW s \in Sessions, NEW x \in Session, Becomes(s, x), Good(x, owner, used),
           NeverArrived(s), UNCHANGED server, CountersType'
    PROVE  Inv'
<1>1. ServerType /\ QueuesType /\ UiType
    BY Types DEF Inv
<1>2. PICK t \in Threads : \E i \in DOMAIN queue[t] :
         /\ queue[t][i].session = s /\ ~ queue[t][i].running
         /\ queue' = Without(t, i)
    BY DEF NeverArrived
<1>3. PICK i \in DOMAIN queue[t] :
         /\ queue[t][i].session = s /\ ~ queue[t][i].running
         /\ queue' = Without(t, i)
    BY <1>2
<1>4. UNCHANGED <<owner, pending, decided, used>> /\ Grows(owner, used, owner', used')
    BY <1>1 DEF server, talk, Grows
<1>5. UiType' /\ SessionsInv'
    BY <1>1, <1>4, SessionMoves DEF Inv
<1>6. QueuesType' /\ RequestsInv' /\ OneRequest'
    <2>1. queue[t][i].session # None
        BY <1>3, NoneAssumption
    <2> QED
        BY <1>1, <1>3, <1>4, <2>1, Gone DEF Inv
<1>7. i = 1 => ~ decided[t]
    BY <1>3 DEF Inv, ServerInv, Holder
<1>8. ServerInv'
    BY <1>1, <1>3, <1>4, <1>7, DecisionsHold DEF Inv, ServerInv
<1>9. TypeOK'
    BY <1>1, <1>4, <1>5, <1>6 DEF TypeOK, ServerType, QueuesType, UiType, CountersType, server, talk
<1> QED
    BY <1>5, <1>6, <1>8, <1>9 DEF Inv

LEMMA GivingUp == ASSUME Inv, NEW s \in Sessions, GiveUp(s) PROVE Inv'
<1> DEFINE u == ui[s]
<1>1. u \in Session /\ Good(u, owner, used) /\ ServerType /\ ServerInv
    BY Types DEF Inv, UiType, SessionsInv
<1>2. CountersType'
    BY BoundsAssumption, Types DEF GiveUp, Inv, CountersType
<1>3. Rerun(u) \in Session /\ Good(Rerun(u), owner, used)
    <2> HIDE DEF u
    <2> QED
        BY <1>1, Drawn, Restarted
\* The request is lost, or carried out for nobody.
<1>4. ASSUME NEW x \in Session, Becomes(s, x), Good(x, owner, used), UNCHANGED server,
             queue' = Abandoned(s) \/ NeverArrived(s)
      PROVE  Inv'
    <2>1. ServerType' /\ ServerKept /\ Grows(owner, used, owner', used')
        BY <1>1, <1>4, ServerSame
    <2>2. Good(x, owner', used')
        BY <1>4 DEF server, talk
    <2>3. CASE queue' = Abandoned(s)
        BY <1>2, <1>4, <2>1, <2>2, <2>3, Dropped
    <2>4. CASE NeverArrived(s)
        BY <1>2, <1>4, <2>4, Lost
    <2> QED
        BY <1>4, <2>3, <2>4
<1>5. CASE /\ u.pc \in {"lists", "approvals"}
           /\ Becomes(s, [Shows(u, Stopped) EXCEPT !.options = {}])
           /\ UNCHANGED <<server, queue>>
    <2> DEFINE x == [Shows(u, Stopped) EXCEPT !.options = {}]
    <2>1. Becomes(s, x)
        BY <1>5
    <2> HIDE DEF u
    <2>2. x \in Session
        BY <1>1, Drawn DEF Session
    <2>3. Good(x, owner, used)
        BY <1>1, <2>2, StoppedShort
    <2> QED
        BY <1>2, <1>5, <2>1, <2>2, <2>3, QuietStep DEF u
<1>6. CASE /\ u.pc \in {"row", "history"}
           /\ queue' = Abandoned(s) \/ NeverArrived(s)
           /\ Becomes(s, Shows(u, Stopped))
           /\ UNCHANGED server
    <2> DEFINE x == [Shows(u, Stopped) EXCEPT !.options = u.options]
    <2>1. Shows(u, Stopped) \in Session /\ Shows(u, Stopped).options = u.options
        BY <1>1, Drawn DEF Shows, Session
    <2>2. x = Shows(u, Stopped)
        BY <2>1 DEF Session
    <2>3. Becomes(s, x) /\ x \in Session
        BY <1>6, <2>1, <2>2
    <2>4. Good(x, owner, used)
        <3> HIDE DEF u
        <3> QED
            BY <1>1, <2>3, StoppedShort
    <2> QED
        BY <1>4, <1>6, <2>3, <2>4
<1>7. CASE /\ u.pc = "creating"
           /\ \E t \in Threads : Creates(u.user, t)
           /\ Becomes(s, Rerun(u))
           /\ UNCHANGED queue
    BY <1>2, <1>7, CreatingSteps
<1>8. CASE /\ u.pc = "first" /\ Becomes(s, Rerun(u)) /\ UNCHANGED <<server, queue>>
    BY <1>2, <1>3, <1>8, QuietStep
<1>9. CASE /\ u.pc = "waiting"
           /\ queue' = Abandoned(s) \/ NeverArrived(s)
           /\ Becomes(s, Rerun(u))
           /\ UNCHANGED server
    BY <1>3, <1>4, <1>9
<1> QED
    BY <1>5, <1>6, <1>7, <1>8, <1>9 DEF GiveUp
-----------------------------------------------------------------------------
(* The steps of the API *)

\* The page that the history handler sends.
LEMMA HistoryPageType ==
    ASSUME ServerType, NEW t \in Threads, NEW q \in Request, q.row \in Row
    PROVE  HistoryPage(t, q) \in Page /\ HistoryPage(t, q).thread = t
<1>1. L!Waiting(t) \in Actions
    BY DEF ServerType, L!Waiting, Actions
<1>2. q.row.owner_id \in Users
    BY DEF Row
<1> QED
    BY <1>1, <1>2 DEF HistoryPage, Page, Decidable, CanDecide, CanApprove

\* The session that waits for a history gets it, if it still waits.
LEMMA HistoryArrives ==
    ASSUME Inv, NEW t \in Threads, NEW i \in DOMAIN queue[t], AnswerHistory(t, i)
    PROVE  Inv'
<1> DEFINE q == queue[t][i]
           s == q.session
           u == ui[s]
           page == HistoryPage(t, q)
           x == Draws(u, page)
<1>1. /\ ServerType /\ QueuesType /\ UiType /\ CountersType
      /\ q.kind = "history" /\ queue' = Without(t, i)
      /\ UNCHANGED <<server, counters>>
      /\ \/ s = None /\ UNCHANGED ui
         \/ s # None /\ Becomes(s, x)
    BY Types DEF Inv, AnswerHistory
<1>2. q \in Request
    BY <1>1, ElementOfSeq, LenProperties DEF QueuesType
<1>3. Waits(q, t, ui) /\ Meant(q, t, owner, used)
    BY DEF Inv, RequestsInv
<1>4. s \in Sessions \union {None} /\ ~ q.running /\ q.row \in Row
    BY <1>1, <1>2, <1>3 DEF Meant, Request
<1>5. UNCHANGED <<owner, pending, decided, used>> /\ Grows(owner, used, owner', used')
    BY <1>1 DEF server, talk, Grows
<1>6. UiType' /\ SessionsInv'
    <2>1. CASE s = None
        BY <1>1, <1>5, <2>1, SessionsStay DEF Inv
    <2>2. CASE s # None
        <3>1. /\ u \in Session /\ Good(u, owner, used) /\ s \in Sessions
              /\ u.pc = "history" /\ u.choice = t /\ u.next = Absent
            BY <1>1, <1>3, <1>4, <2>2 DEF UiType, Inv, SessionsInv, Waits
        <3>2. page \in Page /\ page.thread = t
            BY <1>1, <1>2, <1>4, HistoryPageType
        <3> HIDE DEF u, page
        <3>3. /\ u.box = u.choice /\ t # None
              /\ u.click.kind # "none" => u.choice \in {None} \union u.click.seen
            BY <3>1, NoneAssumption DEF Good, Screen
        <3>4. u.target \in {None, u.asked} /\ u.target \in {None, u.choice}
            BY <3>1 DEF Good, Target
        <3>5. x \in Session /\ Good(x, owner, used)
            BY <3>1, <3>2, <3>3, <3>4, DrawnFor DEF Good
        <3>6. Good(x, owner', used')
            BY <1>5, <3>5
        <3> HIDE DEF x
        <3> QED
            BY <1>1, <1>5, <2>2, <3>1, <3>5, <3>6, SessionMoves DEF Inv
    <2> QED
        BY <2>1, <2>2
<1>7. QueuesType' /\ RequestsInv' /\ OneRequest'
    BY <1>1, <1>4, <1>5, Gone DEF Inv
<1>8. i = 1 => ~ decided[t]
    BY <1>4 DEF Inv, ServerInv, Holder
<1>9. ServerInv'
    BY <1>1, <1>5, <1>8, DecisionsHold DEF Inv, ServerInv
<1>10. ServerType' /\ CountersType'
    BY <1>1, CountersStay DEF ServerType, server, talk
<1>11. TypeOK'
    BY <1>6, <1>7, <1>10 DEF TypeOK, ServerType, QueuesType, UiType, CountersType
<1> QED
    BY <1>6, <1>7, <1>9, <1>11 DEF Inv

\* What the session does with the end of its request.
LEMMA Answering ==
    ASSUME NEW u \in Session, NEW owners, NEW drawn, Good(u, owners, drawn),
           NEW kind, NEW ok, NEW t,
           kind = "delete" /\ ok => owners[t] = None /\ u.choice = t /\ u.next = Absent
    PROVE  Answer(u, kind, ok) \in Session /\ Good(Answer(u, kind, ok), owners, drawn)
<1> DEFINE r == Rerun(u)
<1>1. /\ r \in Session /\ Good(r, owners, drawn) /\ r.pc = "lists"
      /\ r.page = u.page /\ r.click = NoClick /\ r.made = u.made /\ r.user = u.user
      /\ r.choice = u.choice
    BY Drawn, Restarted DEF Rerun, Session
<1>2. Answer(u, kind, ok) =
        IF kind = "delete" /\ ok THEN [r EXCEPT !.target = None, !.next = None] ELSE r
    BY DEF Answer
<1> HIDE DEF r
<1>3. CASE kind = "delete" /\ ok
    <2> DEFINE x == [r EXCEPT !.target = None, !.next = None]
    <2>1. /\ x.pc = "lists" /\ x.page = r.page /\ x.click = NoClick /\ x.target = None
          /\ x.next = None /\ x.made = u.made /\ x.user = u.user /\ x \in Session
        BY <1>1 DEF Session
    <2> HIDE DEF x
    <2>2. Screen(x)
        BY <1>1, <2>1 DEF Good, Screen, NoClick
    <2>3. Target(x)
        BY <2>1 DEF Target
    <2>4. Made(x, owners, drawn)
        BY <1>3, <2>1, NoneAssumption DEF Good, Made, Session
    <2> QED
        BY <1>2, <1>3, <2>1, <2>2, <2>3, <2>4 DEF Good, x
<1>4. CASE ~ (kind = "delete" /\ ok)
    BY <1>1, <1>2, <1>4
<1> QED
    BY <1>3, <1>4

\* The end of the request that holds the lock.
LEMMA Ended ==
    ASSUME Inv, NEW t \in Threads, queue[t] # <<>>, Holder(t).kind # "history", NEW ok \in BOOLEAN,
           Ends(t, ok), Grows(owner, used, owner', used'),
           Holder(t).kind = "delete" /\ ok => owner'[t] = None,
           ServerType', ~ decided'[t],
           \A tt \in Threads : /\ decided'[tt] => decided[tt] /\ pending'[tt] # None
                               /\ pending'[tt] # None => owner'[tt] # None
                               /\ owner'[tt] # None => tt \in used'
    PROVE  Inv'
<1> DEFINE q == queue[t][1]
           s == q.session
           u == ui[s]
<1>1. /\ ServerType /\ QueuesType /\ UiType /\ CountersType
      /\ queue' = [queue EXCEPT ![t] = Tail(@)] /\ UNCHANGED <<used, counters>>
      /\ \/ s = None /\ UNCHANGED ui
         \/ s # None /\ Becomes(s, Answer(u, q.kind, ok))
    BY Types DEF Inv, Ends, Holder
<1>2. 1 \in DOMAIN queue[t] /\ queue' = Without(t, 1)
    BY <1>1, HeadRemoved
<1>3. q \in Request
    BY <1>1, <1>2, ElementOfSeq, LenProperties DEF QueuesType
<1>4. Waits(q, t, ui)
    BY <1>2 DEF Inv, RequestsInv
<1>5. UiType' /\ SessionsInv'
    <2>1. CASE s = None
        BY <1>1, <2>1, SessionsStay DEF Inv
    <2>2. CASE s # None
        <3>1. s \in Sessions
            BY <1>3, <2>2 DEF Request
        <3>2. u \in Session /\ Good(u, owner, used)
            BY <1>1, <3>1 DEF UiType, Inv, SessionsInv
        <3>3. Made(u, owner', used')
            BY <3>2, MadeKept DEF Good
        <3>4. Good(u, owner', used')
            BY <3>2, <3>3 DEF Good
        <3>5. q.kind = "delete" /\ ok => owner'[t] = None /\ u.choice = t /\ u.next = Absent
            BY <1>4, <2>2 DEF Waits, Holder
        <3> HIDE DEF u
        <3>6. Answer(u, q.kind, ok) \in Session /\ Good(Answer(u, q.kind, ok), owner', used')
            BY <3>2, <3>4, <3>5, Answering
        <3> QED
            BY <1>1, <2>2, <3>1, <3>6, SessionMoves DEF Inv
    <2> QED
        BY <2>1, <2>2
<1>6. QueuesType' /\ RequestsInv' /\ OneRequest'
    BY <1>1, <1>2, Gone DEF Inv
<1>7. ServerInv'
    BY <1>1, <1>2, DecisionsHold DEF Inv
<1>8. TypeOK'
    BY <1>1, <1>5, <1>6, CountersStay
       DEF TypeOK, ServerType, QueuesType, UiType, CountersType
<1> QED
    BY <1>5, <1>6, <1>7, <1>8 DEF Inv

\* The fields that the steps of the API do not touch.
LEMMA ServerFrame ==
    ASSUME Inv
    PROVE  /\ ServerType /\ QueuesType /\ UiType
           /\ \A t \in Threads : /\ pending[t] # None => owner[t] # None
                                 /\ owner[t] # None => t \in used
                                 /\ decided[t] => /\ pending[t] # None /\ queue[t] # <<>>
                                                  /\ Holder(t).running
                                                  /\ Holder(t).kind = "decision"
BY Types DEF Inv, ServerInv

LEMMA Refusals == ASSUME Inv, NEW t \in Threads, Refuse(t) PROVE Inv'
<1>1. /\ queue[t] # <<>> /\ Holder(t).kind \in {"chat", "decision", "delete"}
      /\ ~ Holder(t).running /\ Ends(t, FALSE) /\ UNCHANGED <<owner, pending, decided, meta, used>>
    BY DEF Refuse, Serves, talk, Ends
<1>2. ServerType' /\ Grows(owner, used, owner', used')
    BY <1>1, ServerFrame DEF ServerType, Grows
<1> QED
    BY <1>1, <1>2, ServerFrame, Ended

LEMMA RunsStart ==
    ASSUME Inv, NEW t \in Threads, StartRun(t)
    PROVE  Inv'
<1>1. /\ queue[t] # <<>> /\ Holder(t).kind \in {"chat", "decision", "delete"}
      /\ queue' = [queue EXCEPT ![t][1].running = TRUE] /\ UNCHANGED <<used, meta, ui, counters>>
      /\ \/ Holder(t).kind = "chat" /\ L!Begin(t)
         \/ UNCHANGED talk
         \/ Holder(t).kind = "decision" /\ \E u \in Users : L!Decide(t, u)
         \/ Holder(t).kind = "delete" /\ L!Withdraw(t)
    <2>1. Holder(t) \in Request
        BY ServerFrame, HeadTailProperties DEF StartRun, Serves, Holder, QueuesType
    <2> QED
        BY <2>1 DEF StartRun, Serves, Request
<1>2. /\ owner' = owner
      /\ pending' \in [Threads -> Actions \union {None}]
      /\ decided' \in [Threads -> BOOLEAN]
      /\ \A tt \in Threads : pending'[tt] # None => owner[tt] # None
      /\ \A tt \in Threads : decided'[tt] =>
            /\ decided[tt] \/ (tt = t /\ Holder(t).kind = "decision")
            /\ pending'[tt] # None
    <2> USE ServerFrame DEF ServerType
    <2>1. CASE L!Begin(t)
        BY <2>1 DEF L!Begin, Actions
    <2>2. CASE UNCHANGED talk
        BY <2>2 DEF talk
    <2>3. CASE Holder(t).kind = "decision" /\ \E u \in Users : L!Decide(t, u)
        BY <2>3 DEF L!Decide, L!Waiting
    <2>4. CASE L!Withdraw(t)
        BY <2>4 DEF L!Withdraw
    <2> QED
        BY <1>1, <2>1, <2>2, <2>3, <2>4
<1>3. ServerType' /\ Grows(owner, used, owner', used')
    BY <1>1, <1>2, ServerFrame DEF ServerType, Grows
<1>4. /\ QueuesType' /\ RequestsInv' /\ OneRequest'
      /\ \A tt \in Threads \ {t} : queue'[tt] = queue[tt]
      /\ queue'[t] # <<>> /\ Holder(t)'.running /\ Holder(t)'.kind = Holder(t).kind
    BY <1>1, <1>3, ServerFrame, Started DEF Inv
<1>5. ServerInv'
    BY <1>1, <1>2, <1>4, ServerFrame DEF ServerInv, Holder
<1>6. UiType' /\ SessionsInv'
    BY <1>1, <1>3, ServerFrame, SessionsStay DEF Inv
<1>7. TypeOK'
    BY <1>1, <1>3, <1>4, <1>6, CountersStay, Types
       DEF Inv, TypeOK, ServerType, QueuesType, UiType, CountersType
<1> QED
    BY <1>4, <1>5, <1>6, <1>7 DEF Inv

LEMMA RunsEnd ==
    ASSUME Inv, NEW t \in Threads, NEW ok \in BOOLEAN,
           EndChat(t, ok) \/ EndDecision(t, ok) \/ EndDeletion(t)
    PROVE  Inv'
<1> USE ServerFrame DEF ServerType
<1>1. CASE EndChat(t, ok)
    <2>1. /\ queue[t] # <<>> /\ Holder(t).kind = "chat" /\ Ends(t, ok) /\ UNCHANGED used
          /\ UNCHANGED talk \/ \E commands \in Actions \ {{}} : L!Propose(t, commands)
          /\ Saves(t, None)
        BY <1>1 DEF EndChat, Serves, Ends
    <2>2. /\ UNCHANGED <<owner, decided>> /\ pending' \in [Threads -> Actions \union {None}]
          /\ \A tt \in Threads : /\ pending'[tt] # None => owner[tt] # None
                                 /\ decided[tt] => pending'[tt] # None
        <3>1. CASE UNCHANGED talk
            BY <3>1 DEF talk
        <3>2. CASE \E commands \in Actions \ {{}} : L!Propose(t, commands)
            BY <3>2, NoneAssumption DEF L!Propose, Users
        <3> QED
            BY <2>1, <3>1, <3>2
    <2>3. meta' \in [Threads -> [status : {"completed", "approval_required"},
                                reviewer_id : Users \union {None}]]
        BY <2>1 DEF Saves, StatusOf
    <2> QED
        BY <2>1, <2>2, <2>3, Ended DEF Grows
<1>2. CASE EndDecision(t, ok)
    <2>1. /\ queue[t] # <<>> /\ Holder(t).kind = "decision" /\ Ends(t, ok) /\ UNCHANGED used
          /\ \/ \E commands \in Actions : L!Settle(t, commands, FALSE)
             \/ L!Forget({t})
          /\ Saves(t, Holder(t).user)
        BY <1>2 DEF EndDecision, Serves, Ends
    <2>2. Holder(t).user \in Users
        <3>1. Holder(t) \in Request
            BY <2>1, HeadTailProperties DEF Holder, QueuesType
        <3> QED
            BY <3>1 DEF Request
    <2>3. /\ owner' = owner /\ pending' \in [Threads -> Actions \union {None}]
          /\ decided' \in [Threads -> BOOLEAN] /\ ~ decided'[t]
          /\ \A tt \in Threads : /\ pending'[tt] # None => owner[tt] # None
                                 /\ decided'[tt] => decided[tt] /\ pending'[tt] # None
        <3>1. CASE \E commands \in Actions : L!Settle(t, commands, FALSE)
            BY <3>1 DEF L!Settle
        <3>2. CASE L!Forget({t})
            BY <3>2 DEF L!Forget
        <3> QED
            BY <2>1, <3>1, <3>2
    <2>4. meta' \in [Threads -> [status : {"completed", "approval_required"},
                                reviewer_id : Users \union {None}]]
        BY <2>1, <2>2 DEF Saves, StatusOf
    <2> QED
        BY <2>1, <2>3, <2>4, Ended DEF Grows
<1>3. CASE EndDeletion(t)
    <2>1. /\ queue[t] # <<>> /\ Holder(t).kind = "delete" /\ Ends(t, TRUE) /\ UNCHANGED <<used, meta>>
          /\ L!Close(t)
        BY <1>3 DEF EndDeletion, Serves, Ends
    <2> QED
        BY <2>1, Ended DEF Grows, L!Close
<1> QED
    BY <1>1, <1>2, <1>3
-----------------------------------------------------------------------------
(* The invariant holds *)

LEMMA InitInv == Init => Inv
<1> SUFFICES ASSUME Init PROVE Inv
    OBVIOUS
<1> USE DEF Init, L!Init
<1>1. ASSUME NEW s \in Sessions PROVE ui[s] \in Session /\ Good(ui[s], owner, used)
    <2>1. PICK u \in Users :
             ui[s] = [user |-> u, choice |-> None, next |-> Absent, target |-> None,
                      box |-> None, saved |-> {}, options |-> {}, page |-> Blank,
                      click |-> NoClick, pc |-> "page",
                      made |-> None, asked |-> None]
        OBVIOUS
    <2>2. ui[s] \in Session
        BY <2>1, Drawn DEF Session
    <2>3. Good(ui[s], owner, used)
        BY <2>1 DEF Good, Screen, Target, Made, Blank, NoClick
    <2> QED
        BY <2>2, <2>3
<1>2. UiType /\ SessionsInv
    BY <1>1 DEF UiType, SessionsInv
<1>3. QueuesType /\ \A t \in Threads : DOMAIN queue[t] = {}
    BY EmptySeq, LenProperties DEF QueuesType
<1>4. RequestsInv /\ OneRequest
    BY <1>3 DEF RequestsInv, OneRequest
<1>5. ServerType /\ ServerInv /\ CountersType
    BY BoundsAssumption DEF ServerType, ServerInv, CountersType
<1> QED
    BY <1>2, <1>3, <1>4, <1>5, Types DEF Inv

LEMMA NextInv == Inv /\ [Next]_vars => Inv'
<1> SUFFICES ASSUME Inv, [Next]_vars PROVE Inv'
    OBVIOUS
<1>1. ASSUME NEW s \in Sessions, UserStep(s) \/ ScriptStep(s) \/ GiveUp(s) PROVE Inv'
    BY <1>1, UserSteps, ScriptSteps, GivingUp
<1>2. ASSUME NEW t \in Threads, ServerStep(t) PROVE Inv'
    BY <1>2, HistoryArrives, Refusals, RunsStart, RunsEnd DEF ServerStep
<1>3. CASE UNCHANGED vars
    BY <1>3 DEF vars, server, talk, counters, Inv, TypeOK, SessionsInv, RequestsInv, OneRequest,
                ServerInv, Holder
<1> QED
    BY <1>1, <1>2, <1>3 DEF Next

\* The strengthening of all that follows: what the screen, the browser and the
\* script say of the chat selected, who waits for what and which chats the user saw
\* when asking for it, also for runs that a click has stopped where they waited.
THEOREM Invariance == Spec => []Inv
BY InitInv, NextInv, PTL DEF Spec

\* Whatever sessions, answers and calls given up do to each other, a session only
\* shows, selects and asks for what the API can name, and the table
\* conversations keeps a status that its CHECK constraint accepts.
THEOREM TypeCorrectness == Spec => []TypeOK
<1>1. Inv => TypeOK
    BY DEF Inv
<1> QED
    BY <1>1, Invariance, PTL

\* A message, a decision or a deletion goes to a chat that was on the screen at the
\* click, that of the page or the one selected beside it, although the page is
\* fetched again in between (ui/app.py:90-94, 170-185).  Clicks on a page that a run
\* in progress has not replaced yet are included; the two are then the same chat
\* only once the run has ended.
THEOREM ClicksAreMeant == Spec => []ClicksStayOnTheScreen
<1>1. Inv => ClicksStayOnTheScreen
    <2> SUFFICES ASSUME Inv PROVE ClicksStayOnTheScreen
        OBVIOUS
    <2>1. \A t \in Threads : \A i \in DOMAIN queue[t] :
             queue[t][i].kind # "history" => t \in queue[t][i].seen
        BY DEF Inv, RequestsInv, Meant
    <2>2. \A s \in Sessions :
             ui[s].pc = "page" /\ ui[s].page # Stopped => ui[s].page.thread = ui[s].box
        BY DEF Inv, SessionsInv, Good, Screen
    <2> QED
        BY <2>1, <2>2 DEF ClicksStayOnTheScreen
<1> QED
    BY <1>1, Invariance, PTL

\* Only the chat whose deletion was asked for, and that was not left since, is
\* deleted (ui/app.py:112-113, 132-159).
THEOREM DeletionsAreMeant == Spec => []DeletionsAreConfirmed
<1>1. Inv => DeletionsAreConfirmed
    BY DEF Inv, RequestsInv, Meant, DeletionsAreConfirmed
<1> QED
    BY <1>1, Invariance, PTL

\* A chat that a message has created and the page has learned of stays on the screen
\* until the user leaves it, whatever became of the message (ui/app.py:178-184).
THEOREM NewChatsAreShown == Spec => []NewChatIsShown
<1>1. Inv => NewChatIsShown
    <2> SUFFICES ASSUME Inv, NEW s \in Sessions, ui[s].pc = "page", ui[s].page # Stopped,
                        ui[s].made # None, owner[ui[s].made] # None
                 PROVE  ui[s].page.thread = ui[s].made
        BY DEF NewChatIsShown
    <2>1. ui[s] \in Session /\ Screen(ui[s]) /\ Made(ui[s], owner, used)
        BY DEF Inv, TypeOK, SessionsInv, Good
    <2> QED
        BY <2>1, NoneAssumption DEF Screen, Made, Session
<1> QED
    BY <1>1, Invariance, PTL

\* A session receives a history from the API only, all other steps leave it
\* waiting or take it elsewhere.
LEMMA HistoriesArrive ==
    ASSUME Inv, Next, NEW s \in Sessions, ui[s].pc = "history", ui'[s].pc = "act"
    PROVE  \E t \in Threads : \E i \in DOMAIN queue[t] :
              AnswerHistory(t, i) /\ queue[t][i].session = s
<1>1. ui \in [Sessions -> Session]
    BY DEF Inv, TypeOK
<1>2. ASSUME NEW ss \in Sessions, NEW x, Becomes(ss, x) PROVE ss = s /\ x.pc = "act"
    BY <1>1, <1>2 DEF Becomes
<1>3. ui' # ui
    OBVIOUS
<1>4. ASSUME NEW x \in Session
      PROVE  /\ Rerun(x).pc = "lists" /\ Clicked(x).pc = "lists" /\ ToNewChat(x).pc = "lists"
             /\ Rerun(x) \in Session /\ Clicked(x) \in Session /\ ToNewChat(x) \in Session
             /\ \A page : Shows(x, page).pc = "page"
    <2>1. Rerun(x) \in Session /\ Clicked(x) \in Session /\ ToNewChat(x) \in Session
        BY <1>4, Drawn
    <2>2. Clicked(x).pc = "lists"
        BY <1>4, ClickedFields
    <2>3. ToNewChat(x).pc = "lists"
        BY <2>1, <2>2 DEF ToNewChat, Session
    <2>4. Rerun(x).pc = "lists" /\ \A page : Shows(x, page).pc = "page"
        BY <1>4 DEF Rerun, Shows, Session
    <2> QED
        BY <2>1, <2>2, <2>3, <2>4
<1>5. ASSUME NEW ss \in Sessions, UserStep(ss) PROVE FALSE
    <2>1. /\ Clicked(ui[ss]) \in Session /\ Clicked(ui[ss]).pc = "lists"
          /\ ToNewChat(ui[ss]) \in Session /\ ToNewChat(ui[ss]).pc = "lists"
        BY <1>1, <1>4
    <2> DEFINE c == Clicked(ui[ss])
               n == ToNewChat(ui[ss])
    <2>2. \E x : Becomes(ss, x) /\ x.pc = "lists"
        <3> HIDE DEF c, n
        <3>1. \A v : [n EXCEPT !.user = v, !.next = Absent].pc = "lists"
            BY <2>1 DEF Session, n
        <3>2. \A t : [c EXCEPT !.choice = t, !.box = t, !.made = None].pc = "lists"
            BY <2>1 DEF Session, c
        <3>3. \A k : [c EXCEPT !.click = k].pc = "lists"
            BY <2>1 DEF Session, c
        <3>4. n.pc = "lists"
            BY <2>1 DEF n
        <3> QED
            BY <1>5, <3>1, <3>2, <3>3, <3>4
               DEF UserStep, SelectProfile, NewChat, ChooseChat, Press, Acts, c, n
    <2> QED
        BY <1>2, <2>2
<1>6. ASSUME NEW ss \in Sessions, ScriptStep(ss) \/ GiveUp(ss) PROVE FALSE
    <2>1. \E x : Becomes(ss, x)
        BY <1>6 DEF ScriptStep, FetchSaved,
                    FetchApprovals, FetchRow, AskDeletion, CancelDeletion, ConfirmDeletion,
                    Decide, SendMessage, StartNewChat, ChatCreated, SendFirstMessage,
                    CreationFails, Display, Post, GiveUp
    <2>2. ss = s
        BY <1>2, <2>1
    <2>3. CASE ScriptStep(s)
        BY <2>3 DEF ScriptStep, FetchSaved,
                    FetchApprovals, FetchRow, AskDeletion, CancelDeletion, ConfirmDeletion,
                    Decide, SendMessage, StartNewChat, ChatCreated, SendFirstMessage,
                    CreationFails, Display, Handles, Message
    <2>4. CASE GiveUp(s)
        <3>1. Becomes(s, Shows(ui[s], Stopped))
            BY <2>4 DEF GiveUp
        <3> QED
            BY <1>1, <1>2, <1>4, <3>1
    <2> QED
        BY <1>6, <2>2, <2>3, <2>4
<1>7. ASSUME NEW t \in Threads, NEW ok, queue[t] # <<>>, Ends(t, ok) PROVE FALSE
    <2> DEFINE q == Holder(t)
               ss == q.session
               x == Answer(ui[ss], q.kind, ok)
    <2>1. ss # None /\ Becomes(ss, x)
        BY <1>3, <1>7 DEF Ends
    <2>2. q \in Request
        BY <1>7, ServerFrame, HeadTailProperties DEF Holder, QueuesType
    <2>3. ss \in Sessions
        BY <2>1, <2>2 DEF Request
    <2>4. ui[ss] \in Session
        BY <1>1, <2>3
    <2>5. x.pc = "lists"
        <3> DEFINE r == Rerun(ui[ss])
        <3>1. r.pc = "lists" /\ r \in Session
            BY <1>4, <2>4
        <3> HIDE DEF r
        <3>2. [r EXCEPT !.target = None, !.next = None].pc = "lists"
            BY <3>1 DEF Session
        <3> QED
            BY <3>1, <3>2 DEF Answer, r
    <2> QED
        BY <1>2, <2>1, <2>3, <2>5
<1>8. PICK t \in Threads : ServerStep(t)
    BY <1>5, <1>6 DEF Next
<1>9. PICK i \in DOMAIN queue[t] : AnswerHistory(t, i)
    BY <1>3, <1>7, <1>8
       DEF ServerStep, Refuse, StartRun, EndChat, EndDecision, EndDeletion, Serves
<1>10. queue[t][i].session # None
    BY <1>3, <1>9 DEF AnswerHistory
<1>11. queue[t][i].session \in Sessions
    <2>1. queue[t][i] \in Request
        BY ServerFrame, ElementOfSeq, LenProperties DEF QueuesType
    <2> QED
        BY <1>10, <2>1 DEF Request
<1>12. queue[t][i].session = s
    BY <1>2, <1>9, <1>10, <1>11 DEF AnswerHistory
<1> QED
    BY <1>9, <1>12

\* What a page offers for a decision waits for one, and this user may take it,
\* although the row was read before the lock and the actions after
\* (api/main.py:224-238).
THEOREM OffersStandOpen == Spec => OffersAreOpen
<1>1. Inv /\ [Next]_vars => [\A s \in Sessions :
          (ui[s].pc = "history" /\ ui'[s].pc = "act" /\ ui'[s].page.can_decide = TRUE) =>
             LET t == ui'[s].page.thread
             IN  /\ ui'[s].page.actions = L!Waiting(t)
                 /\ ~ decided[t] /\ L!MayDecide(ui[s].user, t)]_vars
    <2> SUFFICES ASSUME Inv, Next, NEW s \in Sessions,
                        ui[s].pc = "history", ui'[s].pc = "act", ui'[s].page.can_decide = TRUE
                 PROVE  /\ ui'[s].page.actions = L!Waiting(ui'[s].page.thread)
                        /\ ~ decided[ui'[s].page.thread]
                        /\ L!MayDecide(ui[s].user, ui'[s].page.thread)
        OBVIOUS
    <2>1. PICK t \in Threads : \E i \in DOMAIN queue[t] :
             AnswerHistory(t, i) /\ queue[t][i].session = s
        BY HistoriesArrive
    <2>2. PICK i \in DOMAIN queue[t] : AnswerHistory(t, i) /\ queue[t][i].session = s
        BY <2>1
    <2> DEFINE q == queue[t][i]
               page == HistoryPage(t, q)
    <2>3. i = 1 /\ q.kind = "history" /\ Becomes(s, Draws(ui[s], page))
        BY <2>2, NoneAssumption DEF AnswerHistory, HistoryTurn
    <2>4. ui'[s].page = page /\ ui[s] \in Session
        BY <2>3 DEF Becomes, Draws, Inv, TypeOK, Session
    <2>5. /\ Meant(q, t, owner, used) /\ ui[s].user = q.user
          /\ owner[t] \in {None, q.row.owner_id} /\ ~ q.running /\ q.row \in Row
        BY <2>2, <2>3, NoneAssumption DEF Inv, RequestsInv, Waits, Meant
    <2>6. ~ decided[t]
        BY <2>3, <2>5, ServerFrame DEF Holder
    <2>7. /\ page.thread = t /\ page.actions = L!Waiting(t)
          /\ Decidable(q, L!Waiting(t))
        BY <2>4 DEF HistoryPage
    <2>8. owner[t] # None
        BY <2>7, ServerFrame DEF Decidable, L!Waiting
    <2>9. L!MayDecide(q.user, t)
        BY <2>5, <2>7, <2>8
           DEF Decidable, CanDecide, CanApprove, CanReadConversation, OwnerIsOperator, Profile,
               L!MayDecide
    <2> QED
        BY <2>4, <2>5, <2>6, <2>7, <2>9
<1> QED
    BY <1>1, Invariance, PTL DEF Spec, OffersAreOpen

-----------------------------------------------------------------------------
(* The server of the pages *)

\* Who is served is a user.
LEMMA ServedUser ==
    ASSUME Inv, NEW t \in Threads, queue[t] # <<>>
    PROVE  Holder(t).user \in Users
<1>1. queue[t] \in Seq(Request)
    BY ServerFrame DEF QueuesType
<1>2. Holder(t) \in Request
    BY <1>1, HeadTailProperties DEF Holder
<1> QED
    BY <1>2 DEF Request

\* A step of the lifecycle that leaves approvals, incidents and audits alone.
LEMMA LifecycleSteps ==
    ASSUME NEW t \in Threads
    PROVE  /\ \A u \in Users : L!Open(t, u) => L!Next
           /\ \A u \in Users : L!Decide(t, u) => L!Next
           /\ \A commands \in Actions : L!Propose(t, commands) => L!Next
           /\ \A commands \in Actions : L!Settle(t, commands, FALSE) => L!Next
           /\ L!Begin(t) \/ L!Withdraw(t) \/ L!Close(t) \/ L!Forget({t}) => L!Next
<1>0. L!Users = Users
    BY DEF L!Users, Users
<1>1. ASSUME NEW u \in Users, L!Open(t, u) PROVE L!Next
    BY <1>0, <1>1, Zenon DEF L!Next
<1>2. ASSUME NEW u \in Users, L!Decide(t, u) PROVE L!Next
    <2>1. {}' \in {{}, {} \union {L!Approval(t, u)}}
        OBVIOUS
    <2> QED
        BY <1>0, <1>2, <2>1, Zenon DEF L!Next
<1>3. \A commands \in Actions : L!Propose(t, commands) => L!Next
    BY DEF L!Next, Actions
<1>4. \A commands \in Actions : L!Settle(t, commands, FALSE) => L!Next
    BY DEF L!Next, Actions
<1>5. L!Begin(t) \/ L!Withdraw(t) \/ L!Close(t) => L!Next
    BY DEF L!Next
<1>6. L!Forget({t}) => L!Next
    BY DEF L!Next
<1> QED
    BY <1>1, <1>2, <1>3, <1>4, <1>5, <1>6

\* The pages talk to the lifecycle that ConversationApi implements, whatever is
\* clicked, given up or answered late.
THEOREM ServerIsLifecycle == Spec => L!Spec
<1>1. Init => L!Init
    BY DEF Init
<1>2. Inv /\ [Next]_vars => [L!Next]_(L!vars)
    <2> SUFFICES ASSUME Inv, [Next]_vars PROVE L!Next \/ UNCHANGED talk
        BY DEF L!vars, L!talk, talk
    <2>1. ASSUME NEW s \in Sessions, NEW t \in Threads, Creates(ui[s].user, t) PROVE L!Next
        <3>1. ui[s].user \in Users
            BY DEF Inv, TypeOK, Session
        <3> QED
            BY <2>1, <3>1, LifecycleSteps DEF Creates
    <2>2. ASSUME NEW s \in Sessions, UserStep(s) \/ ScriptStep(s) \/ GiveUp(s)
          PROVE  L!Next \/ UNCHANGED talk
        <3>1. ASSUME NEW x, Acts(s, x) PROVE L!Next \/ UNCHANGED talk
            BY <2>1, <3>1 DEF Acts, server
        <3>2. CASE UserStep(s)
            BY <3>1, <3>2 DEF UserStep, SelectProfile, NewChat, ChooseChat, Press
        <3>3. CASE ScriptStep(s) \/ GiveUp(s)
            BY <2>1, <3>3
               DEF ScriptStep, GiveUp, FetchSaved, FetchApprovals, FetchRow, AskDeletion,
                   CancelDeletion, ConfirmDeletion, Decide, Post, SendMessage, StartNewChat,
                   ChatCreated, SendFirstMessage, CreationFails, Display, server
        <3> QED
            BY <2>2, <3>2, <3>3
    <2>3. ASSUME NEW t \in Threads, ServerStep(t) PROVE L!Next \/ UNCHANGED talk
        <3>1. CASE Refuse(t) \/ \E i \in DOMAIN queue[t] : AnswerHistory(t, i)
            BY <3>1 DEF Refuse, AnswerHistory, server
        <3>2. CASE StartRun(t)
            BY <3>2, ServedUser, LifecycleSteps DEF StartRun, Serves
        <3>3. ASSUME NEW ok \in BOOLEAN, EndChat(t, ok) \/ EndDecision(t, ok)
              PROVE  L!Next \/ UNCHANGED talk
            BY <3>3, LifecycleSteps DEF EndChat, EndDecision
        <3>4. CASE EndDeletion(t)
            BY <3>4, LifecycleSteps DEF EndDeletion
        <3> QED
            BY <2>3, <3>1, <3>2, <3>3, <3>4 DEF ServerStep
    <2> QED
        BY <2>2, <2>3 DEF Next, vars, server
<1> QED
    BY <1>1, <1>2, Invariance, PTL DEF Spec, L!Spec
===============================================================================
