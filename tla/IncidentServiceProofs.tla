------------------------ MODULE IncidentServiceProofs ------------------------
(***************************************************************************)
(* Proofs about IncidentService, for any sets of calls, keys, orders,      *)
(* reasons and users.                                                      *)
(*                                                                         *)
(* The inductive invariant comes in three layers, each proved from the     *)
(* previous ones: Typing (types and what a call knows at each step),       *)
(* Transactions (what open transactions hold, and who may hold a key),     *)
(* Stored (what committed rows and answers say).                           *)
(***************************************************************************)
EXTENDS IncidentService, TLAPS

BodyPCs == {"read_order", "insert", "select", "add_audit", "commit"}

\* What a call knows: its command once started, an approver while it runs, no
\* result before it leaves, an incident of another call or of its own once the
\* SELECT has returned and the contents have been compared.
CallState ==
    \A c \in Calls :
       /\ pc[c] \in {"idle"} \union BodyPCs => result[c] = None
       /\ pc[c] \in BodyPCs => cmd[c] \in Request /\ cmd[c].user \in Approvers
       /\ pc[c] \in {"add_audit", "commit"} => found[c] \in R!Incident \ Seeded

Typing == TypeOK /\ CallState

\* An open transaction holds at most the row and the audit of its own call.
OwnRows ==
    \A c \in Calls :
       /\ \A r \in tx_incidents[c] : r = R!IncidentOf(c, cmd[c])
       /\ pc[c] \in {"idle", "read_order", "insert", "done"} => tx_incidents[c] = {}
       /\ pc[c] \notin {"commit", "exit"} => tx_audits[c] = {}
       /\ pc[c] = "commit" => tx_audits[c] = {AuditRow(c)}

\* A call whose identifier is stored has left its body.
StoredCallsLeft ==
    /\ \A inc \in incidents \ Seeded : pc[inc.incident_id] \in {"exit", "done"}
    /\ \A a \in audits : pc[a.id] \in {"exit", "done"}

\* A key belongs to one committed row or to one open transaction.
KeyExclusive ==
    /\ \A r, s \in incidents : r.idempotency_key = s.idempotency_key => r = s
    /\ \A c \in Calls : \A r \in tx_incidents[c], s \in incidents :
          r.idempotency_key # s.idempotency_key
    /\ \A c, d \in Calls : \A r \in tx_incidents[c], s \in tx_incidents[d] :
          r.idempotency_key = s.idempotency_key => c = d

\* After the upsert the key is visible; what was selected stays visible.
SelectFinds ==
    \A c \in Calls :
       /\ pc[c] = "select" => Selected(c) # {}
       /\ pc[c] \in {"add_audit", "commit"} =>
             found[c] \in Selected(c) /\ SameContent(c, found[c])

Transactions == OwnRows /\ StoredCallsLeft /\ KeyExclusive /\ SelectFinds

Stored == AuditMatchesIncidents /\ TruthfulAnswer

IInv == Typing /\ Transactions /\ AssertionHolds /\ Stored

-----------------------------------------------------------------------------

\* The orders change under the calls: the seed script writes one, or another
\* program cancels one.
OrderChanges(o) ==
    OrderCancelled(o) \/ \E status \in OrderStatuses \ {"absent"} : OrderSeeded(o, status)

\* A row that a call inserts is not one of the seed script: it has another
\* identifier.
LEMMA OwnRowIsNew ==
    ASSUME NEW c \in Calls, NEW com PROVE R!IncidentOf(c, com) \notin Seeded
BY SeededAssumption DEF R!SeededRows, R!IncidentOf

LEMMA InitTyping == Init => Typing
BY DEF Init, R!Init, R!Incident, Typing, TypeOK, CallState, PCs, Results, BodyPCs

\* Only ReadOrder .. Exit change the program counter of a call that has
\* started; every action keeps types and what calls know.
LEMMA NextTyping == Typing /\ [Next]_vars => Typing'
<1> SUFFICES ASSUME Typing, [Next]_vars PROVE Typing'
    OBVIOUS
<1> USE ApproversAssumption
<1> USE DEF Typing, TypeOK, CallState, PCs, Results, Answers, Errors, BodyPCs, dbVars
<1>1. ASSUME NEW c \in Calls, Start(c) PROVE Typing'
    BY <1>1 DEF Start, MayCreate, Request
<1>2. ASSUME NEW c \in Calls, ReadOrder(c) PROVE Typing'
    BY <1>2 DEF ReadOrder, Leave
<1>3. ASSUME NEW c \in Calls, Insert(c) PROVE Typing'
    <2>1. R!IncidentOf(c, cmd[c]) \in R!Incident
        BY <1>3 DEF Insert, Goto, Request, R!IncidentOf, R!Incident
    <2> QED
        BY <1>3, <2>1 DEF Insert, Goto
<1>4. ASSUME NEW c \in Calls, Select(c) PROVE Typing'
    <2>1. Selected(c) \subseteq R!Incident
        BY DEF Selected, Visible, R!WithKey
    <2>2. \A inc \in Selected(c) : SameContent(c, inc) => inc \in R!Incident \ Seeded
        BY <2>1 DEF SameContent, R!SameContent
    <2> QED
        BY <1>4, <2>1, <2>2 DEF Select, Leave
<1>5. ASSUME NEW c \in Calls, AddAudit(c) PROVE Typing'
    <2>1. AuditRow(c) \in R!Audit
        BY <1>5 DEF AddAudit, Goto, AuditRow, Outcome, Request,
                    R!AuditOf, R!Audit, R!Incident
    <2> QED
        BY <1>5, <2>1 DEF AddAudit, Goto
<1>6. ASSUME NEW c \in Calls, Commit(c) PROVE Typing'
    BY <1>6 DEF Commit, ApplyCommit, Leave, Outcome
<1>7. ASSUME NEW c \in Calls, CommitAnswerLost(c) PROVE Typing'
    BY <1>7 DEF CommitAnswerLost, ApplyCommit, Leave
<1>8. ASSUME NEW c \in Calls, DbFailure(c) PROVE Typing'
    BY <1>8 DEF DbFailure, Leave
<1>9. ASSUME NEW c \in Calls, Interrupted(c) PROVE Typing'
    BY <1>9 DEF Interrupted, Leave
<1>10. ASSUME NEW c \in Calls, Exit(c) PROVE Typing'
    BY <1>10 DEF Exit, Goto
<1>11. ASSUME NEW o \in Orders, OrderChanges(o) PROVE Typing'
    BY <1>11 DEF OrderChanges, OrderSeeded, OrderCancelled, OrderStatuses
<1>12. CASE UNCHANGED vars
    BY <1>12 DEF vars
<1> QED
    BY <1>1, <1>2, <1>3, <1>4, <1>5, <1>6, <1>7, <1>8, <1>9, <1>10, <1>11, <1>12
       DEF Next, CallStep, Statement, OrderChanges

\* The state always has its declared types (every variable of the service and
\* of the database tables it writes).
THEOREM TypeCorrect == Spec => []TypeOK
<1>1. Typing => TypeOK
    BY DEF Typing
<1> QED
    BY <1>1, InitTyping, NextTyping, PTL DEF Spec

-----------------------------------------------------------------------------

LEMMA InitTransactions == Init => Transactions
BY SeededAssumption
   DEF Init, R!Init, R!SeededRows, Transactions, OwnRows, StoredCallsLeft, KeyExclusive,
       SelectFinds

LEMMA NextTransactions ==
    Typing /\ Typing' /\ Transactions /\ [Next]_vars => Transactions'
<1> SUFFICES ASSUME Typing, Typing', Transactions, [Next]_vars PROVE Transactions'
    OBVIOUS
<1>11. ASSUME NEW o \in Orders, OrderChanges(o) PROVE Transactions'
    BY <1>11 DEF OrderChanges, OrderSeeded, OrderCancelled, dbVars, Transactions, OwnRows,
       AuditRow, Outcome, Created, StoredCallsLeft, KeyExclusive, SelectFinds, Selected,
       Visible, SameContent
<1>12. CASE UNCHANGED vars
    BY <1>12 DEF vars, dbVars, Transactions, OwnRows, AuditRow,
       Outcome, Created, StoredCallsLeft, KeyExclusive, SelectFinds, Selected, Visible,
       SameContent
<1> USE DEF Typing, TypeOK, CallState, BodyPCs, Transactions, dbVars
<1>1. ASSUME NEW c \in Calls, Start(c) PROVE Transactions'
    <2>1. OwnRows'
        BY <1>1 DEF Start, MayCreate,
                    OwnRows, AuditRow, Outcome, Created, R!IncidentOf
    <2>2. StoredCallsLeft'
        BY <1>1 DEF Start, MayCreate,
                    OwnRows, StoredCallsLeft, AuditRow, R!AuditOf, R!IncidentOf,
                    R!Incident, R!Audit
    <2>3. KeyExclusive'
        BY <1>1 DEF Start, MayCreate,
                    OwnRows, KeyExclusive, R!IncidentOf
    <2>4. SelectFinds'
        BY <1>1 DEF Start, MayCreate,
                    SelectFinds, Selected, Visible, SameContent, R!WithKey
    <2> QED
        BY <2>1, <2>2, <2>3, <2>4 DEF Transactions
<1>2. ASSUME NEW c \in Calls, ReadOrder(c) PROVE Transactions'
    <2>1. OwnRows'
        BY <1>2 DEF ReadOrder, Leave,
                    OwnRows, AuditRow, Outcome, Created, R!IncidentOf
    <2>2. StoredCallsLeft'
        BY <1>2 DEF ReadOrder, Leave,
                    OwnRows, StoredCallsLeft, AuditRow, R!AuditOf, R!IncidentOf,
                    R!Incident, R!Audit
    <2>3. KeyExclusive'
        BY <1>2 DEF ReadOrder, Leave,
                    OwnRows, KeyExclusive, R!IncidentOf
    <2>4. SelectFinds'
        BY <1>2 DEF ReadOrder, Leave,
                    SelectFinds, Selected, Visible, SameContent, R!WithKey
    <2> QED
        BY <2>1, <2>2, <2>3, <2>4 DEF Transactions
<1>3. ASSUME NEW c \in Calls, Insert(c) PROVE Transactions'
    <2>1. OwnRows'
        BY <1>3 DEF Insert, Goto,
                    OwnRows, AuditRow, Outcome, Created, R!IncidentOf
    <2>2. StoredCallsLeft'
        BY <1>3 DEF Insert, Goto,
                    OwnRows, StoredCallsLeft, AuditRow, R!AuditOf, R!IncidentOf,
                    R!Incident, R!Audit
    <2> DEFINE row == R!IncidentOf(c, cmd[c])
               key == cmd[c].idempotency_key
    <2>3. row.idempotency_key = key /\ row \in R!Incident
        BY <1>3 DEF Insert, Goto, Typing, TypeOK, CallState, BodyPCs, Request,
                    R!IncidentOf, R!Incident
    <2>4. \A d \in Calls \ {c} : \A r \in tx_incidents[d] : r.idempotency_key # key
        BY <1>3 DEF Insert, KeyHeldByOther, R!WithKey
    <2>5. tx_incidents[c] = {}
        BY <1>3 DEF Insert, Goto, Transactions, OwnRows
    <2>6. R!WithKey(Visible(c), key) = {s \in incidents : s.idempotency_key = key}
        BY <2>5 DEF Visible, R!WithKey
    <2>7. ASSUME ~ KeyTaken(c) PROVE KeyExclusive' /\ SelectFinds'
        <3>1. tx_incidents' = [tx_incidents EXCEPT ![c] = {row}]
            BY <1>3, <2>5, <2>7 DEF Insert
        <3>2. \A d \in Calls \ {c} : tx_incidents'[d] = tx_incidents[d]
            BY <3>1
        <3>3. tx_incidents'[c] = {row}
            BY <3>1 DEF Typing, TypeOK
        <3>4. incidents' = incidents /\ cmd' = cmd /\ found' = found
            BY <1>3 DEF Insert, dbVars
        <3>5. \A s \in incidents : s.idempotency_key # key
            BY <2>6, <2>7 DEF KeyTaken
        <3>6. KeyExclusive'
            <4> HIDE DEF Typing, TypeOK, CallState, BodyPCs, dbVars
            <4> QED
                BY <2>3, <2>4, <3>2, <3>3, <3>4, <3>5 DEF Transactions, KeyExclusive
        <3>7. row \in Selected(c)'
            BY <2>3, <3>3, <3>4 DEF Selected, Visible, R!WithKey
        <3>8. SelectFinds'
            BY <1>3, <3>2, <3>4, <3>7
               DEF Insert, Goto, Typing, TypeOK, Transactions, SelectFinds,
                   Selected, Visible, SameContent
        <3> QED
            BY <3>6, <3>8
    <2>8. ASSUME KeyTaken(c) PROVE KeyExclusive' /\ SelectFinds'
        <3>1. tx_incidents' = tx_incidents /\ UNCHANGED <<incidents, cmd, found>>
            BY <1>3, <2>8 DEF Insert, dbVars
        <3> QED
            BY <1>3, <2>5, <2>8, <3>1
               DEF KeyTaken, Insert, Goto, Typing, TypeOK, Transactions, KeyExclusive,
                   SelectFinds, Selected, Visible, SameContent
    <2>9. KeyExclusive' /\ SelectFinds'
        BY <2>7, <2>8
    <2> QED
        BY <2>1, <2>2, <2>9 DEF Transactions
<1>4. ASSUME NEW c \in Calls, Select(c) PROVE Transactions'
    <2>1. OwnRows'
        BY <1>4 DEF Select, Leave,
                    OwnRows, AuditRow, Outcome, Created, R!IncidentOf
    <2>2. StoredCallsLeft'
        BY <1>4 DEF Select, Leave,
                    OwnRows, StoredCallsLeft, AuditRow, R!AuditOf, R!IncidentOf,
                    R!Incident, R!Audit
    <2>3. KeyExclusive'
        BY <1>4 DEF Select, Leave,
                    OwnRows, KeyExclusive, R!IncidentOf
    <2>4. SelectFinds'
        BY <1>4 DEF Select, Leave,
                    SelectFinds, Selected, Visible, SameContent, R!WithKey
    <2> QED
        BY <2>1, <2>2, <2>3, <2>4 DEF Transactions
<1>5. ASSUME NEW c \in Calls, AddAudit(c) PROVE Transactions'
    <2>1. OwnRows'
        BY <1>5 DEF AddAudit, Goto,
                    OwnRows, AuditRow, Outcome, Created, R!IncidentOf
    <2>2. StoredCallsLeft'
        BY <1>5 DEF AddAudit, Goto,
                    OwnRows, StoredCallsLeft, AuditRow, R!AuditOf, R!IncidentOf,
                    R!Incident, R!Audit
    <2>3. KeyExclusive'
        BY <1>5 DEF AddAudit, Goto,
                    OwnRows, KeyExclusive, R!IncidentOf
    <2>4. SelectFinds'
        BY <1>5 DEF AddAudit, Goto,
                    SelectFinds, Selected, Visible, SameContent, R!WithKey
    <2> QED
        BY <2>1, <2>2, <2>3, <2>4 DEF Transactions
<1>6. ASSUME NEW c \in Calls, Commit(c) PROVE Transactions'
    <2>1. OwnRows'
        BY <1>6 DEF Commit, ApplyCommit, Leave,
                    OwnRows, AuditRow, Outcome, Created, R!IncidentOf
    <2>2. StoredCallsLeft'
        BY <1>6 DEF Commit, ApplyCommit, Leave,
                    OwnRows, StoredCallsLeft, AuditRow, R!AuditOf, R!IncidentOf,
                    R!Incident, R!Audit
    <2>3. KeyExclusive'
        BY <1>6 DEF Commit, ApplyCommit, Leave,
                    OwnRows, KeyExclusive, R!IncidentOf
    <2>4. SelectFinds'
        BY <1>6 DEF Commit, ApplyCommit, Leave,
                    SelectFinds, Selected, Visible, SameContent, R!WithKey
    <2> QED
        BY <2>1, <2>2, <2>3, <2>4 DEF Transactions
<1>7. ASSUME NEW c \in Calls, CommitAnswerLost(c) PROVE Transactions'
    <2>1. OwnRows'
        BY <1>7 DEF CommitAnswerLost, ApplyCommit, Leave,
                    OwnRows, AuditRow, Outcome, Created, R!IncidentOf
    <2>2. StoredCallsLeft'
        BY <1>7 DEF CommitAnswerLost, ApplyCommit, Leave,
                    OwnRows, StoredCallsLeft, AuditRow, R!AuditOf, R!IncidentOf,
                    R!Incident, R!Audit
    <2>3. KeyExclusive'
        BY <1>7 DEF CommitAnswerLost, ApplyCommit, Leave,
                    OwnRows, KeyExclusive, R!IncidentOf
    <2>4. SelectFinds'
        BY <1>7 DEF CommitAnswerLost, ApplyCommit, Leave,
                    SelectFinds, Selected, Visible, SameContent, R!WithKey
    <2> QED
        BY <2>1, <2>2, <2>3, <2>4 DEF Transactions
<1>8. ASSUME NEW c \in Calls, DbFailure(c) PROVE Transactions'
    <2>1. OwnRows'
        BY <1>8 DEF DbFailure, InBody, Leave,
                    OwnRows, AuditRow, Outcome, Created, R!IncidentOf
    <2>2. StoredCallsLeft'
        BY <1>8 DEF DbFailure, InBody, Leave,
                    OwnRows, StoredCallsLeft, AuditRow, R!AuditOf, R!IncidentOf,
                    R!Incident, R!Audit
    <2>3. KeyExclusive'
        BY <1>8 DEF DbFailure, InBody, Leave,
                    OwnRows, KeyExclusive, R!IncidentOf
    <2>4. SelectFinds'
        BY <1>8 DEF DbFailure, InBody, Leave,
                    SelectFinds, Selected, Visible, SameContent, R!WithKey
    <2> QED
        BY <2>1, <2>2, <2>3, <2>4 DEF Transactions
<1>9. ASSUME NEW c \in Calls, Interrupted(c) PROVE Transactions'
    <2>1. OwnRows'
        BY <1>9 DEF Interrupted, InBody, Leave,
                    OwnRows, AuditRow, Outcome, Created, R!IncidentOf
    <2>2. StoredCallsLeft'
        BY <1>9 DEF Interrupted, InBody, Leave,
                    OwnRows, StoredCallsLeft, AuditRow, R!AuditOf, R!IncidentOf,
                    R!Incident, R!Audit
    <2>3. KeyExclusive'
        BY <1>9 DEF Interrupted, InBody, Leave,
                    OwnRows, KeyExclusive, R!IncidentOf
    <2>4. SelectFinds'
        BY <1>9 DEF Interrupted, InBody, Leave,
                    SelectFinds, Selected, Visible, SameContent, R!WithKey
    <2> QED
        BY <2>1, <2>2, <2>3, <2>4 DEF Transactions
<1>10. ASSUME NEW c \in Calls, Exit(c) PROVE Transactions'
    <2>1. OwnRows'
        BY <1>10 DEF Exit, Goto,
                    OwnRows, AuditRow, Outcome, Created, R!IncidentOf
    <2>2. StoredCallsLeft'
        BY <1>10 DEF Exit, Goto,
                    OwnRows, StoredCallsLeft, AuditRow, R!AuditOf, R!IncidentOf,
                    R!Incident, R!Audit
    <2>3. KeyExclusive'
        BY <1>10 DEF Exit, Goto,
                    OwnRows, KeyExclusive, R!IncidentOf
    <2>4. SelectFinds'
        BY <1>10 DEF Exit, Goto,
                    SelectFinds, Selected, Visible, SameContent, R!WithKey
    <2> QED
        BY <2>1, <2>2, <2>3, <2>4 DEF Transactions
<1> QED
    BY <1>1, <1>2, <1>3, <1>4, <1>5, <1>6, <1>7, <1>8, <1>9, <1>10, <1>11, <1>12
       DEF Next, CallStep, Statement, OrderChanges

-----------------------------------------------------------------------------

\* An applied COMMIT adds the rows of one registry step: either a new incident
\* with its "created" audit, or one "already_existed" audit for a stored one.
LEMMA CommittedRows ==
    ASSUME Typing, Transactions, NEW c \in Calls, pc[c] = "commit", ApplyCommit(c)
    PROVE  /\ R!CreateOrGet(c, [idempotency_key |-> cmd[c].idempotency_key,
                                order_id |-> cmd[c].order_id,
                                reason |-> cmd[c].reason],
                            cmd[c].user, cmd[c].proposed_by)
           /\ found[c] \in R!WithKey(incidents', cmd[c].idempotency_key)
           /\ found[c] \notin Seeded /\ R!SameContent(found[c], cmd[c])
           /\ audits' = audits \union {AuditRow(c)}
           /\ (found[c].incident_id = c) <=> Created(c)
           /\ incidents' = incidents \union {found[c]}
<1> DEFINE key == cmd[c].idempotency_key
           com == [idempotency_key |-> key, order_id |-> cmd[c].order_id,
                   reason |-> cmd[c].reason]
<1>1. cmd[c] \in Request /\ found[c] \in R!Incident \ Seeded
    BY DEF Typing, CallState, BodyPCs
<1>2. /\ found[c] \in incidents \union tx_incidents[c]
      /\ found[c].idempotency_key = key
      /\ found[c] \notin Seeded /\ R!SameContent(found[c], cmd[c])
    BY DEF Transactions, SelectFinds, Selected, Visible, SameContent, R!SameContent, R!WithKey
<1>3. audits' = audits \union {AuditRow(c)}
    BY DEF ApplyCommit, Transactions, OwnRows
<1>4. /\ \A a \in audits : a.id # c
      /\ \A inc \in incidents : inc.incident_id # c
    BY SeededAssumption DEF Transactions, StoredCallsLeft, R!SeededRows
<1>5. R!IncidentOf(c, com) = R!IncidentOf(c, cmd[c])
    BY DEF R!IncidentOf
<1>6. ASSUME Created(c)
      PROVE  /\ tx_incidents[c] = {found[c]}
             /\ found[c] = R!IncidentOf(c, cmd[c])
             /\ R!WithKey(incidents, key) = {}
    <2>1. PICK r \in tx_incidents[c] : TRUE
        BY <1>6 DEF Created
    <2>2. /\ tx_incidents[c] = {R!IncidentOf(c, cmd[c])}
          /\ R!IncidentOf(c, cmd[c]).idempotency_key = key
        BY <2>1 DEF Transactions, OwnRows, R!IncidentOf
    <2>3. \A s \in incidents : s.idempotency_key # key
        BY <2>2 DEF Transactions, KeyExclusive
    <2> QED
        BY <1>2, <2>2, <2>3 DEF R!WithKey
<1>7. ASSUME ~ Created(c) PROVE tx_incidents[c] = {} /\ found[c] \in incidents
    BY <1>2, <1>7 DEF Created
<1>8. incidents' = incidents \union {found[c]}
    BY <1>6, <1>7 DEF ApplyCommit
<1>9. (found[c].incident_id = c) <=> Created(c)
    BY <1>4, <1>6, <1>7 DEF R!IncidentOf
<1>10. R!CreateOrGet(c, com, cmd[c].user, cmd[c].proposed_by)
    <2>1. CASE Created(c)
        <3>1. AuditRow(c) = R!AuditOf(c, R!IncidentOf(c, com), cmd[c].user,
                                      cmd[c].proposed_by, "created")
            BY <1>5, <1>6, <2>1 DEF AuditRow, Outcome
        <3> QED
            BY <1>3, <1>4, <1>5, <1>6, <1>8, <2>1, <3>1 DEF R!CreateOrGet, R!Create
    <2>2. CASE ~ Created(c)
        <3>1. AuditRow(c) = R!AuditOf(c, found[c], cmd[c].user,
                                      cmd[c].proposed_by, "already_existed")
            BY <2>2 DEF AuditRow, Outcome
        <3>2. found[c] \in R!WithKey(incidents, key) /\ incidents' = incidents
            BY <1>2, <1>7, <1>8, <2>2 DEF R!WithKey
        <3>3. R!SameContent(found[c], com)
            BY <1>2 DEF R!SameContent
        <3> QED
            BY <1>3, <1>4, <3>1, <3>2, <3>3 DEF R!CreateOrGet, R!Replay
    <2> QED
        BY <2>1, <2>2
<1> QED
    BY <1>2, <1>3, <1>8, <1>9, <1>10 DEF R!WithKey

-----------------------------------------------------------------------------

LEMMA InitStored == Init => AssertionHolds /\ Stored
BY NoneAssumption
   DEF Init, R!Init, AssertionHolds, Answers, Errors, Stored, AuditMatchesIncidents,
       TruthfulAnswer

LEMMA NextAssertion ==
    Typing /\ Transactions /\ AssertionHolds /\ [Next]_vars => AssertionHolds'
<1> SUFFICES ASSUME Typing, Transactions, AssertionHolds, [Next]_vars
             PROVE  AssertionHolds'
    OBVIOUS
<1> USE DEF AssertionHolds, Typing, TypeOK, Leave
<1>1. ASSUME NEW c \in Calls, Start(c) \/ ReadOrder(c) PROVE AssertionHolds'
    BY <1>1 DEF Start, ReadOrder
<1>2. ASSUME NEW c \in Calls, Select(c) PROVE AssertionHolds'
    <2>1. Selected(c) # {}
        BY <1>2 DEF Select, Transactions, SelectFinds
    <2> QED
        BY <1>2, <2>1 DEF Select
<1>3. ASSUME NEW c \in Calls, Insert(c) \/ AddAudit(c) \/ Exit(c) PROVE AssertionHolds'
    BY <1>3 DEF Insert, AddAudit, Exit
<1>4. ASSUME NEW c \in Calls, Commit(c) \/ CommitAnswerLost(c) PROVE AssertionHolds'
    BY <1>4 DEF Commit, CommitAnswerLost, Outcome
<1>5. ASSUME NEW c \in Calls, DbFailure(c) \/ Interrupted(c) PROVE AssertionHolds'
    BY <1>5 DEF DbFailure, Interrupted
<1>6. ASSUME NEW o \in Orders, OrderChanges(o) PROVE AssertionHolds'
    BY <1>6 DEF OrderChanges, OrderSeeded, OrderCancelled
<1>7. CASE UNCHANGED vars
    BY <1>7 DEF vars
<1> QED
    BY <1>1, <1>2, <1>3, <1>4, <1>5, <1>6, <1>7 DEF Next, CallStep, Statement, OrderChanges

\* Incidents and audits that other calls committed keep matching after a commit.
LEMMA CommitStored ==
    ASSUME Typing, Transactions, Stored, NEW c \in Calls, pc[c] = "commit",
           ApplyCommit(c), NEW res \in {Outcome(c), "db_error"},
           result' = [result EXCEPT ![c] = res], cmd' = cmd
    PROVE  Stored'
<1>1. /\ found[c] \in R!WithKey(incidents', cmd[c].idempotency_key)
      /\ found[c] \notin Seeded /\ R!SameContent(found[c], cmd[c])
      /\ audits' = audits \union {AuditRow(c)}
      /\ (found[c].incident_id = c) <=> Created(c)
      /\ incidents' = incidents \union {found[c]}
    BY CommittedRows
<1>2. /\ AuditRow(c).id = c /\ AuditRow(c).entity_id = found[c].incident_id
      /\ AuditRow(c).outcome = Outcome(c) /\ AuditRow(c).actor = cmd[c].user
      /\ AuditRow(c).idempotency_key = found[c].idempotency_key
      /\ AuditRow(c).order_id = found[c].order_id
    BY DEF AuditRow, R!AuditOf
<1>3. /\ \A a \in audits : a.id # c /\ a.entity_id # c
      /\ \A inc \in incidents : inc.incident_id # c
    BY SeededAssumption
       DEF Transactions, StoredCallsLeft, Stored, AuditMatchesIncidents, R!SeededRows
<1>4. ~ Created(c) => found[c] \in incidents
    BY DEF Created, Transactions, SelectFinds, Selected, Visible, R!WithKey
<1>5. AuditMatchesIncidents'
    <2>1. ASSUME NEW inc \in incidents' \ Seeded
          PROVE  \E a \in audits' :
                    /\ a.outcome = "created" /\ a.entity_id = inc.incident_id
                    /\ \A b \in audits' : b.outcome = "created"
                           /\ b.entity_id = inc.incident_id => b = a
        <3>1. CASE inc \in incidents
            <4>1. Created(c) => AuditRow(c).entity_id # inc.incident_id
                BY <1>1, <1>2, <1>3, <3>1
            <4>2. PICK a \in audits :
                      /\ a.outcome = "created" /\ a.entity_id = inc.incident_id
                      /\ \A b \in audits : b.outcome = "created"
                             /\ b.entity_id = inc.incident_id => b = a
                BY <3>1 DEF Stored, AuditMatchesIncidents
            <4>3. ~ Created(c) => AuditRow(c).outcome # "created"
                BY <1>2 DEF Outcome
            <4> QED
                BY <1>1, <4>1, <4>2, <4>3
        <3>2. CASE inc \notin incidents
            <4>1. inc = found[c] /\ Created(c)
                BY <1>1, <1>4, <2>1, <3>2
            <4> QED
                BY <1>1, <1>2, <1>3, <4>1 DEF Outcome
        <3> QED
            BY <3>1, <3>2
    <2>2. ASSUME NEW a \in audits'
          PROVE  \E inc \in incidents' \ Seeded :
                    /\ inc.incident_id = a.entity_id
                    /\ inc.idempotency_key = a.idempotency_key
                    /\ inc.order_id = a.order_id
        BY <1>1, <1>2, <2>2 DEF Stored, AuditMatchesIncidents
    <2>3. Seeded \subseteq incidents'
        BY <1>1 DEF Stored, AuditMatchesIncidents
    <2> QED
        BY <2>1, <2>2, <2>3 DEF AuditMatchesIncidents
<1>6. TruthfulAnswer'
    <2>1. /\ incidents \subseteq incidents' /\ audits \subseteq audits'
        BY <1>1
    <2>2. ASSUME NEW d \in Calls, d # c
          PROVE  result'[d] = result[d]
        BY <2>2 DEF Typing, TypeOK
    <2>3. result'[c] = res
        BY DEF Typing, TypeOK
    <2>4. AuditRow(c) \in audits'
        BY <1>1
    <2>5. Outcome(c) \in {"created", "already_existed"}
          /\ (Outcome(c) = "created" <=> found[c].incident_id = c)
        BY <1>1 DEF Outcome
    <2> QED
        BY <1>1, <1>2, <2>1, <2>2, <2>3, <2>4, <2>5
           DEF Answers, Stored, TruthfulAnswer, R!WithKey
<1> QED
    BY <1>5, <1>6 DEF Stored

LEMMA NextStored == Typing /\ Transactions /\ Stored /\ [Next]_vars => Stored'
<1> SUFFICES ASSUME Typing, Transactions, Stored, [Next]_vars PROVE Stored'
    OBVIOUS
<1>a. ASSUME UNCHANGED dbVars,
             \A c \in Calls : result'[c] \in Answers \union {"key_conflict"} =>
                                  result'[c] = result[c] /\ cmd'[c] = cmd[c]
      PROVE  Stored'
    BY <1>a DEF dbVars, Stored, AuditMatchesIncidents, TruthfulAnswer, R!WithKey
<1>1. ASSUME NEW c \in Calls, Start(c) PROVE Stored'
    BY <1>1, <1>a, NoneAssumption DEF Start, MayCreate, Answers, Errors,
           Typing, TypeOK, CallState, BodyPCs, dbVars
<1>2. ASSUME NEW c \in Calls, ReadOrder(c) PROVE Stored'
    BY <1>2, <1>a DEF ReadOrder, Answers, Leave,
           Typing, TypeOK, CallState, BodyPCs, dbVars
<1>3. ASSUME NEW c \in Calls, Insert(c) PROVE Stored'
    BY <1>3, <1>a DEF Insert, Answers, Goto,
           Typing, TypeOK, CallState, BodyPCs, dbVars
<1>4. ASSUME NEW c \in Calls, Select(c) PROVE Stored'
    <2>1. UNCHANGED <<incidents, audits, cmd>>
        BY <1>4 DEF Select, dbVars
    <2>2. CASE result' = result
        BY <1>a, <2>1, <2>2 DEF dbVars
    <2>3. CASE result' = [result EXCEPT ![c] = "assertion_error"]
        BY <1>a, <2>1, <2>3 DEF dbVars, Answers, Typing, TypeOK
    <2>4. ASSUME NEW inc \in Selected(c), ~ SameContent(c, inc),
                 result' = [result EXCEPT ![c] = "key_conflict"]
          PROVE  Stored'
        <3>1. inc \in incidents \union tx_incidents[c]
              /\ inc.idempotency_key = cmd[c].idempotency_key
            BY <2>4 DEF Selected, Visible, R!WithKey
        <3>2. inc \notin tx_incidents[c]
            BY <2>4, OwnRowIsNew
               DEF Transactions, OwnRows, SameContent, R!SameContent, R!IncidentOf
        <3>3. inc \in R!WithKey(incidents, cmd[c].idempotency_key)
              /\ ~ R!SameContent(inc, cmd[c])
            BY <2>4, <3>1, <3>2 DEF SameContent, R!WithKey
        <3>4. AuditMatchesIncidents'
            BY <2>1 DEF Stored, AuditMatchesIncidents
        <3>5. TruthfulAnswer'
            <4>1. \A d \in Calls : d # c => result'[d] = result[d]
                BY <2>4 DEF Typing, TypeOK
            <4>2. result'[c] = "key_conflict"
                BY <2>4 DEF Typing, TypeOK
            <4> QED
                BY <2>1, <3>3, <4>1, <4>2 DEF Answers, Stored, TruthfulAnswer, R!WithKey
        <3> QED
            BY <3>4, <3>5 DEF Stored
    <2> QED
        BY <1>4, <2>2, <2>3, <2>4 DEF Select, Leave
<1>5. ASSUME NEW c \in Calls, AddAudit(c) PROVE Stored'
    BY <1>5, <1>a DEF AddAudit, Answers, Goto,
           Typing, TypeOK, CallState, BodyPCs, dbVars
<1>6. ASSUME NEW c \in Calls, Commit(c) PROVE Stored'
    BY <1>6, CommitStored DEF Commit, Leave
<1>7. ASSUME NEW c \in Calls, CommitAnswerLost(c) PROVE Stored'
    BY <1>7, CommitStored DEF CommitAnswerLost, Leave
<1>8. ASSUME NEW c \in Calls, DbFailure(c) PROVE Stored'
    BY <1>8, <1>a DEF DbFailure, Answers, InBody, Leave,
           Typing, TypeOK, CallState, BodyPCs, dbVars
<1>9. ASSUME NEW c \in Calls, Interrupted(c) PROVE Stored'
    BY <1>9, <1>a DEF Interrupted, Answers, InBody, Leave,
           Typing, TypeOK, CallState, BodyPCs, dbVars
<1>10. ASSUME NEW c \in Calls, Exit(c) PROVE Stored'
    BY <1>10, <1>a DEF Exit, Answers, Goto,
           Typing, TypeOK, CallState, BodyPCs, dbVars
<1>11. ASSUME NEW o \in Orders, OrderChanges(o) PROVE Stored'
    BY <1>11, <1>a DEF OrderChanges, OrderSeeded, OrderCancelled, dbVars
<1>12. CASE UNCHANGED vars
    BY <1>12, <1>a DEF vars, dbVars
<1> QED
    BY <1>1, <1>2, <1>3, <1>4, <1>5, <1>6, <1>7, <1>8, <1>9, <1>10, <1>11, <1>12
       DEF Next, CallStep, Statement, OrderChanges

-----------------------------------------------------------------------------

\* The conjunction of the three layers is an invariant.
THEOREM Invariance == Spec => []IInv
<1>1. Init => IInv
    BY InitTyping, InitTransactions, InitStored DEF IInv
<1>2. IInv /\ [Next]_vars => IInv'
    BY NextTyping, NextTransactions, NextAssertion, NextStored DEF IInv
<1> QED
    BY <1>1, <1>2, PTL DEF Spec

\* One idempotency key names at most one incident, however many calls race on it.
THEOREM UniqueIncidents == Spec => []OneIncidentPerKey
<1>1. IInv => OneIncidentPerKey
    BY DEF IInv, Transactions, KeyExclusive, OneIncidentPerKey
<1> QED
    BY <1>1, Invariance, PTL

\* The assertion after the upsert (sqlalchemy.py:174) never fails.
THEOREM AssertionNeverFails == Spec => []AssertionHolds
<1>1. IInv => AssertionHolds
    BY DEF IInv
<1> QED
    BY <1>1, Invariance, PTL

\* Incidents and audits are stored together, one "created" audit per incident that
\* a call has stored; the seeded incidents stay and are not audited.
THEOREM AuditedIncidents == Spec => []AuditMatchesIncidents
<1>1. IInv => AuditMatchesIncidents
    BY DEF IInv, Stored
<1> QED
    BY <1>1, Invariance, PTL

\* Every answer of the service agrees with what is stored.
THEOREM TruthfulAnswers == Spec => []TruthfulAnswer
<1>1. IInv => TruthfulAnswer
    BY DEF IInv, Stored
<1> QED
    BY <1>1, Invariance, PTL

\* The service implements the registry: the only visible steps are commits, and
\* each is one atomic CreateOrGet.
THEOREM ImplementsRegistry == Spec => RegistrySpec
<1>1. Init => R!Init
    BY DEF Init, R!Init
<1>2. IInv /\ [Next]_vars => [R!Next]_(R!registryVars)
    <2> SUFFICES ASSUME IInv, [Next]_vars PROVE [R!Next]_(R!registryVars)
        OBVIOUS
    <2>1. ASSUME NEW c \in Calls, Commit(c) \/ CommitAnswerLost(c)
          PROVE  R!Next
        <3>1. cmd[c] \in Request /\ cmd[c].user \in Approvers
            BY <2>1 DEF Commit, CommitAnswerLost, IInv, Typing, CallState, BodyPCs
        <3>2. [idempotency_key |-> cmd[c].idempotency_key, order_id |-> cmd[c].order_id,
               reason |-> cmd[c].reason] \in R!Command
            BY <3>1 DEF Request, R!Command
        <3>3. cmd[c].proposed_by \in Proposers
            BY <3>1 DEF Request
        <3> QED
            BY <2>1, <3>1, <3>2, <3>3, CommittedRows
               DEF Commit, CommitAnswerLost, IInv, R!Next
    <2>2. ASSUME NEW c \in Calls, Start(c) \/ ReadOrder(c) \/ Insert(c) \/ Select(c)
                 \/ AddAudit(c) \/ DbFailure(c) \/ Interrupted(c) \/ Exit(c)
          PROVE  UNCHANGED R!registryVars
        BY <2>2 DEF Start, ReadOrder, Insert, Select, AddAudit, DbFailure, Interrupted,
                    Exit, dbVars, R!registryVars
    <2>3. ASSUME NEW o \in Orders, OrderChanges(o)
          PROVE  UNCHANGED R!registryVars
        BY <2>3 DEF OrderChanges, OrderSeeded, OrderCancelled, dbVars, R!registryVars
    <2>4. CASE UNCHANGED vars
        BY <2>4 DEF vars, R!registryVars
    <2> QED
        BY <2>1, <2>2, <2>3, <2>4 DEF Next, CallStep, Statement, OrderChanges
<1> QED
    BY <1>1, <1>2, Invariance, PTL DEF Spec, RegistrySpec, R!Spec
=============================================================================
