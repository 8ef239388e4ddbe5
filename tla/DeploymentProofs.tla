--------------------------- MODULE DeploymentProofs ---------------------------
(***************************************************************************)
(* Proofs about Deployment, for any files, texts, edits and number of      *)
(* faults.                                                                 *)
(*                                                                         *)
(* Schema: every upgrade and every downgrade runs through from the schema  *)
(* that its revision promises, and leaves such a schema; only the          *)
(* extension stays once procedures depend on it.                           *)
(*                                                                         *)
(* Procedures: documents carry what their identifier is made of, so that   *)
(* replacing by identifier loses nothing; each document comes from a text  *)
(* that was read and is clean.                                             *)
(*                                                                         *)
(* Containers and database: a migration runs alone, and what a container   *)
(* relies on is there from the moment it is started.                       *)
(***************************************************************************)
EXTENDS Deployment, TLAPS

-----------------------------------------------------------------------------
(* The schema *)

\* What the first k operations of a revision concern.
First(seq, k) == {seq[i] : i \in 1 .. k}

Own(objects) == objects \ EXTERNALLY_MANAGED

\* The schema in the middle of an upgrade from r, or of a downgrade from r.
PartlyCreated(r, k) == RevisionObjects(r) \union First(Created[r + 1], k)
PartlyDropped(r, k) == RevisionObjects(r) \ First(Dropped[r], k)

AllObjects == ModelTables \union {"vector"} \union EXTERNALLY_MANAGED

View == [objects : SUBSET AllObjects, revision : Base .. HeadRevision, seeded : BOOLEAN]

\* What the operations of tx have made of the schema.
Progress ==
    /\ Upgrading => /\ tx.done <= Len(Operations)
                    /\ Own(tx.view.objects) = PartlyCreated(tx.view.revision, tx.done)
    /\ Downgrading => /\ tx.done <= Len(Operations)
                      /\ Own(tx.view.objects) = PartlyDropped(tx.view.revision, tx.done)
    /\ ~ Upgrading /\ ~ Downgrading => Own(tx.view.objects) = RevisionObjects(tx.view.revision)

MigrationInv ==
    /\ db \in View /\ Own(db.objects) = RevisionObjects(db.revision)
    /\ tx # None =>
          /\ tx \in [view : View, done : Nat, goal : Base .. HeadRevision]
          /\ tx.view.objects \intersect EXTERNALLY_MANAGED
             = db.objects \intersect EXTERNALLY_MANAGED
          /\ Progress
          /\ tx.goal = db.revision => tx.view = db

-----------------------------------------------------------------------------
(* The revisions *)

BusinessObjects ==
    {"action_audit", "customers", "products", "security_events", "inventory",
     "orders", "deliveries", "incidents", "order_items"}

\* The three revisions and how many operations they have.
LEMMA Lists ==
    /\ Len(Created) = 3 /\ HeadRevision = 3 /\ Base = 0
    /\ Created[1] = BusinessTables /\ Created[2] = VectorExtension /\ Created[3] = ProfileTables
    /\ Len(Created[1]) = 9 /\ Len(Created[2]) = 1 /\ Len(Created[3]) = 4
    /\ Len(Dropped[1]) = 9 /\ Len(Dropped[2]) = 1 /\ Len(Dropped[3]) = 4
BY DEF BusinessTables, VectorExtension, ProfileTables, Created, Dropped, HeadRevision, Base

\* The same, for a revision that is not known.
LEMMA Lengths ==
    /\ \A r \in 0 .. 2 :
          Len(Created[r + 1]) = IF r = 0 THEN 9 ELSE IF r = 1 THEN 1 ELSE 4
    /\ \A r \in 1 .. 3 :
          Len(Dropped[r]) = IF r = 1 THEN 9 ELSE IF r = 2 THEN 1 ELSE 4
<1>1. ASSUME NEW r \in 0 .. 2
      PROVE  Len(Created[r + 1]) = IF r = 0 THEN 9 ELSE IF r = 1 THEN 1 ELSE 4
    <2>1. Created[r + 1] = IF r = 0 THEN Created[1] ELSE IF r = 1 THEN Created[2] ELSE Created[3]
        OBVIOUS
    <2> QED
        BY <2>1, Lists
<1>2. ASSUME NEW r \in 1 .. 3
      PROVE  Len(Dropped[r]) = IF r = 1 THEN 9 ELSE IF r = 2 THEN 1 ELSE 4
    <2>1. Dropped[r] = IF r = 1 THEN Dropped[1] ELSE IF r = 2 THEN Dropped[2] ELSE Dropped[3]
        OBVIOUS
    <2> QED
        BY <2>1, Lists
<1> QED
    BY <1>1, <1>2

\* What each revision has created.
LEMMA Levels ==
    /\ RevisionObjects(0) = {}
    /\ RevisionObjects(1) = BusinessObjects
    /\ RevisionObjects(2) = BusinessObjects \union {"vector"}
    /\ RevisionObjects(3) = BusinessObjects \union {"vector"}
                            \union {"roles", "users", "user_roles", "conversations"}
<1>1. Elements(BusinessTables) = BusinessObjects
    <2>1. DOMAIN BusinessTables = 1 .. 9
        BY DEF BusinessTables
    <2> QED
        BY <2>1 DEF Elements, BusinessTables, BusinessObjects
<1>2. Elements(VectorExtension) = {"vector"}
    BY DEF Elements, VectorExtension
<1>3. Elements(ProfileTables) = {"roles", "users", "user_roles", "conversations"}
    <2>1. DOMAIN ProfileTables = 1 .. 4
        BY DEF ProfileTables
    <2> QED
        BY <2>1 DEF Elements, ProfileTables
<1>4. /\ RevisionObjects(0) = {}
      /\ RevisionObjects(1) = Elements(Created[1])
      /\ RevisionObjects(2) = Elements(Created[1]) \union Elements(Created[2])
      /\ RevisionObjects(3) = Elements(Created[1]) \union Elements(Created[2])
                              \union Elements(Created[3])
    BY DEF RevisionObjects
<1> QED
    BY <1>1, <1>2, <1>3, <1>4, Lists

\* Upgrading: nothing is created twice, nor before what it needs.
CreatedNext(r, k) ==
    LET o == Created[r + 1][k + 1] IN
    /\ o \notin PartlyCreated(r, k) /\ o \in AllObjects /\ o \notin EXTERNALLY_MANAGED
    /\ Needs(o) \subseteq PartlyCreated(r, k)
    /\ PartlyCreated(r, k + 1) = PartlyCreated(r, k) \union {o}

\* Case by case: each revision, each operation.
LEMMA CreatedInOrder ==
    ASSUME NEW r \in 0 .. 2, NEW k \in 0 .. Len(Created[r + 1]) - 1
    PROVE  CreatedNext(r, k)
<1>1. RevisionObjects(r) = IF r = 0 THEN {} ELSE IF r = 1 THEN BusinessObjects
                           ELSE BusinessObjects \union {"vector"}
    BY Levels
<1>2. Created[r + 1] = IF r = 0 THEN BusinessTables ELSE IF r = 1 THEN VectorExtension
                       ELSE ProfileTables
    BY Lists
<1>3. \/ r = 0 /\ k \in 0 .. 8
      \/ r = 1 /\ k = 0
      \/ r = 2 /\ k \in 0 .. 3
    <2>1. Len(Created[r + 1]) = IF r = 0 THEN 9 ELSE IF r = 1 THEN 1 ELSE 4
        BY Lengths
    <2>2. k \in 0 .. (IF r = 0 THEN 9 ELSE IF r = 1 THEN 1 ELSE 4) - 1
        BY <2>1, Zenon
    <2> QED
        BY <2>2
<1> USE DEF CreatedNext, PartlyCreated, First, EXTERNALLY_MANAGED, CheckpointTables,
            VectorTables, AllObjects, ModelTables, Needs
<1>4. CASE r = 0 /\ k = 0
    BY <1>1, <1>2, <1>4 DEF BusinessTables
<1>5. CASE r = 0 /\ k = 1
    BY <1>1, <1>2, <1>5 DEF BusinessTables
<1>6. CASE r = 0 /\ k = 2
    BY <1>1, <1>2, <1>6 DEF BusinessTables
<1>7. CASE r = 0 /\ k = 3
    BY <1>1, <1>2, <1>7 DEF BusinessTables
<1>8. CASE r = 0 /\ k = 4
    BY <1>1, <1>2, <1>8 DEF BusinessTables
<1>9. CASE r = 0 /\ k = 5
    BY <1>1, <1>2, <1>9 DEF BusinessTables
<1>10. CASE r = 0 /\ k = 6
    BY <1>1, <1>2, <1>10 DEF BusinessTables
<1>11. CASE r = 0 /\ k = 7
    BY <1>1, <1>2, <1>11 DEF BusinessTables
<1>12. CASE r = 0 /\ k = 8
    BY <1>1, <1>2, <1>12 DEF BusinessTables
<1>13. CASE r = 1 /\ k = 0
    BY <1>1, <1>2, <1>13 DEF VectorExtension, BusinessObjects
<1>14. CASE r = 2 /\ k = 0
    BY <1>1, <1>2, <1>14 DEF ProfileTables, BusinessObjects
<1>15. CASE r = 2 /\ k = 1
    BY <1>1, <1>2, <1>15 DEF ProfileTables, BusinessObjects
<1>16. CASE r = 2 /\ k = 2
    BY <1>1, <1>2, <1>16 DEF ProfileTables, BusinessObjects
<1>17. CASE r = 2 /\ k = 3
    BY <1>1, <1>2, <1>17 DEF ProfileTables, BusinessObjects
<1> QED
    BY <1>3, <1>4, <1>5, <1>6, <1>7, <1>8, <1>9, <1>10, <1>11,
       <1>12, <1>13, <1>14, <1>15, <1>16, <1>17

\* Downgrading: nothing is dropped twice, nor before what needs it, except the
\* extension that the procedures may need.
DroppedNext(r, k) ==
    LET o == Dropped[r][k + 1] IN
    /\ o \in PartlyDropped(r, k) /\ o \notin EXTERNALLY_MANAGED
    /\ \A p \in PartlyDropped(r, k) : o \notin Needs(p)
    /\ \A p \in EXTERNALLY_MANAGED :
          o \in Needs(p) => o = "vector" /\ p = "langchain_pg_embedding"
    /\ PartlyDropped(r, k + 1) = PartlyDropped(r, k) \ {o}

\* Case by case, as above.
LEMMA DroppedInOrder ==
    ASSUME NEW r \in 1 .. 3, NEW k \in 0 .. Len(Dropped[r]) - 1
    PROVE  DroppedNext(r, k)
<1>1. RevisionObjects(r) = IF r = 1 THEN BusinessObjects
                           ELSE IF r = 2 THEN BusinessObjects \union {"vector"}
                           ELSE BusinessObjects \union {"vector"}
                                \union {"roles", "users", "user_roles", "conversations"}
    BY Levels
<1>2. \/ r = 1 /\ k \in 0 .. 8
      \/ r = 2 /\ k = 0
      \/ r = 3 /\ k \in 0 .. 3
    <2>1. Len(Dropped[r]) = IF r = 1 THEN 9 ELSE IF r = 2 THEN 1 ELSE 4
        BY Lengths
    <2>2. k \in 0 .. (IF r = 1 THEN 9 ELSE IF r = 2 THEN 1 ELSE 4) - 1
        BY <2>1, Zenon
    <2> QED
        BY <2>2
<1> USE DEF DroppedNext, PartlyDropped, First, EXTERNALLY_MANAGED, CheckpointTables,
            VectorTables, BusinessObjects, Dropped, Needs
<1>3. CASE r = 1 /\ k = 0
    BY <1>1, <1>3
<1>4. CASE r = 1 /\ k = 1
    BY <1>1, <1>4
<1>5. CASE r = 1 /\ k = 2
    BY <1>1, <1>5
<1>6. CASE r = 1 /\ k = 3
    BY <1>1, <1>6
<1>7. CASE r = 1 /\ k = 4
    BY <1>1, <1>7
<1>8. CASE r = 1 /\ k = 5
    BY <1>1, <1>8
<1>9. CASE r = 1 /\ k = 6
    BY <1>1, <1>9
<1>10. CASE r = 1 /\ k = 7
    BY <1>1, <1>10
<1>11. CASE r = 1 /\ k = 8
    BY <1>1, <1>11
<1>12. CASE r = 2 /\ k = 0
    BY <1>1, <1>12
<1>13. CASE r = 3 /\ k = 0
    BY <1>1, <1>13
<1>14. CASE r = 3 /\ k = 1
    BY <1>1, <1>14
<1>15. CASE r = 3 /\ k = 2
    BY <1>1, <1>15
<1>16. CASE r = 3 /\ k = 3
    BY <1>1, <1>16
<1> HIDE DEF DroppedNext, PartlyDropped, Dropped
<1> QED
    BY <1>2, <1>3, <1>4, <1>5, <1>6, <1>7, <1>8, <1>9, <1>10, <1>11,
       <1>12, <1>13, <1>14, <1>15, <1>16

\* Where a revision begins and ends.
LEMMA Ends ==
    /\ \A r \in 0 .. 2 : /\ PartlyCreated(r, 0) = RevisionObjects(r)
                         /\ PartlyCreated(r, Len(Created[r + 1])) = RevisionObjects(r + 1)
    /\ \A r \in 1 .. 3 : /\ PartlyDropped(r, 0) = RevisionObjects(r)
                         /\ PartlyDropped(r, Len(Dropped[r])) = RevisionObjects(r - 1)
    /\ RevisionObjects(HeadRevision) = ModelTables \union {"vector"}
<1>1. /\ First(Created[1], 9) = BusinessObjects /\ First(Created[2], 1) = {"vector"}
      /\ First(Created[3], 4) = {"roles", "users", "user_roles", "conversations"}
    BY Lists DEF First, BusinessObjects, BusinessTables, VectorExtension, ProfileTables
<1>2. /\ First(Dropped[1], 9) = BusinessObjects /\ First(Dropped[2], 1) = {"vector"}
      /\ First(Dropped[3], 4) = {"roles", "users", "user_roles", "conversations"}
    BY DEF First, BusinessObjects, Dropped
<1>3. \A seq : First(seq, 0) = {}
    BY DEF First
<1>4. /\ PartlyCreated(0, 9) = RevisionObjects(1) /\ PartlyCreated(1, 1) = RevisionObjects(2)
      /\ PartlyCreated(2, 4) = RevisionObjects(3)
    <2>1. First(Created[0 + 1], 9) = BusinessObjects /\ First(Created[1 + 1], 1) = {"vector"}
          /\ First(Created[2 + 1], 4) = {"roles", "users", "user_roles", "conversations"}
        BY <1>1
    <2> QED
        BY <2>1, Levels DEF PartlyCreated
<1>5. /\ PartlyDropped(1, 9) = RevisionObjects(0) /\ PartlyDropped(2, 1) = RevisionObjects(1)
      /\ PartlyDropped(3, 4) = RevisionObjects(2)
    BY <1>2, Levels DEF PartlyDropped, BusinessObjects
<1>6. /\ \A r \in 0 .. 2 : PartlyCreated(r, 0) = RevisionObjects(r)
      /\ \A r \in 1 .. 3 : PartlyDropped(r, 0) = RevisionObjects(r)
    BY <1>3 DEF PartlyCreated, PartlyDropped
<1>7. RevisionObjects(HeadRevision) = ModelTables \union {"vector"}
    BY Lists, Levels DEF ModelTables, BusinessObjects
<1>8. ASSUME NEW r \in 0 .. 2
      PROVE  PartlyCreated(r, Len(Created[r + 1])) = RevisionObjects(r + 1)
    <2>1. Len(Created[r + 1]) = IF r = 0 THEN 9 ELSE IF r = 1 THEN 1 ELSE 4
        BY Lengths
    <2>2. CASE r = 0
        BY <1>4, <2>1, <2>2
    <2>3. CASE r = 1
        BY <1>4, <2>1, <2>3
    <2>4. CASE r = 2
        BY <1>4, <2>1, <2>4
    <2> QED
        BY <2>2, <2>3, <2>4
<1>9. ASSUME NEW r \in 1 .. 3
      PROVE  PartlyDropped(r, Len(Dropped[r])) = RevisionObjects(r - 1)
    <2>1. CASE r = 1
        BY <1>5, <2>1, Lists
    <2>2. CASE r = 2
        BY <1>5, <2>2, Lists
    <2>3. CASE r = 3
        BY <1>5, <2>3, Lists
    <2> QED
        BY <2>1, <2>2, <2>3
<1> QED
    BY <1>6, <1>7, <1>8, <1>9

-----------------------------------------------------------------------------
(* The runs of alembic *)

\* What a migration has to do, in numbers.
LEMMA Plans ==
    ASSUME MigrationInv, tx # None
    PROVE  /\ tx.view \in View /\ tx.done \in Nat
           /\ Upgrading => /\ tx.view.revision \in 0 .. 2 /\ ~ Downgrading
                           /\ Operations = Created[tx.view.revision + 1]
           /\ Downgrading => /\ tx.view.revision \in 1 .. 3 /\ ~ Upgrading
                             /\ Operations = Dropped[tx.view.revision]
           /\ Upgrading \/ Downgrading => tx.goal # db.revision
<1>1. /\ tx.view \in View /\ tx.done \in Nat /\ tx.view.revision \in 0 .. 3 /\ tx.goal \in 0 .. 3
      /\ tx.goal = db.revision => tx.view = db
    BY Lists DEF MigrationInv, View
<1>2. Upgrading => /\ tx.view.revision \in 0 .. 2 /\ ~ Downgrading
                   /\ Operations = Created[tx.view.revision + 1]
    BY <1>1 DEF Upgrading, Downgrading, Operations
<1>3. Downgrading => /\ tx.view.revision \in 1 .. 3 /\ ~ Upgrading
                     /\ Operations = Dropped[tx.view.revision]
    BY <1>1 DEF Upgrading, Downgrading, Operations
<1>4. Upgrading \/ Downgrading => tx.goal # db.revision
    BY <1>1 DEF Upgrading, Downgrading
<1> QED
    BY <1>1, <1>2, <1>3, <1>4

LEMMA MigrationBegins ==
    ASSUME MigrationInv, NEW goal \in Base .. HeadRevision, BeginMigration(goal)
    PROVE  MigrationInv'
<1>1. tx' = [view |-> db, done |-> 0, goal |-> goal] /\ db' = db
    BY DEF BeginMigration
<1>2. db \in View /\ db.revision \in 0 .. 3 /\ Own(db.objects) = RevisionObjects(db.revision)
    BY Lists DEF MigrationInv, View
<1>3. tx'.view = db /\ tx'.done = 0 /\ tx'.goal = goal
    BY <1>1
<1>4. Progress'
    BY <1>2, <1>3, Lists, Lengths, Ends DEF Progress, Upgrading, Downgrading, Operations
<1> QED
    BY <1>1, <1>2, <1>3, <1>4 DEF MigrationInv

LEMMA OperationKeeps ==
    ASSUME MigrationInv, Operation
    PROVE  MigrationInv'
<1> DEFINE r == tx.view.revision
           k == tx.done
           o == Operations[k + 1]
           x == Applied(tx.view)
<1>1. /\ tx # None /\ (Upgrading \/ Downgrading) /\ k < Len(Operations)
      /\ tx' = [tx EXCEPT !.view = x, !.done = k + 1] /\ db' = db
    BY DEF Operation, InRevision, Uncommitted
<1>2. /\ tx \in [view : View, done : Nat, goal : Base .. HeadRevision]
      /\ tx.view \in View /\ k \in Nat /\ tx.goal # db.revision
      /\ tx.view.objects \intersect EXTERNALLY_MANAGED
         = db.objects \intersect EXTERNALLY_MANAGED
    BY <1>1, Plans DEF MigrationInv
<1>3. x = [tx.view EXCEPT !.objects = IF Upgrading THEN tx.view.objects \union {o}
                                      ELSE tx.view.objects \ {o},
                          !.seeded = tx.view.seeded /\ (Upgrading \/ o # "orders")]
    BY DEF Applied, Object
<1>4. CASE Upgrading
    <2>1. /\ r \in 0 .. 2 /\ Operations = Created[r + 1] /\ k \in 0 .. Len(Created[r + 1]) - 1
          /\ Own(tx.view.objects) = PartlyCreated(r, k)
        BY <1>1, <1>2, <1>4, Plans, Lengths DEF MigrationInv, Progress
    <2>2. /\ o \in AllObjects /\ o \notin EXTERNALLY_MANAGED
          /\ PartlyCreated(r, k + 1) = PartlyCreated(r, k) \union {o}
        BY <2>1, CreatedInOrder DEF CreatedNext
    <2> HIDE DEF o, x
    <2>3. /\ x \in View /\ x.revision = r /\ x.objects = tx.view.objects \union {o}
        BY <1>2, <1>3, <1>4, <2>2 DEF View
    <2>4. /\ tx' \in [view : View, done : Nat, goal : Base .. HeadRevision]
          /\ tx'.view = x /\ tx'.done = k + 1 /\ tx'.goal = tx.goal
        <3> DEFINE n == k + 1
        <3>1. n \in Nat /\ tx' = [tx EXCEPT !.view = x, !.done = n]
            BY <1>1, <1>2
        <3> HIDE DEF n
        <3>2. /\ tx' \in [view : View, done : Nat, goal : Base .. HeadRevision]
              /\ tx'.view = x /\ tx'.done = n /\ tx'.goal = tx.goal
            BY <1>2, <2>3, <3>1
        <3> QED
            BY <3>2 DEF n
    <2>5. /\ Own(x.objects) = PartlyCreated(r, k + 1)
          /\ x.objects \intersect EXTERNALLY_MANAGED
             = tx.view.objects \intersect EXTERNALLY_MANAGED
        BY <2>1, <2>2, <2>3 DEF Own
    <2>6. /\ Upgrading' /\ ~ Downgrading' /\ Operations' = Created[r + 1]
          /\ k + 1 <= Len(Created[r + 1])
        BY <1>1, <1>2, <1>4, <2>1, <2>3, <2>4, Plans, Lengths
           DEF Upgrading, Downgrading, Operations
    <2>7. Progress'
        BY <2>3, <2>4, <2>5, <2>6 DEF Progress
    <2> QED
        BY <1>1, <1>2, <2>4, <2>5, <2>7 DEF MigrationInv
<1>5. CASE Downgrading
    <2>1. /\ r \in 1 .. 3 /\ Operations = Dropped[r] /\ k \in 0 .. Len(Dropped[r]) - 1
          /\ Own(tx.view.objects) = PartlyDropped(r, k) /\ ~ Upgrading
        BY <1>1, <1>2, <1>5, Plans, Lengths DEF MigrationInv, Progress
    <2>2. /\ o \notin EXTERNALLY_MANAGED
          /\ PartlyDropped(r, k + 1) = PartlyDropped(r, k) \ {o}
        BY <2>1, DroppedInOrder DEF DroppedNext
    <2> HIDE DEF o, x
    <2>3. /\ x \in View /\ x.revision = r /\ x.objects = tx.view.objects \ {o}
        BY <1>2, <1>3, <2>1, <2>2 DEF View
    <2>4. /\ tx' \in [view : View, done : Nat, goal : Base .. HeadRevision]
          /\ tx'.view = x /\ tx'.done = k + 1 /\ tx'.goal = tx.goal
        <3> DEFINE n == k + 1
        <3>1. n \in Nat /\ tx' = [tx EXCEPT !.view = x, !.done = n]
            BY <1>1, <1>2
        <3> HIDE DEF n
        <3>2. /\ tx' \in [view : View, done : Nat, goal : Base .. HeadRevision]
              /\ tx'.view = x /\ tx'.done = n /\ tx'.goal = tx.goal
            BY <1>2, <2>3, <3>1
        <3> QED
            BY <3>2 DEF n
    <2>5. /\ Own(x.objects) = PartlyDropped(r, k + 1)
          /\ x.objects \intersect EXTERNALLY_MANAGED
             = tx.view.objects \intersect EXTERNALLY_MANAGED
        BY <2>1, <2>2, <2>3 DEF Own
    <2>6. /\ Downgrading' /\ ~ Upgrading' /\ Operations' = Dropped[r]
          /\ k + 1 <= Len(Dropped[r])
        BY <1>1, <1>2, <1>5, <2>1, <2>3, <2>4, Plans, Lengths
           DEF Upgrading, Downgrading, Operations
    <2>7. Progress'
        BY <2>3, <2>4, <2>5, <2>6 DEF Progress
    <2> QED
        BY <1>1, <1>2, <2>4, <2>5, <2>7 DEF MigrationInv
<1> QED
    BY <1>1, <1>4, <1>5

\* When its last operation is done a revision is reached.
LEMMA StampKeeps ==
    ASSUME MigrationInv, Stamp
    PROVE  MigrationInv'
<1> DEFINE r == tx.view.revision
           x == [tx.view EXCEPT !.revision = Following(r)]
<1>1. /\ tx # None /\ (Upgrading \/ Downgrading) /\ tx.done = Len(Operations) /\ db' = db
      /\ tx' = [tx EXCEPT !.view.revision = Following(r), !.done = 0]
    BY DEF Stamp
<1>2. /\ tx \in [view : View, done : Nat, goal : Base .. HeadRevision]
      /\ tx.view \in View /\ tx.goal # db.revision /\ r \in 0 .. 3 /\ tx.goal \in 0 .. 3
      /\ tx.view.objects \intersect EXTERNALLY_MANAGED
         = db.objects \intersect EXTERNALLY_MANAGED
    BY <1>1, Plans, Lists DEF MigrationInv, View
<1>3. /\ Following(r) \in 0 .. 3 /\ Own(tx.view.objects) = RevisionObjects(Following(r))
      /\ tx.goal < Following(r) => Downgrading
      /\ tx.goal > Following(r) => Upgrading
    <2>1. CASE Upgrading
        <3>1. /\ r \in 0 .. 2 /\ tx.done = Len(Created[r + 1]) /\ Following(r) = r + 1
              /\ Own(tx.view.objects) = PartlyCreated(r, tx.done)
            BY <1>1, <2>1, Plans DEF MigrationInv, Progress, Following
        <3>2. Own(tx.view.objects) = RevisionObjects(r + 1)
            BY <3>1, Ends
        <3> QED
            BY <1>2, <2>1, <3>1, <3>2 DEF Upgrading
    <2>2. CASE Downgrading
        <3>1. /\ r \in 1 .. 3 /\ tx.done = Len(Dropped[r]) /\ Following(r) = r - 1
              /\ Own(tx.view.objects) = PartlyDropped(r, tx.done)
            BY <1>1, <2>2, Plans DEF MigrationInv, Progress, Following
        <3>2. Own(tx.view.objects) = RevisionObjects(r - 1)
            BY <3>1, Ends
        <3> QED
            BY <1>2, <2>2, <3>1, <3>2 DEF Downgrading
    <2> QED
        BY <1>1, <2>1, <2>2
<1>4. /\ x \in View /\ x.revision = Following(r) /\ x.objects = tx.view.objects
    BY <1>2, <1>3, Lists DEF View
<1>5. tx' = [tx EXCEPT !.view = x, !.done = 0]
    BY <1>1, <1>2
<1> HIDE DEF x
<1>6. /\ tx' \in [view : View, done : Nat, goal : Base .. HeadRevision]
      /\ tx'.view = x /\ tx'.done = 0 /\ tx'.goal = tx.goal
    BY <1>2, <1>4, <1>5
<1>7. Progress'
    BY <1>2, <1>3, <1>4, <1>6, Lengths, Ends DEF Progress, Upgrading, Downgrading, Operations
<1> QED
    BY <1>1, <1>2, <1>4, <1>6, <1>7 DEF MigrationInv

\* The transaction is committed as a whole.
LEMMA CommitKeeps ==
    ASSUME MigrationInv, CommitMigration
    PROVE  /\ MigrationInv' /\ db'.revision = tx.goal
           /\ db'.objects \intersect EXTERNALLY_MANAGED
              = db.objects \intersect EXTERNALLY_MANAGED
           /\ tx.goal = db.revision => db' = db
<1>1. /\ tx # None /\ ~ Upgrading /\ ~ Downgrading /\ db' = tx.view /\ tx' = None
    BY DEF CommitMigration
<1>2. /\ tx.view \in View /\ tx.view.revision \in 0 .. 3 /\ tx.goal \in 0 .. 3
      /\ Own(tx.view.objects) = RevisionObjects(tx.view.revision)
      /\ tx.view.objects \intersect EXTERNALLY_MANAGED
         = db.objects \intersect EXTERNALLY_MANAGED
      /\ tx.goal = db.revision => tx.view = db
    BY <1>1, Lists DEF MigrationInv, Progress, View
<1>3. tx.view.revision = tx.goal
    BY <1>1, <1>2 DEF Upgrading, Downgrading
<1> QED
    BY <1>1, <1>2, <1>3 DEF MigrationInv

\* A migration that is stopped leaves nothing behind.
LEMMA MigrationGone ==
    ASSUME MigrationInv, tx' = None, UNCHANGED db
    PROVE  MigrationInv'
BY DEF MigrationInv

-----------------------------------------------------------------------------
(* What the invariant gives *)

\* The two properties follow from the invariant alone.
LEMMA SchemaFollows == MigrationInv => SchemaIsItsRevision
BY Ends DEF MigrationInv, SchemaIsItsRevision, Own

\* An operation finds what it needs in place and what needs it gone.
LEMMA NothingRefused == MigrationInv => MigrationsRunThrough
<1> SUFFICES ASSUME MigrationInv, InRevision, ~ Possible
             PROVE  /\ Object = "vector"
                    /\ Downgrading /\ "langchain_pg_embedding" \in db.objects
    BY DEF MigrationsRunThrough
<1> DEFINE r == tx.view.revision
           k == tx.done
<1>1. /\ tx # None /\ (Upgrading \/ Downgrading) /\ k < Len(Operations) /\ k \in Nat
      /\ tx.view.objects \intersect EXTERNALLY_MANAGED
         = db.objects \intersect EXTERNALLY_MANAGED
    BY Plans DEF InRevision, MigrationInv
<1>2. CASE Upgrading
    <2>1. /\ r \in 0 .. 2 /\ k \in 0 .. Len(Created[r + 1]) - 1
          /\ Own(tx.view.objects) = PartlyCreated(r, k) /\ Object = Created[r + 1][k + 1]
        BY <1>1, <1>2, Plans, Lengths DEF MigrationInv, Progress, Object
    <2>2. /\ Object \notin PartlyCreated(r, k) /\ Object \notin EXTERNALLY_MANAGED
          /\ Needs(Object) \subseteq PartlyCreated(r, k)
        BY <2>1, CreatedInOrder DEF CreatedNext
    <2>3. Object \notin tx.view.objects /\ Needs(Object) \subseteq tx.view.objects
        BY <2>1, <2>2 DEF Own
    <2> QED
        BY <1>2, <2>3 DEF Possible
<1>3. CASE Downgrading
    <2>1. /\ r \in 1 .. 3 /\ k \in 0 .. Len(Dropped[r]) - 1 /\ ~ Upgrading
          /\ Own(tx.view.objects) = PartlyDropped(r, k) /\ Object = Dropped[r][k + 1]
        BY <1>1, <1>3, Plans, Lengths DEF MigrationInv, Progress, Object
    <2>2. /\ Object \in PartlyDropped(r, k) /\ Object \notin EXTERNALLY_MANAGED
          /\ \A p \in PartlyDropped(r, k) : Object \notin Needs(p)
          /\ \A p \in EXTERNALLY_MANAGED :
                Object \in Needs(p) => Object = "vector" /\ p = "langchain_pg_embedding"
        BY <2>1, DroppedInOrder DEF DroppedNext
    <2>3. PICK p \in tx.view.objects : Object \in Needs(p)
        BY <2>1, <2>2 DEF Possible, Own
    <2>4. p \in EXTERNALLY_MANAGED
        BY <2>1, <2>2, <2>3 DEF Own
    <2> QED
        BY <1>1, <1>3, <2>2, <2>3, <2>4
<1> QED
    BY <1>1, <1>2, <1>3

-----------------------------------------------------------------------------
(* What is proved of the procedures *)

Clean(text) == \A i \in DOMAIN text : text[i] \notin Suspicious

\* The document is the one its identifier stands for ...
WellFormed(d) == d = Document(d.source, d.chunk_index, d.page_content)

\* ... and a chunk of a clean text that was read.
Sourced(d) ==
    \E r \in read : /\ r.name = d.source
                    /\ d.chunk_index \in DOMAIN r.text
                    /\ r.text[d.chunk_index] = d.page_content
                    /\ Clean(r.text)

Loaded == IF ingestion = Nil THEN {} ELSE ingestion.loaded

DocumentsInv == \A d \in store \union Loaded : WellFormed(d) /\ Sourced(d)

\* What a running ingestion has read, and what a fresh store has.
FreshInv ==
    /\ fresh = "reading" /\ ingestion # Nil =>
          \A name \in Present \ ingestion.unread :
             approved_documents(name, files[name]) \subseteq ingestion.loaded
    /\ fresh = "yes" =>
          \A name \in Present : approved_documents(name, files[name]) \subseteq store

ProcedureInv == DocumentsInv /\ FreshInv

-----------------------------------------------------------------------------
(* The procedures *)

\* What the reading of a file gives.
LEMMA ApprovedDocuments ==
    ASSUME NEW name, NEW text, NEW d \in approved_documents(name, text)
    PROVE  /\ WellFormed(d) /\ d.source = name /\ d.approved
           /\ d.chunk_index \in DOMAIN text /\ text[d.chunk_index] = d.page_content
           /\ Clean(text)
BY DEF approved_documents, detect_prompt_injection, Document, WellFormed, Clean

LEMMA ApprovedWhole ==
    ASSUME NEW name, NEW text, Clean(text), NEW i \in DOMAIN text
    PROVE  Document(name, i, text[i]) \in approved_documents(name, text)
BY DEF approved_documents, detect_prompt_injection, Clean

\* An identifier determines its parts.
LEMMA SameIdentifier ==
    ASSUME NEW a, NEW b, NEW c, NEW x, NEW y, NEW z, <<a, b, c>> = <<x, y, z>>
    PROVE  a = x /\ b = y /\ c = z
OBVIOUS

\* Documents with one identifier are one document: replacing only adds.
LEMMA ReplacingAdds ==
    ASSUME NEW old, NEW new, \A d \in old \union new : WellFormed(d)
    PROVE  Replacing(old, new) = old \union new
<1>1. ASSUME NEW d \in old, NEW e \in new, d.id = e.id PROVE d = e
    <2>1. WellFormed(d) /\ WellFormed(e)
        OBVIOUS
    <2>2. /\ d.id = <<d.source, d.chunk_index, d.page_content>>
          /\ e.id = <<e.source, e.chunk_index, e.page_content>>
        BY <2>1 DEF WellFormed, Document, Identifier
    <2>3. /\ d.source = e.source /\ d.chunk_index = e.chunk_index
          /\ d.page_content = e.page_content
        <3>1. <<d.source, d.chunk_index, d.page_content>>
              = <<e.source, e.chunk_index, e.page_content>>
            BY <1>1, <2>2, Zenon
        <3> QED
            BY <3>1, SameIdentifier
    <2> QED
        BY <2>1, <2>3 DEF WellFormed
<1> QED
    BY <1>1 DEF Replacing

\* ProcedureInv holds at the start and each step preserves it.
LEMMA InitProcedures == Init => ProcedureInv
BY DEF Init, ProcedureInit, ProcedureInv, DocumentsInv, FreshInv, Loaded

LEMMA ReadingKeeps ==
    ASSUME ProcedureInv, NEW name \in Names, ReadFile(name) PROVE ProcedureInv'
<1> DEFINE new == approved_documents(name, files[name])
           both == ingestion.loaded \union new
<1>1. Loaded = ingestion.loaded
    BY DEF ReadFile, Loaded
<1>2. \A d \in new : WellFormed(d)
    BY ApprovedDocuments
<1>3. ingestion' = [unread |-> ingestion.unread \ {name}, loaded |-> both]
    BY <1>1, <1>2, ReplacingAdds DEF ReadFile, ProcedureInv, DocumentsInv
<1>4. /\ read' = read \union {[name |-> name, text |-> files[name]]}
      /\ UNCHANGED <<files, store, fresh>>
    BY DEF ReadFile
<1>5. ASSUME NEW d \in store \union Loaded PROVE WellFormed(d) /\ Sourced(d)'
    BY <1>4 DEF ProcedureInv, DocumentsInv, Sourced
<1>6. ASSUME NEW d \in new PROVE WellFormed(d) /\ Sourced(d)'
    <2>1. /\ WellFormed(d) /\ d.source = name /\ d.chunk_index \in DOMAIN files[name]
          /\ files[name][d.chunk_index] = d.page_content /\ Clean(files[name])
        BY ApprovedDocuments
    <2> DEFINE r == [name |-> name, text |-> files[name]]
    <2>2. r \in read' /\ r.name = name /\ r.text = files[name]
        BY <1>4
    <2> HIDE DEF r
    <2> QED
        BY <2>1, <2>2 DEF Sourced
<1> HIDE DEF new
<1>7. DocumentsInv'
    BY <1>1, <1>3, <1>4, <1>5, <1>6 DEF DocumentsInv, Loaded, WellFormed
<1>8. FreshInv'
    BY <1>3, <1>4 DEF ProcedureInv, FreshInv, Present, new, ReadFile
<1> QED
    BY <1>7, <1>8 DEF ProcedureInv

LEMMA AddingKeeps ==
    ASSUME ProcedureInv, AddDocuments PROVE ProcedureInv'
<1>1. Loaded = ingestion.loaded /\ ingestion.unread = {} /\ ingestion # Nil
    BY DEF AddDocuments, AllRead, Loaded
<1>2. store' = store \union Loaded
    BY <1>1, ReplacingAdds DEF AddDocuments, ProcedureInv, DocumentsInv
<1>3. DocumentsInv'
    BY <1>2 DEF AddDocuments, ProcedureInv, DocumentsInv, Loaded, Sourced
<1>4. FreshInv'
    BY <1>1, <1>2 DEF AddDocuments, ProcedureInv, FreshInv, Present
<1> QED
    BY <1>3, <1>4 DEF ProcedureInv

LEMMA NextProcedures == ProcedureInv /\ [Next]_vars => ProcedureInv'
<1> SUFFICES ASSUME ProcedureInv, [Next]_vars PROVE ProcedureInv'
    OBVIOUS
<1>1. CASE UNCHANGED procedureVars
    BY <1>1 DEF procedureVars, ProcedureInv, DocumentsInv, FreshInv, Loaded, Sourced, Present
<1>2. ASSUME NEW name \in Names, Edit(name) PROVE ProcedureInv'
    BY <1>2 DEF Edit, ProcedureInv, DocumentsInv, FreshInv, Loaded, Sourced
<1>3. CASE StartIngestion
    BY <1>3 DEF StartIngestion, ProcedureInv, DocumentsInv, FreshInv, Loaded, Sourced, Present
<1>4. CASE AbandonIngestion
    BY <1>4 DEF AbandonIngestion, ProcedureInv, DocumentsInv, FreshInv, Loaded, Sourced, Present
<1>5. CASE EditFile \/ Ingest \/ FinishIngestion \/ IngestionRaises
    BY <1>2, <1>3, <1>4, <1>5, ReadingKeeps, AddingKeeps
       DEF EditFile, Ingest, FinishIngestion, IngestionRaises
<1>6. ASSUME NEW ss, Stops(ss) PROVE ProcedureInv'
    BY <1>1, <1>4, <1>6 DEF Stops
<1>7. CASE Down \/ PostgresRestarts \/ \E s \in Services : Fails(s)
    BY <1>6, <1>7 DEF Down, PostgresRestarts, Fails
<1>8. CASE Up \/ Downgrade \/ UNCHANGED vars
    BY <1>1, <1>8 DEF Up, Downgrade, storage, vars
<1>9. CASE ServiceStep
    <2>1. CASE \/ \E s \in Services : StartContainer(s) \/ ServerStarts(s)
               \/ StartMigration \/ Migrate \/ Seed \/ SetupCheckpoints
               \/ \E state : MigrationEnds(state)
        BY <1>1, <2>1 DEF StartContainer, ServerStarts, StartMigration, Migrate, Seed,
                          SetupCheckpoints, MigrationEnds, storage
    <2> QED
        BY <1>5, <1>9, <2>1 DEF ServiceStep
<1> QED
    BY <1>5, <1>7, <1>8, <1>9 DEF Next

\* No part of a text with a suspicious pattern is ever found, however files are
\* edited and ingestions stopped and repeated.
THEOREM QuarantineHolds == Spec => []QuarantinedTextsAreNotFound
<1>1. ProcedureInv => QuarantinedTextsAreNotFound
    BY DEF ProcedureInv, DocumentsInv, Sourced, Clean, QuarantinedTextsAreNotFound, Found
<1> QED
    BY <1>1, InitProcedures, NextProcedures, PTL DEF Spec

\* After an ingestion and until the next edit every clean procedure can be found
\* whole, whatever texts the procedures share.
THEOREM CleanProceduresFound == Spec => []ProceduresAreFound
<1>1. ProcedureInv => ProceduresAreFound
    <2> SUFFICES ASSUME ProcedureInv, NEW name \in Present, fresh = "yes",
                        Clean(files[name]), NEW i \in DOMAIN files[name]
                 PROVE  \E d \in Found : /\ d.source = name /\ d.chunk_index = i
                                         /\ d.page_content = files[name][i]
        BY DEF ProceduresAreFound, Clean
    <2> DEFINE d == Document(name, i, files[name][i])
    <2>1. d \in store
        BY ApprovedWhole DEF ProcedureInv, FreshInv
    <2>2. /\ d.source = name /\ d.chunk_index = i /\ d.page_content = files[name][i]
          /\ d.approved
        BY DEF Document
    <2> QED
        BY <2>1, <2>2 DEF Found
<1> QED
    BY <1>1, InitProcedures, NextProcedures, PTL DEF Spec

-----------------------------------------------------------------------------
(* The containers and the database *)

ServerStates == {"absent", "created", "running", "healthy", "failed"}
TaskStates == {"absent", "created", "running", "done", "failed"}

StatusType ==
    /\ status \in [Services -> ServerStates \union TaskStates]
    /\ \A s \in Tasks : status[s] \in TaskStates
    /\ \A s \in Servers : status[s] \in ServerStates

OthersType ==
    /\ files \in [Names -> Texts \union {Nil}]
    /\ ingestion # Nil => ingestion.unread \subseteq Names
    /\ allowed \in BOOLEAN
    /\ faults \in 0 .. MaxFaults

\* A migration belongs to the task, or runs while nothing else does.
AloneInv ==
    tx # None =>
       \/ status["migrate"] = "running" /\ tx.goal = HeadRevision
       \/ ~ Working /\ status["mcp"] # "healthy" /\ status["api"] # "healthy"

\* What the containers that have got so far can rely on.
PreparedInv ==
    /\ \A s \in {"seed", "checkpointer-setup", "ingest"} :
          status[s] = "running" => status["migrate"] = "done"
    /\ status["migrate"] = "done" /\ status["seed"] \in {"created", "running"} =>
          db.revision = HeadRevision
    /\ \/ status["seed"] = "done" /\ status["mcp"] = "created"
       \/ status["mcp"] \in {"running", "healthy"}
       => db.revision = HeadRevision /\ db.seeded
    /\ status["checkpointer-setup"] = "done" \/ status["api"] \in {"running", "healthy"} =>
          CheckpointTables \subseteq db.objects

DeploymentInv == StatusType /\ OthersType /\ MigrationInv /\ AloneInv /\ PreparedInv

\* A container can only be started once what it needs has got so far.
LEMMA Dependencies ==
    /\ Startable("seed") <=> status["seed"] = "created" /\ status["migrate"] = "done"
    /\ Startable("mcp") <=> status["mcp"] = "created" /\ status["seed"] = "done"
    /\ Startable("api") =>
          status["api"] = "created" /\ status["checkpointer-setup"] = "done"
    /\ \A s \in {"checkpointer-setup", "ingest"} : Startable(s) => status["migrate"] = "done"
    /\ \A s \in Services : Startable(s) \/ status[s] = "running" => Working
    /\ {"migrate", "seed", "checkpointer-setup", "ingest"} = Tasks
    /\ {"postgres", "mcp", "api", "ui"} = Servers /\ Services = Tasks \union Servers
BY DEF Startable, DependsOn, Satisfied, Working, Tasks, Servers, Services

\* While a migration is in progress no other task runs.
LEMMA Alone ==
    ASSUME DeploymentInv, NEW s \in {"seed", "checkpointer-setup", "ingest"},
           status[s] = "running"
    PROVE  tx = None /\ status["migrate"] = "done"
BY Dependencies DEF DeploymentInv, AloneInv, PreparedInv

\* A step of the containers that leaves the storage alone.
LEMMA StorageStays ==
    ASSUME DeploymentInv, UNCHANGED <<db, tx>>
    PROVE  MigrationInv'
BY DEF DeploymentInv, MigrationInv, Progress, Upgrading, Downgrading, Operations

\* Each step keeps DeploymentInv: first those of containers ...
LEMMA Upped == ASSUME DeploymentInv, Up PROVE DeploymentInv'
<1>1. MigrationInv'
    BY StorageStays DEF Up, storage
<1>2. StatusType' /\ OthersType'
    BY DEF Up, storage, procedureVars, DeploymentInv, StatusType, OthersType, ServerStates,
           TaskStates, Services, Tasks, Servers
<1>3. AloneInv'
    BY DEF Up, storage, AloneInv
<1>4. PreparedInv'
    BY Dependencies DEF Up, storage, DeploymentInv, PreparedInv
<1> QED
    BY <1>1, <1>2, <1>3, <1>4 DEF DeploymentInv

LEMMA ContainersStart ==
    ASSUME DeploymentInv, NEW s \in Services, StartContainer(s)
    PROVE  DeploymentInv'
<1>1. /\ Startable(s) /\ status[s] = "created" /\ status' = [status EXCEPT ![s] = "running"]
      /\ UNCHANGED <<db, tx, procedureVars, allowed, faults>> /\ Working
    BY Dependencies DEF StartContainer, Startable, Becomes, storage
<1>2. MigrationInv'
    BY <1>1, StorageStays
<1>3. StatusType' /\ OthersType'
    BY <1>1 DEF procedureVars, DeploymentInv, StatusType, OthersType, ServerStates, TaskStates,
                Services, Tasks, Servers
<1>4. AloneInv'
    BY <1>1, Dependencies DEF DeploymentInv, AloneInv, StatusType
<1>5. PreparedInv'
    BY <1>1, Dependencies DEF DeploymentInv, PreparedInv, StatusType
<1> QED
    BY <1>2, <1>3, <1>4, <1>5 DEF DeploymentInv

LEMMA ServersStart ==
    ASSUME DeploymentInv, NEW s \in Services, ServerStarts(s)
    PROVE  DeploymentInv'
<1>1. /\ s \in Servers /\ status[s] = "running" /\ Working
      /\ status' = [status EXCEPT ![s] = "healthy"] \/ status' = [status EXCEPT ![s] = "failed"]
      /\ UNCHANGED <<db, tx, procedureVars, allowed, faults>>
    BY Dependencies DEF ServerStarts, Becomes, storage
<1>2. MigrationInv'
    BY <1>1, StorageStays
<1>3. StatusType' /\ OthersType'
    BY <1>1 DEF procedureVars, DeploymentInv, StatusType, OthersType, ServerStates, TaskStates,
                Services, Tasks, Servers
<1>4. AloneInv'
    BY <1>1, Dependencies DEF DeploymentInv, AloneInv, StatusType
<1>5. PreparedInv'
    BY <1>1, Dependencies DEF DeploymentInv, PreparedInv, StatusType
<1> QED
    BY <1>2, <1>3, <1>4, <1>5 DEF DeploymentInv

\* ... those of migrations ...
LEMMA MigrationsBegin ==
    ASSUME DeploymentInv, StartMigration \/ Downgrade
    PROVE  DeploymentInv'
<1>1. /\ UNCHANGED <<db, procedureVars, status, allowed>>
      /\ \E goal \in Base .. HeadRevision :
            /\ BeginMigration(goal) /\ tx'.goal = goal
            /\ \/ status["migrate"] = "running" /\ goal = HeadRevision
               \/ ~ Working /\ status["mcp"] # "healthy" /\ status["api"] # "healthy"
    <2>1. db.revision \in 0 .. 3 /\ Base = 0 /\ HeadRevision = 3
        BY Lists DEF DeploymentInv, MigrationInv, View
    <2> QED
        BY <2>1 DEF StartMigration, Downgrade, Runs, BeginMigration
<1>2. MigrationInv'
    BY <1>1, MigrationBegins DEF DeploymentInv
<1>3. StatusType' /\ OthersType'
    BY <1>1, BoundsAssumption
       DEF procedureVars, DeploymentInv, StatusType, OthersType, StartMigration, Downgrade
<1>4. AloneInv'
    BY <1>1 DEF AloneInv, Working, Startable, Satisfied
<1>5. PreparedInv'
    BY <1>1 DEF DeploymentInv, PreparedInv
<1> QED
    BY <1>2, <1>3, <1>4, <1>5 DEF DeploymentInv

LEMMA MigrationsGoOn == ASSUME DeploymentInv, Migrate PROVE DeploymentInv'
<1>1. tx # None /\ UNCHANGED <<db, procedureVars, status, allowed, faults>>
    BY DEF Migrate, MigrationStep, Operation, Stamp, InRevision, Uncommitted
<1>2. MigrationInv'
    BY OperationKeeps, StampKeeps DEF Migrate, MigrationStep, DeploymentInv
<1>3. tx'.goal = tx.goal
    <2>1. tx \in [view : View, done : Nat, goal : Base .. HeadRevision]
        BY <1>1 DEF DeploymentInv, MigrationInv
    <2> QED
        BY <2>1 DEF Migrate, MigrationStep, Operation, Stamp
<1>4. StatusType' /\ OthersType' /\ PreparedInv'
    BY <1>1 DEF procedureVars, DeploymentInv, StatusType, OthersType, PreparedInv
<1>5. AloneInv'
    BY <1>1, <1>3 DEF DeploymentInv, AloneInv, Working, Startable, Satisfied
<1> QED
    BY <1>2, <1>4, <1>5 DEF DeploymentInv

LEMMA MigrationsEnd ==
    ASSUME DeploymentInv,
           \/ CommitMigration /\ MigrationEnds("done")
           \/ MigrationRefused /\ MigrationEnds("failed")
    PROVE  DeploymentInv'
<1>1. /\ tx # None /\ tx' = None /\ UNCHANGED <<procedureVars, allowed, faults>>
      /\ \/ /\ status["migrate"] = "running"
            /\ \E state \in {"done", "failed"} : status' = [status EXCEPT !["migrate"] = state]
         \/ status["migrate"] # "running" /\ UNCHANGED status
    BY DEF CommitMigration, MigrationRefused, InRevision, MigrationEnds
<1>2. MigrationInv'
    BY CommitKeeps, MigrationGone DEF DeploymentInv, MigrationRefused
<1>3. StatusType' /\ OthersType'
    BY <1>1 DEF procedureVars, DeploymentInv, StatusType, OthersType, ServerStates, TaskStates,
                Services, Tasks, Servers
<1>4. AloneInv'
    BY <1>1 DEF AloneInv
<1>5. PreparedInv'
    <2>1. CASE MigrationRefused /\ MigrationEnds("failed")
        <3>1. db' = db
            BY <2>1 DEF MigrationRefused
        <3>2. \/ UNCHANGED status
              \/ status["migrate"] = "running" /\ status' = [status EXCEPT !["migrate"] = "failed"]
            BY <2>1 DEF MigrationEnds
        <3> QED
            BY <3>1, <3>2, Dependencies DEF DeploymentInv, PreparedInv, StatusType
    <2>2. CASE CommitMigration /\ MigrationEnds("done")
        <3>1. /\ db'.revision = tx.goal /\ (tx.goal = db.revision => db' = db)
              /\ db'.objects \intersect EXTERNALLY_MANAGED
                 = db.objects \intersect EXTERNALLY_MANAGED
            BY <2>2, CommitKeeps DEF DeploymentInv
        <3>2. CheckpointTables \subseteq db.objects => CheckpointTables \subseteq db'.objects
            BY <3>1 DEF EXTERNALLY_MANAGED
        <3>3. CASE status["migrate"] = "running"
            <4>1. tx.goal = HeadRevision
                BY <1>1, <3>3, Dependencies DEF DeploymentInv, AloneInv
            <4>2. status' = [status EXCEPT !["migrate"] = "done"]
                BY <2>2, <3>3 DEF MigrationEnds
            <4> QED
                BY <3>1, <3>2, <3>3, <4>1, <4>2, Dependencies
                   DEF DeploymentInv, PreparedInv, StatusType
        <3>4. CASE status["migrate"] # "running"
            <4>1. /\ ~ Working /\ status["mcp"] # "healthy" /\ status["api"] # "healthy"
                  /\ UNCHANGED status
                BY <1>1, <3>4 DEF DeploymentInv, AloneInv
            <4> QED
                BY <3>2, <4>1, Dependencies DEF DeploymentInv, PreparedInv
        <3> QED
            BY <3>3, <3>4
    <2> QED
        BY <2>1, <2>2
<1> QED
    BY <1>2, <1>3, <1>4, <1>5 DEF DeploymentInv

\* ... and those of the other tasks.
LEMMA Seeding == ASSUME DeploymentInv, Seed PROVE DeploymentInv'
<1>1. /\ status["seed"] = "running" /\ SeedResult \in {"done", "failed"}
      /\ status' = [status EXCEPT !["seed"] = SeedResult]
      /\ db' = [db EXCEPT !.seeded = @ \/ SeedResult = "done"]
      /\ UNCHANGED <<tx, procedureVars, allowed, faults>>
    BY DEF Seed, Runs, Becomes, SeedResult
<1>2. tx = None /\ status["migrate"] = "done"
    BY <1>1, Alone
<1>3. /\ db \in View /\ db'.seeded = (db.seeded \/ SeedResult = "done")
      /\ db'.objects = db.objects /\ db'.revision = db.revision
    BY <1>1 DEF DeploymentInv, MigrationInv, View
<1>4. MigrationInv'
    <2>1. db' \in View
        BY <1>1, <1>3 DEF View
    <2> QED
        BY <1>1, <1>2, <1>3, <2>1 DEF DeploymentInv, MigrationInv
<1>5. StatusType' /\ OthersType'
    BY <1>1 DEF procedureVars, DeploymentInv, StatusType, OthersType, ServerStates, TaskStates,
                Services, Tasks, Servers
<1>6. AloneInv'
    BY <1>1, <1>2 DEF AloneInv
<1>7. PreparedInv'
    BY <1>1, <1>2, <1>3, Dependencies DEF DeploymentInv, PreparedInv, StatusType
<1> QED
    BY <1>4, <1>5, <1>6, <1>7 DEF DeploymentInv

\* The tables of the libraries are added.
LEMMA Adding ==
    ASSUME DeploymentInv, tx = None, UNCHANGED <<tx, allowed, faults>>, OthersType', StatusType',
           NEW objects \in SUBSET EXTERNALLY_MANAGED,
           db' = [db EXCEPT !.objects = @ \union objects],
           \A s \in Services \ {"checkpointer-setup", "ingest"} : status'[s] = status[s],
           \A s \in {"checkpointer-setup", "ingest"} :
              status'[s] = "running" => status[s] = "running",
           status'["checkpointer-setup"] = "done" =>
              status["checkpointer-setup"] = "done" \/ CheckpointTables \subseteq db.objects
    PROVE  DeploymentInv'
<1>1. /\ db \in View /\ db'.seeded = db.seeded
      /\ db'.objects = db.objects \union objects /\ db'.revision = db.revision
    BY DEF DeploymentInv, MigrationInv, View
<1>2. MigrationInv'
    <2>1. db' \in View
        BY <1>1 DEF View, AllObjects
    <2> QED
        BY <1>1, <2>1 DEF DeploymentInv, MigrationInv, Own
<1>3. AloneInv'
    BY DEF AloneInv
<1>4. PreparedInv'
    BY <1>1, Dependencies DEF DeploymentInv, PreparedInv
<1> QED
    BY <1>2, <1>3, <1>4 DEF DeploymentInv

\* Tables are added by the two tasks that use the libraries.
LEMMA CheckpointsAreSetUp == ASSUME DeploymentInv, SetupCheckpoints PROVE DeploymentInv'
<1>1. /\ status["checkpointer-setup"] = "running"
      /\ UNCHANGED <<tx, procedureVars, allowed, faults>>
      /\ \/ /\ status' = [status EXCEPT !["checkpointer-setup"] = "done"]
            /\ CheckpointTables \subseteq db.objects /\ db' = db
         \/ /\ UNCHANGED status
            /\ \E t \in CheckpointTables : db' = [db EXCEPT !.objects = @ \union {t}]
    BY DEF SetupCheckpoints, Runs, Becomes, FindsTables
<1>2. tx = None
    BY <1>1, Alone
<1>3. StatusType' /\ OthersType'
    BY <1>1 DEF procedureVars, DeploymentInv, StatusType, OthersType, ServerStates, TaskStates,
                Services, Tasks, Servers
<1>4. db = [db EXCEPT !.objects = @ \union {}]
    BY DEF DeploymentInv, MigrationInv, View
<1>5. \E objects \in SUBSET EXTERNALLY_MANAGED : db' = [db EXCEPT !.objects = @ \union objects]
    <2>1. \A t \in CheckpointTables : {t} \in SUBSET EXTERNALLY_MANAGED
        BY DEF EXTERNALLY_MANAGED
    <2> QED
        BY <1>1, <1>4, <2>1
<1>6. /\ \A s \in Services \ {"checkpointer-setup", "ingest"} : status'[s] = status[s]
      /\ \A s \in {"checkpointer-setup", "ingest"} :
            status'[s] = "running" => status[s] = "running"
      /\ status'["checkpointer-setup"] = "done" =>
            status["checkpointer-setup"] = "done" \/ CheckpointTables \subseteq db.objects
    BY <1>1 DEF DeploymentInv, StatusType, Services, Tasks
<1> QED
    BY <1>1, <1>2, <1>3, <1>5, <1>6, Adding

LEMMA IngestionFinishes == ASSUME DeploymentInv, FinishIngestion PROVE DeploymentInv'
<1>1. /\ status["ingest"] = "running" /\ status' = [status EXCEPT !["ingest"] = "done"]
      /\ UNCHANGED <<files, tx, allowed, faults>> /\ ingestion' = Nil
      /\ db' = db \/ db' = [db EXCEPT !.objects = @ \union VectorTables]
    BY DEF FinishIngestion, Runs, Becomes, AddDocuments
<1>2. tx = None
    BY <1>1, Alone
<1>3. StatusType' /\ OthersType'
    BY <1>1 DEF DeploymentInv, StatusType, OthersType, ServerStates, TaskStates,
                Services, Tasks, Servers
<1>4. db = [db EXCEPT !.objects = @ \union {}]
    BY DEF DeploymentInv, MigrationInv, View
<1>5. \E objects \in SUBSET EXTERNALLY_MANAGED : db' = [db EXCEPT !.objects = @ \union objects]
    BY <1>1, <1>4 DEF EXTERNALLY_MANAGED
<1>6. \A s \in Services \ {"ingest"} : status'[s] = status[s]
    BY <1>1 DEF DeploymentInv, StatusType
<1>7. status'["ingest"] = "done"
    BY <1>1 DEF DeploymentInv, StatusType, Services, Tasks
<1> QED
    BY <1>1, <1>2, <1>3, <1>5, <1>6, <1>7, Adding DEF Services, Tasks

\* What concerns the files only.
LEMMA FilesAreRead == ASSUME DeploymentInv, Ingest \/ EditFile PROVE DeploymentInv'
<1>1. UNCHANGED <<db, tx, status, allowed, faults>>
    BY DEF Ingest, EditFile
<1>2. OthersType'
    <2>1. ASSUME NEW name \in Names, Edit(name) PROVE OthersType'
        BY <1>1, <2>1 DEF Edit, DeploymentInv, OthersType
    <2>2. ASSUME NEW name \in Names, ReadFile(name) PROVE OthersType'
        BY <1>1, <2>2 DEF ReadFile, DeploymentInv, OthersType
    <2>3. CASE StartIngestion
        BY <1>1, <2>3 DEF StartIngestion, Present, DeploymentInv, OthersType
    <2> QED
        BY <2>1, <2>2, <2>3 DEF Ingest, EditFile
<1>3. MigrationInv'
    BY <1>1, StorageStays
<1>4. StatusType' /\ AloneInv' /\ PreparedInv'
    BY <1>1 DEF DeploymentInv, StatusType, AloneInv, PreparedInv, Working, Startable, Satisfied
<1> QED
    BY <1>2, <1>3, <1>4 DEF DeploymentInv

\* Whatever stops, the schema stays that of its revision, and nothing that goes
\* on relies on what has stopped.
LEMMA Stopping ==
    ASSUME DeploymentInv, StatusType', UNCHANGED <<db, allowed>>,
           tx' = None \/ UNCHANGED tx,
           OthersType',
           \A s \in Services : status'[s] = status[s] \/ status'[s] \in {"absent", "failed"}
                                \/ s = "postgres",
           tx' # None => status'["migrate"] = status["migrate"],
           tx' # None /\ ~ Working => ~ Working',
           \A s \in {"seed", "checkpointer-setup", "ingest"} :
              status'[s] = "running" => status'["migrate"] = status["migrate"]
    PROVE  DeploymentInv'
<1>1. MigrationInv'
    BY StorageStays, MigrationGone DEF DeploymentInv
<1>2. AloneInv'
    BY Dependencies DEF DeploymentInv, AloneInv
<1>3. PreparedInv'
    BY Dependencies DEF DeploymentInv, PreparedInv
<1> QED
    BY <1>1, <1>2, <1>3 DEF DeploymentInv
\* What Stops leaves of the variables.
LEMMA StoppingKeepsTypes ==
    ASSUME DeploymentInv, NEW ss, Stops(ss)
    PROVE  OthersType' /\ UNCHANGED <<db, allowed>> /\ (tx' = None \/ UNCHANGED tx)
<1>1. files' = files /\ (ingestion' = Nil \/ ingestion' = ingestion)
    BY DEF Stops, AbandonIngestion, procedureVars
<1>2. faults' \in 0 .. MaxFaults
    BY BoundsAssumption DEF Stops, DeploymentInv, OthersType
<1> QED
    BY <1>1, <1>2 DEF Stops, DeploymentInv, OthersType

\* A container, the database or everything stops.
LEMMA ContainersFail ==
    ASSUME DeploymentInv, NEW s \in Services, Fails(s)
    PROVE  DeploymentInv'
<1>1. /\ s # "postgres" /\ status' = [status EXCEPT ![s] = "failed"] /\ Stops({s})
      /\ status[s] = IF s \in Tasks THEN "running" ELSE "healthy"
    BY DEF Fails, Becomes
<1>2. StatusType'
    BY <1>1 DEF DeploymentInv, StatusType, ServerStates, TaskStates, Services, Tasks, Servers
<1>3. \A d \in Services : status'[d] = IF d = s THEN "failed" ELSE status[d]
    BY <1>1 DEF DeploymentInv, StatusType
<1>4. tx' # None => s # "migrate"
    BY <1>1 DEF Stops
<1>5. ~ Working => ~ Working'
    <2> SUFFICES ASSUME NEW c \in Services, Startable(c)' \/ status'[c] = "running"
                 PROVE  Working
        BY DEF Working
    <2>1. DependsOn(c) \subseteq Services /\ c # s /\ status'[c] = status[c]
        BY <1>3 DEF DependsOn, Services, Tasks, Servers, Startable
    <2>2. \A d \in DependsOn(c) : Satisfied(d)' => Satisfied(d)
        BY <1>3, <2>1 DEF Satisfied
    <2> QED
        BY <2>1, <2>2 DEF Working, Startable
<1>6. ASSUME NEW d \in {"seed", "checkpointer-setup", "ingest"}, status'[d] = "running"
      PROVE  status'["migrate"] = status["migrate"]
    <2>1. status[d] = "running"
        BY <1>3, <1>6, Dependencies
    <2>2. s # "migrate"
        BY <1>1, <2>1, Alone, Dependencies
    <2> QED
        BY <1>3, <2>2, Dependencies
<1>7. UNCHANGED <<db, allowed>> /\ OthersType' /\ (tx' = None \/ UNCHANGED tx)
    BY <1>1, StoppingKeepsTypes
<1>8. tx' # None => status'["migrate"] = status["migrate"]
    BY <1>3, <1>4, Dependencies
<1> QED
    BY <1>2, <1>3, <1>5, <1>6, <1>7, <1>8, Stopping

LEMMA DatabaseRestarts == ASSUME DeploymentInv, PostgresRestarts PROVE DeploymentInv'
<1> DEFINE lost == {s \in Tasks : status[s] = "running"}
<1>1. /\ Stops(lost \union {"postgres"})
      /\ status' = [s \in Services |->
            IF s = "postgres" THEN "running" ELSE IF s \in lost THEN "failed" ELSE status[s]]
    BY DEF PostgresRestarts
<1>2. UNCHANGED <<db, allowed>> /\ OthersType' /\ tx' = None
    BY <1>1, StoppingKeepsTypes DEF Stops
<1>3. StatusType'
    BY <1>1 DEF DeploymentInv, StatusType, ServerStates, TaskStates, Services, Tasks, Servers
<1>4. \A s \in Tasks : status'[s] # "running"
    BY <1>1 DEF Services, Tasks, Servers
<1>5. \A s \in Services : status'[s] = status[s] \/ status'[s] = "failed" \/ s = "postgres"
    BY <1>1
<1> QED
    BY <1>2, <1>3, <1>4, <1>5, Stopping, Dependencies

LEMMA EverythingStops == ASSUME DeploymentInv, Down PROVE DeploymentInv'
<1>1. Stops(Services) /\ status' = [s \in Services |-> "absent"]
    BY DEF Down
<1>2. UNCHANGED <<db, allowed>> /\ OthersType' /\ tx' = None
    BY <1>1, StoppingKeepsTypes DEF Stops, Services, Tasks
<1>3. StatusType' /\ \A s \in Services : status'[s] = "absent"
    BY <1>1 DEF StatusType, ServerStates, TaskStates, Services, Tasks, Servers
<1> QED
    BY <1>2, <1>3, Stopping, Dependencies
\* An ingestion that raises changes only its own status.
LEMMA IngestionFails == ASSUME DeploymentInv, IngestionRaises PROVE DeploymentInv'
<1>1. /\ status["ingest"] = "running" /\ status' = [status EXCEPT !["ingest"] = "failed"]
      /\ UNCHANGED <<db, tx, files, allowed, faults>> /\ ingestion' = Nil
    BY DEF IngestionRaises, Runs, Becomes, AbandonIngestion
<1>2. tx = None
    BY <1>1, Alone
<1>3. StatusType' /\ OthersType'
    BY <1>1 DEF DeploymentInv, StatusType, OthersType, ServerStates, TaskStates,
                Services, Tasks, Servers
<1>4. \A s \in Services : status'[s] = IF s = "ingest" THEN "failed" ELSE status[s]
    BY <1>1 DEF DeploymentInv, StatusType
<1> QED
    BY <1>1, <1>2, <1>3, <1>4, Stopping, Dependencies
\* The invariant holds at the start and each step keeps it.
LEMMA InitDeployment == Init => DeploymentInv
<1> SUFFICES ASSUME Init PROVE DeploymentInv
    OBVIOUS
<1>1. StatusType /\ OthersType
    BY BoundsAssumption
       DEF Init, ProcedureInit, StatusType, OthersType, ServerStates, TaskStates, Services, Tasks,
           Servers
<1>2. AloneInv /\ PreparedInv
    BY DEF Init, AloneInv, PreparedInv, Services, Tasks, Servers
<1>3. db \in View /\ Own(db.objects) = RevisionObjects(db.revision)
    <2>1. CASE db = Empty
        BY <2>1, Levels, Lists DEF Empty, View, Own
    <2>2. ASSUME NEW r \in 2 .. HeadRevision, NEW libraries \in {{}, EXTERNALLY_MANAGED},
                 db = [objects |-> RevisionObjects(r) \union libraries, revision |-> r,
                       seeded |-> TRUE]
          PROVE  db \in View /\ Own(db.objects) = RevisionObjects(db.revision)
        <3>1. r \in 2 .. 3 /\ HeadRevision = 3 /\ Base = 0
            BY Lists
        <3>2. RevisionObjects(r) \subseteq ModelTables \union {"vector"}
            BY <3>1, Levels DEF BusinessObjects, ModelTables
        <3>3. (ModelTables \union {"vector"}) \intersect EXTERNALLY_MANAGED = {}
            BY DEF ModelTables, EXTERNALLY_MANAGED, CheckpointTables, VectorTables
        <3>4. RevisionObjects(r) \union libraries \in SUBSET AllObjects
            BY <3>2 DEF AllObjects
        <3>5. db \in View
            BY <2>2, <3>1, <3>4 DEF View
        <3>6. db.objects = RevisionObjects(r) \union libraries /\ db.revision = r
            BY <2>2
        <3> QED
            BY <3>2, <3>3, <3>5, <3>6 DEF Own
    <2> QED
        BY <2>1, <2>2 DEF Init, Volumes
<1>4. MigrationInv
    BY <1>3 DEF Init, MigrationInv
<1> QED
    BY <1>1, <1>2, <1>4 DEF DeploymentInv

LEMMA NextDeployment == DeploymentInv /\ [Next]_vars => DeploymentInv'
<1> SUFFICES ASSUME DeploymentInv, [Next]_vars PROVE DeploymentInv'
    OBVIOUS
<1>1. CASE Up
    BY <1>1, Upped
<1>2. CASE \E s \in Services : StartContainer(s) \/ ServerStarts(s)
    BY <1>2, ContainersStart, ServersStart
<1>3. CASE StartMigration \/ Downgrade
    BY <1>3, MigrationsBegin
<1>4. CASE Migrate
    BY <1>4, MigrationsGoOn
<1>5. CASE \/ CommitMigration /\ MigrationEnds("done")
           \/ MigrationRefused /\ MigrationEnds("failed")
    BY <1>5, MigrationsEnd
<1>6. CASE Seed
    BY <1>6, Seeding
<1>7. CASE SetupCheckpoints
    BY <1>7, CheckpointsAreSetUp
<1>8. CASE FinishIngestion
    BY <1>8, IngestionFinishes
<1>9. CASE Ingest \/ EditFile
    BY <1>9, FilesAreRead
<1>10. CASE IngestionRaises
    BY <1>10, IngestionFails
<1>11. CASE \E s \in Services : Fails(s)
    BY <1>11, ContainersFail
<1>12. CASE PostgresRestarts
    BY <1>12, DatabaseRestarts
<1>13. CASE Down
    BY <1>13, EverythingStops
<1>14. CASE UNCHANGED vars
    <2>1. MigrationInv'
        BY <1>14, StorageStays DEF vars
    <2> QED
        BY <1>14, <2>1 DEF vars, procedureVars, DeploymentInv, StatusType, OthersType, AloneInv,
                           PreparedInv, Working, Startable, Satisfied
<1> QED
    BY <1>1, <1>2, <1>3, <1>4, <1>5, <1>6, <1>7, <1>8, <1>9, <1>10, <1>11, <1>12, <1>13, <1>14
       DEF Next, ServiceStep

\* In every state that can be reached the variables have their types.
THEOREM StartupTypes == Spec => []TypeOK
<1>1. DeploymentInv => TypeOK
    <2> SUFFICES ASSUME DeploymentInv PROVE TypeOK
        OBVIOUS
    <2>1. /\ db.objects \subseteq AllObjects /\ db.revision \in Base .. HeadRevision
          /\ db.seeded \in BOOLEAN
        BY DEF DeploymentInv, MigrationInv, View
    <2>2. tx # None => {tx.goal, tx.view.revision} \subseteq Base .. HeadRevision
        BY DEF DeploymentInv, MigrationInv, View
    <2> QED
        BY <2>1, <2>2 DEF DeploymentInv, StatusType, OthersType, ServerStates, TaskStates,
                          TypeOK, AllObjects
<1> QED
    BY <1>1, InitDeployment, NextDeployment, PTL DEF Spec

\* What is committed is the schema of a revision, and at the head that of the
\* models, wherever a migration, the database or a task has been stopped.
THEOREM SchemaStays == Spec => []SchemaIsItsRevision
<1>1. DeploymentInv => SchemaIsItsRevision
    BY SchemaFollows DEF DeploymentInv
<1> QED
    BY <1>1, InitDeployment, NextDeployment, PTL DEF Spec

\* No operation of an upgrade or a downgrade is refused, whatever the libraries
\* have created in between, except that of the extension in use.
THEOREM MigrationsAreAccepted == Spec => []MigrationsRunThrough
<1>1. DeploymentInv => MigrationsRunThrough
    BY NothingRefused DEF DeploymentInv
<1> QED
    BY <1>1, InitDeployment, NextDeployment, PTL DEF Spec

\* However starts fail and are repeated, a server that serves has the schema,
\* the data and the checkpoint tables it was written for.
THEOREM ServersArePrepared == Spec => []ServersFindTheirTables
<1>1. DeploymentInv => ServersFindTheirTables
    BY DEF DeploymentInv, PreparedInv, ServersFindTheirTables, FindsTables
<1> QED
    BY <1>1, InitDeployment, NextDeployment, PTL DEF Spec
=============================================================================
