-------------------------------- MODULE Access --------------------------------
(***************************************************************************)
(* The permission rules of access.py, shared by the API and the MCP server. *)
(* A user has one role for ever (table user_roles has one row per user and  *)
(* nothing in the program changes it); being active may change and is read  *)
(* from the database by each component on its own.                          *)
(***************************************************************************)
CONSTANTS Readers, Operators, Supervisors

ASSUME RolesAssumption ==
    /\ Readers \intersect Operators = {}
    /\ Readers \intersect Supervisors = {}
    /\ Operators \intersect Supervisors = {}

Users == Readers \union Operators \union Supervisors

\* A user as read from the database.
AppUser == [user_id : Users, active : BOOLEAN]

CanPropose(user) == user.active /\ user.user_id \in Operators \union Supervisors

CanApprove(user) == user.active /\ user.user_id \in Supervisors

\* owner_role = operator: a supervisor sees what operators submit to him ...
\* Mutant: ... or the conversations of everybody.
AnyOwner(conv) == conv.owner_id \in Users

OwnerIsOperator(conv) == conv.owner_id \in Operators

CanReadConversation(user, conv) ==
    /\ user.active
    /\ \/ user.user_id = conv.owner_id
       \/ /\ CanApprove(user)
          /\ OwnerIsOperator(conv)
          /\ conv.status = "approval_required" \/ conv.reviewer_id = user.user_id

CanDecide(user, conv) == CanApprove(user) /\ CanReadConversation(user, conv)
=============================================================================
