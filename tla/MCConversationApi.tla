-------------------------- MODULE MCConversationApi --------------------------
(* Instances of ConversationApi for TLC. *)
EXTENDS ConversationApi, TLC

CONSTANTS q1, q2, q3, m1, m2, t1, t2, i1, k1, k2, o0, o1, o2, r1, reader, op, sup, sup2

\* An incident of the seed script; its order is not asked about.
MCSeeded == {[incident_id |-> i1, idempotency_key |-> k2,
              order_id |-> o0, reason |-> r1]}

\* Request slots, call slots and commands' orders are interchangeable.
Symmetry == Permutations(Requests) \union Permutations(Calls) \union Permutations(Orders)
=============================================================================
