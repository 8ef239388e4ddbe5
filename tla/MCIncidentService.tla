-------------------------- MODULE MCIncidentService --------------------------
(* Instances of IncidentService for TLC. *)
EXTENDS IncidentService

CONSTANTS c1, c2, c3, i1, k1, k2, o1, o2, r1, sup, op

\* An incident of the seed script.
MCSeeded == {[incident_id |-> i1, idempotency_key |-> k2,
              order_id |-> o1, reason |-> r1]}

\* One call at most uses the key of the seeded incident.
MCNext ==
    \/ \E c \in Calls : /\ Start(c)
                        /\ cmd'[c].idempotency_key = k2 => c = c3
    \/ \E c \in Calls : CallStep(c)
    \/ \E o \in Orders : \/ OrderCancelled(o)
                         \/ \E status \in OrderStatuses \ {"absent"} : OrderSeeded(o, status)

\* Nobody has to start a call: no step is withheld that fairness asks for.
MCSpec == Init /\ [][MCNext]_vars /\ Fairness
=============================================================================
