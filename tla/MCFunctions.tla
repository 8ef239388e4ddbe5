------------------------------ MODULE MCFunctions ------------------------------
(* The two parts of OrderOps that share no state with the rest, for TLC: a    *)
(* behaviour exercises the texts of IncidentCommand or the Evaluation.        *)
EXTENDS IncidentCommand, Evaluation

CONSTANTS blank, a, b, lookup, create_incident, malformed

VARIABLE part

MCInit ==
    \/ part = "texts" /\ Untyped /\ Init /\ suite = <<Malformed>>
    \/ part = "evaluation" /\ Untyped /\ Init

MCNext ==
    /\ UNCHANGED part
    /\ \/ part = "texts" /\ TypeText /\ UNCHANGED vars
       \/ part = "evaluation" /\ Next /\ UNCHANGED texts

MCSpec == MCInit /\ [][MCNext]_<<part, texts, vars>>
=============================================================================
