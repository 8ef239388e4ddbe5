----------------------------- MODULE MCDeployment -----------------------------
(* Instances of Deployment for TLC. *)
EXTENDS Deployment

CONSTANTS f1, f2, c1, c2, bad

\* A clean procedure, and one with the same beginning that is quarantined.
TwoTexts == {<<c1, c2>>, <<c1, bad>>}
=============================================================================
