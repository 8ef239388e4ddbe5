------------------------------ MODULE MCUiSession ------------------------------
(* Instances of UiSession for TLC: two sessions that share one chat, or one   *)
(* session that moves between two chats and changes its profile.              *)
EXTENDS UiSession

CONSTANTS s1, s2, t1, t2, k1, o1, o2, r1, op, sup

VARIABLE present  \* the sessions somebody uses

MCInit ==
    /\ Init
    /\ present \in {{s1}, {s1, s2}}
    /\ present = {s1} => ui[s1].user = op
    /\ ui[s1].user = op \/ ui[s2].user = op

\* One fault at most: a call of s1 that is given up, or a run that is stopped.
MCNext ==
    /\ UNCHANGED present
    /\ \/ \E s \in present : /\ UserStep(s) \/ ScriptStep(s) \/ GiveUp(s)
                             /\ s = s1 \/ UNCHANGED counters
       \/ \E t \in Threads : ServerStep(t)
    /\ timeouts' + interruptions' <= 1
    /\ IF present = {s1} THEN \A t \in Threads : owner'[t] \in {None, op}
       ELSE used' \subseteq {t1} /\ ui'[s1].user = ui[s1].user

\* A session that cannot create its chat gets an error: no step is withheld
\* that fairness asks for.
MCSpec == MCInit /\ [][MCNext]_<<vars, present>> /\ Fairness

\* Two sessions of one supervisor.
UnseenInit == Init /\ present = Sessions /\ \A s \in Sessions : ui[s].user = sup

UnseenSpec == UnseenInit /\ [][Next /\ UNCHANGED present]_<<vars, present>> /\ Fairness
=============================================================================
