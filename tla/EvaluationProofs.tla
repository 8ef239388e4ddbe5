--------------------------- MODULE EvaluationProofs ---------------------------
(***************************************************************************)
(* Proofs about Evaluation, for any tools, any agent and suites and runs   *)
(* of any length: the exit code can be trusted.                            *)
(***************************************************************************)
EXTENDS Evaluation, TLAPS

Message == [type : {"ai", "tool"}, tools : SUBSET Tools]

Outcome == [called : SUBSET Tools, executed : SUBSET Tools, paused : BOOLEAN,
            outcome : {"ended", "raised"}]

\* The i-th case has been run to its end and has done what it should.
Passed(case, done) ==
    /\ done.outcome = "ended"
    /\ done.called = case.expected_tools
    /\ done.paused = case.approval_required
    /\ SENSITIVE_TOOL \in done.executed => ~ done.paused /\ ~ case.unsafe_action_blocked

SuiteType ==
    /\ suite \in Seq(EvaluationCase \union {Malformed})
    /\ Len(suite) > 0

\* A run executes what it has planned and pauses on what it has planned.
RunInv ==
    /\ messages \in Seq(Message)
    /\ planned \subseteq Of("ai") /\ interrupts \subseteq Of("ai")
    /\ Of("tool") \subseteq Of("ai")
    /\ Of("ai") \subseteq Tools

\* The count is that of the cases done exactly when all of them have passed.
CountInv ==
    /\ did \in Seq(Outcome) /\ passed_count \in Nat
    /\ index = Len(did) + 1 /\ Len(did) <= Len(suite)
    /\ passed_count <= Len(did)
    /\ passed_count = Len(did) <=> \A i \in DOMAIN did : Passed(suite[i], did[i])
    /\ \A i \in DOMAIN did : did[i].executed \subseteq did[i].called

ValidSuite == Malformed \notin {suite[i] : i \in DOMAIN suite}

ExitInv ==
    /\ did # <<>> => ValidSuite
    /\ exit \in {"running", "success", "failure"}
    /\ exit = "success" => Len(did) = Len(suite) /\ passed_count = Len(suite)
    /\ exit = "failure" => ~ (Len(did) = Len(suite) /\ passed_count = Len(suite))

EvaluationInv == SuiteType /\ RunInv /\ CountInv /\ ExitInv

-----------------------------------------------------------------------------

\* What a message adds to those of its type.
LEMMA MessageAdds ==
    ASSUME messages \in Seq(Message), NEW m \in Message, messages' = Append(messages, m)
    PROVE  /\ messages' \in Seq(Message)
           /\ \A type : Of(type)' = IF m.type = type THEN Of(type) \union m.tools ELSE Of(type)
<1> DEFINE n == Len(messages)
<1>1. /\ n \in Nat /\ DOMAIN messages = 1 .. n /\ DOMAIN messages' = 1 .. n + 1
      /\ messages' \in Seq(Message)
      /\ messages'[n + 1] = m /\ \A i \in 1 .. n : messages'[i] = messages[i]
    OBVIOUS
<1> HIDE DEF n
<1>2. ASSUME NEW type
      PROVE  Of(type)' = IF m.type = type THEN Of(type) \union m.tools ELSE Of(type)
    <2>1. {j \in DOMAIN messages' : messages'[j].type = type}
          = {j \in DOMAIN messages : messages[j].type = type}
            \union (IF m.type = type THEN {n + 1} ELSE {})
        BY <1>1
    <2>2. \A j \in DOMAIN messages : messages'[j].tools = messages[j].tools
        BY <1>1
    <2> QED
        BY <1>1, <2>1, <2>2 DEF Of
<1> QED
    BY <1>1, <1>2

\* The invariant holds at the start.
LEMMA InitEvaluation == Init => EvaluationInv
<1> SUFFICES ASSUME Init PROVE EvaluationInv
    OBVIOUS
<1>1. SuiteType
    BY DEF Init, SuiteType
<1>2. RunInv
    BY DEF Init, RunInv, Of
<1>3. CountInv
    BY <1>1 DEF Init, CountInv, SuiteType
<1>4. ExitInv
    BY DEF Init, ExitInv
<1> QED
    BY <1>1, <1>2, <1>3, <1>4 DEF EvaluationInv

\* What is planned is in the transcript.
LEMMA PlanKeeps == ASSUME EvaluationInv, Plan PROVE EvaluationInv'
<1>1. PICK calls \in SUBSET Tools :
         /\ messages' = Append(messages, AI(calls)) /\ planned' = calls
         /\ interrupts' \in {{}, calls \intersect {SENSITIVE_TOOL}}
    BY DEF Plan
<1>2. AI(calls) \in Message /\ AI(calls).type = "ai" /\ AI(calls).tools = calls
    BY DEF AI, Message
<1>3. /\ messages' \in Seq(Message) /\ Of("ai")' = Of("ai") \union calls
      /\ Of("tool")' = Of("tool")
    BY <1>1, <1>2, MessageAdds DEF EvaluationInv, RunInv
<1>4. RunInv'
    BY <1>1, <1>3 DEF EvaluationInv, RunInv
<1>5. UNCHANGED <<suite, index, passed_count, exit, did>>
    BY DEF Plan
<1> QED
    BY <1>4, <1>5 DEF EvaluationInv, SuiteType, CountInv, ExitInv, ValidSuite

\* A tool is executed once it has been planned.
LEMMA ExecuteKeeps == ASSUME EvaluationInv, Execute PROVE EvaluationInv'
<1>1. PICK name \in planned :
         messages' = Append(messages, Tool(name)) /\ planned' = planned \ {name}
    BY DEF Execute
<1>2. /\ Tool(name) \in Message /\ Tool(name).type = "tool" /\ Tool(name).tools = {name}
      /\ name \in Of("ai")
    BY <1>1 DEF Tool, Message, EvaluationInv, RunInv
<1>3. /\ messages' \in Seq(Message) /\ Of("tool")' = Of("tool") \union {name}
      /\ Of("ai")' = Of("ai")
    BY <1>1, <1>2, MessageAdds DEF EvaluationInv, RunInv
<1>4. UNCHANGED <<suite, index, interrupts, passed_count, exit, did>>
    BY DEF Execute
<1>5. RunInv'
    BY <1>1, <1>2, <1>3, <1>4 DEF EvaluationInv, RunInv
<1> QED
    BY <1>4, <1>5 DEF EvaluationInv, SuiteType, CountInv, ExitInv, ValidSuite

\* The verdict of assess_case on a run that ended.
LEMMA Verdict ==
    ASSUME EvaluationInv, NEW case \in EvaluationCase, NEW done,
           done = [called |-> Of("ai"), executed |-> Of("tool"),
                   paused |-> interrupts # {}, outcome |-> "ended"]
    PROVE  assess_case(case, observe_agent_run) <=> Passed(case, done)
<1>1. Of("ai") \union interrupts = Of("ai")
    BY DEF EvaluationInv, RunInv
<1>2. case.approval_required \in BOOLEAN /\ case.unsafe_action_blocked \in BOOLEAN
    BY DEF EvaluationCase
<1> QED
    BY <1>1, <1>2 DEF assess_case, observe_agent_run, ToolsAsExpected, Passed

\* One more case is done, and counted exactly if it has passed.
LEMMA CaseEnds ==
    ASSUME EvaluationInv, NEW outcome \in {"ended", "raised"},
           Running, index <= Len(suite), NextCase(outcome),
           NEW done, done = [called |-> Of("ai"), executed |-> Of("tool"),
                             paused |-> interrupts # {}, outcome |-> outcome],
           passed_count' = passed_count + (IF Passed(suite[index], done) THEN 1 ELSE 0)
    PROVE  EvaluationInv'
<1> DEFINE n == Len(did)
<1>1. /\ did' = Append(did, done) /\ index' = index + 1
      /\ messages' = <<>> /\ interrupts' = {} /\ planned' = {} /\ UNCHANGED <<suite, exit>>
    BY DEF NextCase
<1>2. done \in Outcome /\ done.executed \subseteq done.called
    BY DEF Outcome, EvaluationInv, RunInv
<1>3. /\ n \in Nat /\ did \in Seq(Outcome) /\ index = n + 1 /\ n < Len(suite)
      /\ Len(suite) \in Nat /\ passed_count \in Nat /\ passed_count <= n
    BY DEF EvaluationInv, CountInv, SuiteType
<1>4. /\ did' \in Seq(Outcome) /\ Len(did') = n + 1 /\ DOMAIN did' = 1 .. n + 1
      /\ DOMAIN did = 1 .. n
      /\ did'[n + 1] = done /\ \A i \in 1 .. n : did'[i] = did[i]
    BY <1>1, <1>2, <1>3
<1> HIDE DEF n
<1>5. RunInv'
    BY <1>1 DEF RunInv, Of
<1>6. CountInv'
    <2>1. \A i \in 1 .. n + 1 : i \in 1 .. n \/ i = n + 1
        BY <1>3
    <2>2. (\A i \in DOMAIN did' : Passed(suite[i], did'[i])) <=>
             /\ \A i \in DOMAIN did : Passed(suite[i], did[i])
             /\ Passed(suite[n + 1], done)
        BY <1>3, <1>4, <2>1
    <2>3. passed_count = n <=> \A i \in DOMAIN did : Passed(suite[i], did[i])
        BY DEF EvaluationInv, CountInv, n
    <2>4. passed_count' = passed_count + (IF Passed(suite[n + 1], done) THEN 1 ELSE 0)
        BY <1>3
    <2>5. /\ passed_count' \in Nat /\ passed_count' <= n + 1
          /\ passed_count' = n + 1 <=> passed_count = n /\ Passed(suite[n + 1], done)
        BY <1>3, <2>4
    <2>6. \A i \in DOMAIN did' : did'[i].executed \subseteq did'[i].called
        BY <1>2, <1>4, <2>1 DEF EvaluationInv, CountInv
    <2>7. passed_count' = n + 1 <=> \A i \in DOMAIN did' : Passed(suite'[i], did'[i])
        BY <1>1, <2>2, <2>3, <2>5
    <2>8. Len(did') <= Len(suite') /\ index' = Len(did') + 1
        BY <1>1, <1>3, <1>4
    <2> QED
        BY <1>4, <2>5, <2>6, <2>7, <2>8 DEF CountInv
<1>7. ExitInv'
    BY <1>1 DEF EvaluationInv, ExitInv, Running, ValidSuite
<1> QED
    BY <1>1, <1>5, <1>6, <1>7 DEF EvaluationInv, SuiteType

\* A run that raised has not passed.
LEMMA CasesKeep == ASSUME EvaluationInv, Assess \/ RunRaises PROVE EvaluationInv'
<1>1. Running /\ index <= Len(suite) /\ index \in DOMAIN suite
    BY DEF Assess, RunRaises, EvaluationInv, CountInv, SuiteType
<1>2. suite[index] \in EvaluationCase
    BY <1>1 DEF Running, EvaluationInv, SuiteType
<1>3. CASE Assess
    <2> DEFINE done == [called |-> Of("ai"), executed |-> Of("tool"),
                        paused |-> interrupts # {}, outcome |-> "ended"]
    <2>1. passed_count' = passed_count + (IF Passed(suite[index], done) THEN 1 ELSE 0)
        BY <1>2, <1>3, Verdict DEF Assess
    <2> QED
        BY <1>1, <1>3, <2>1, CaseEnds DEF Assess
<1>4. CASE RunRaises
    <2> DEFINE done == [called |-> Of("ai"), executed |-> Of("tool"),
                        paused |-> interrupts # {}, outcome |-> "raised"]
    <2>1. passed_count' = passed_count + (IF Passed(suite[index], done) THEN 1 ELSE 0)
        BY <1>4 DEF RunRaises, Passed, EvaluationInv, CountInv
    <2> QED
        BY <1>1, <1>4, <2>1, CaseEnds DEF RunRaises
<1> QED
    BY <1>3, <1>4

\* The exit code compares the count with the suite; an invalid suite fails.
LEMMA ExitsKeep == ASSUME EvaluationInv, LoadFails \/ Exit PROVE EvaluationInv'
<1>1. UNCHANGED <<suite, index, messages, interrupts, planned, passed_count, did>>
    BY DEF LoadFails, Exit, run
<1>2. ExitInv'
    <2>1. CASE LoadFails
        <3>1. exit' = "failure" /\ ~ ValidSuite
            BY <2>1 DEF LoadFails, Running, ValidSuite
        <3>2. Len(did) # Len(suite)
            BY <3>1 DEF EvaluationInv, ExitInv, SuiteType
        <3> QED
            BY <1>1, <3>1, <3>2 DEF EvaluationInv, ExitInv, ValidSuite
    <2>2. CASE Exit
        <3>1. /\ exit' = IF passed_count = Len(suite) THEN "success" ELSE "failure"
              /\ index > Len(suite)
            BY <2>2 DEF Exit, TotalCases
        <3>2. Len(did) = Len(suite)
            BY <3>1 DEF EvaluationInv, CountInv, SuiteType
        <3> QED
            BY <1>1, <3>1, <3>2 DEF EvaluationInv, ExitInv, ValidSuite
    <2> QED
        BY <2>1, <2>2
<1> QED
    BY <1>1, <1>2 DEF EvaluationInv, SuiteType, RunInv, CountInv, Of

\* The invariant is inductive.
LEMMA NextEvaluation == EvaluationInv /\ [Next]_vars => EvaluationInv'
<1> SUFFICES ASSUME EvaluationInv, [Next]_vars PROVE EvaluationInv'
    OBVIOUS
<1>1. CASE UNCHANGED vars
    BY <1>1 DEF vars, EvaluationInv, SuiteType, RunInv, CountInv, ExitInv, ValidSuite, Of
<1> QED
    BY <1>1, PlanKeeps, ExecuteKeeps, CasesKeep, ExitsKeep DEF Next

-----------------------------------------------------------------------------
(* Theorems *)

\* The exit code is 0 exactly for a suite whose every case was run to its end
\* and did what it should.
THEOREM ExitCodes == Spec => []ExitCodeIsExact
<1>1. EvaluationInv => ExitCodeIsExact
    <2> SUFFICES ASSUME EvaluationInv, exit # "running"
                 PROVE  exit = "success" <=>
                           /\ Len(did) = Len(suite)
                           /\ \A i \in DOMAIN did : Passed(suite[i], did[i])
        BY DEF ExitCodeIsExact, Passed
    <2>1. exit = "success" <=> Len(did) = Len(suite) /\ passed_count = Len(suite)
        BY DEF EvaluationInv, ExitInv
    <2>2. passed_count = Len(did) <=> \A i \in DOMAIN did : Passed(suite[i], did[i])
        BY DEF EvaluationInv, CountInv
    <2> QED
        BY <2>1, <2>2
<1> QED
    BY <1>1, InitEvaluation, NextEvaluation, PTL DEF Spec

\* Success with a suite that asks for approvals means that no run has executed
\* create_incident, whatever the agent is.
THEOREM SuccessIsSafe == Spec => []SuccessMeansNothingWritten
<1>1. EvaluationInv => SuccessMeansNothingWritten
    <2> SUFFICES ASSUME EvaluationInv, exit = "success",
                        \A i \in DOMAIN suite : SENSITIVE_TOOL \in suite[i].expected_tools =>
                                                suite[i].approval_required,
                        NEW i \in DOMAIN did, SENSITIVE_TOOL \in did[i].executed
                 PROVE  FALSE
        BY DEF SuccessMeansNothingWritten
    <2>1. Passed(suite[i], did[i]) /\ did[i].executed \subseteq did[i].called
        BY DEF EvaluationInv, ExitInv, CountInv
    <2>2. i \in DOMAIN suite
        BY DEF EvaluationInv, CountInv, SuiteType
    <2> QED
        BY <2>1, <2>2 DEF Passed
<1> QED
    BY <1>1, InitEvaluation, NextEvaluation, PTL DEF Spec
=============================================================================
