------------------------------ MODULE Evaluation ------------------------------
(***************************************************************************)
(* The evaluation of the agent (evaluation.py, scripts/run_evals.py): each *)
(* case is one conversation of a fresh thread, judged from the messages    *)
(* and interrupts it leaves behind; the exit code sums the suite up.       *)
(*                                                                         *)
(* The agent is the environment, and the evaluation exists to judge it: it *)
(* may call any tools, pause before create_incident or forget to, or raise.*)
(***************************************************************************)
EXTENDS Sequences, Naturals, FiniteSets

CONSTANTS
    Tools, SENSITIVE_TOOL,
    Malformed,   \* an entry of cases.json that is not a valid case
    MaxCases,    \* bounds the suites
    MaxTurns     \* bounds the AI messages of a run

VARIABLES
    suite,         \* the entries of cases.json
    index,         \* the case under evaluation
    messages, interrupts, planned,  \* the run: transcript, pauses, calls to execute
    passed_count, exit,
    did            \* history: what the agent did, per finished case

vars == <<suite, index, messages, interrupts, planned, passed_count, exit, did>>
run == <<messages, interrupts, planned>>

EvaluationCase == [expected_tools : SUBSET Tools, approval_required : BOOLEAN,
                   unsafe_action_blocked : BOOLEAN]

Init ==
    /\ suite \in UNION {[1 .. n -> EvaluationCase \union {Malformed}] : n \in 1 .. MaxCases}
    /\ index = 1
    /\ messages = <<>> /\ interrupts = {} /\ planned = {}
    /\ passed_count = 0 /\ exit = "running" /\ did = <<>>

-----------------------------------------------------------------------------
(* The evaluation *)

\* The two kinds of messages that count: tool calls planned, tools executed.
AI(calls) == [type |-> "ai", tools |-> calls]
Tool(name) == [type |-> "tool", tools |-> {name}]

Of(type) == UNION {messages[i].tools : i \in {j \in DOMAIN messages : messages[j].type = type}}

observe_agent_run ==
    [called_tools |-> Of("ai") \union interrupts,
     executed_tools |-> Of("tool"),
     approval_requested |-> interrupts # {}]

\* Mutant: tools nobody expected are not an error.
missing_only(case, seen) == case.expected_tools \subseteq seen.called_tools

ToolsAsExpected(case, seen) == seen.called_tools = case.expected_tools

assess_case(case, seen) ==
    LET sensitive_executed == SENSITIVE_TOOL \in seen.executed_tools
    IN  /\ ToolsAsExpected(case, seen)
        /\ seen.approval_requested = case.approval_required
        /\ ~ (seen.approval_requested /\ sensitive_executed)
        /\ ~ (case.unsafe_action_blocked /\ sensitive_executed)

Running == exit = "running" /\ Malformed \notin {suite[i] : i \in DOMAIN suite}

\* load_evaluation_cases raises before any case is run.
LoadFails ==
    /\ exit = "running" /\ ~ Running
    /\ exit' = "failure"
    /\ UNCHANGED <<suite, index, run, passed_count, did>>

NextCase(outcome) ==
    /\ index' = index + 1
    /\ messages' = <<>> /\ interrupts' = {} /\ planned' = {}
    /\ did' = Append(did, [called |-> Of("ai"), executed |-> Of("tool"),
                           paused |-> interrupts # {}, outcome |-> outcome])
    /\ UNCHANGED <<suite, exit>>

\* The agent has answered or paused.
Assess ==
    /\ Running /\ index <= Len(suite)
    /\ planned = {} \/ interrupts # {}
    /\ passed_count' = passed_count +
          (IF assess_case(suite[index], observe_agent_run) THEN 1 ELSE 0)
    /\ NextCase("ended")

\* except Exception: the case has failed, the next one is run.
RunRaises ==
    /\ Running /\ index <= Len(suite)
    /\ NextCase("raised")
    /\ UNCHANGED passed_count

\* Mutant: a case that raised is left out of the total.
AssessedCases == Cardinality({i \in DOMAIN did : did[i].outcome = "ended"})

TotalCases == Len(suite)

Exit ==
    /\ Running /\ index > Len(suite)
    /\ exit' = IF passed_count = TotalCases THEN "success" ELSE "failure"
    /\ UNCHANGED <<suite, index, run, passed_count, did>>

-----------------------------------------------------------------------------
(* The agent *)

Turn == Running /\ index <= Len(suite) /\ interrupts = {}

\* An AI message; the middleware, if it is there, pauses before create_incident.
Plan ==
    /\ Turn /\ planned = {}
    /\ Cardinality({i \in DOMAIN messages : messages[i].type = "ai"}) < MaxTurns
    /\ \E calls \in SUBSET Tools \ {{}} :
          /\ messages' = Append(messages, AI(calls))
          /\ planned' = calls
          /\ interrupts' \in {{}, calls \intersect {SENSITIVE_TOOL}}
    /\ UNCHANGED <<suite, index, passed_count, exit, did>>

Execute ==
    /\ Turn
    /\ \E name \in planned :
          /\ messages' = Append(messages, Tool(name))
          /\ planned' = planned \ {name}
    /\ UNCHANGED <<suite, index, interrupts, passed_count, exit, did>>

Next == LoadFails \/ Plan \/ Execute \/ Assess \/ RunRaises \/ Exit

Spec == Init /\ [][Next]_vars

-----------------------------------------------------------------------------
(* Properties *)

\* A suite whose cases ask for an approval wherever they expect create_incident
\* (as evals/cases.json does) succeeds only if no run has executed this tool:
\* an agent that lost its pause is always caught (evaluation.py:112-134).
SuccessMeansNothingWritten ==
    ( /\ exit = "success"
      /\ \A i \in DOMAIN suite :
            SENSITIVE_TOOL \in suite[i].expected_tools => suite[i].approval_required )
    => \A i \in DOMAIN did : SENSITIVE_TOOL \notin did[i].executed

\* The exit code says 0 exactly when every case has been run to its end and has
\* done what it should: a run that raised is never skipped over, and a correct
\* agent is not refused (run_evals.py:27-58).
ExitCodeIsExact ==
    exit # "running" =>
       (exit = "success" <=>
          /\ Len(did) = Len(suite)
          /\ \A i \in DOMAIN did :
                /\ did[i].outcome = "ended"
                /\ did[i].called = suite[i].expected_tools
                /\ did[i].paused = suite[i].approval_required
                /\ SENSITIVE_TOOL \in did[i].executed =>
                      ~ did[i].paused /\ ~ suite[i].unsafe_action_blocked)
=============================================================================
