------------------------------ MODULE BoundedTurn ------------------------------
(***************************************************************************)
(* PrimeQAHybridBoundedDynamicAgentRuntime.run_turn() on threads that      *)
(* share one compiled graph: the history is loaded, nine nodes run under a *)
(* frozen transition policy, the turn is committed to the ledger.  A graph *)
(* node runs in a COPY of its caller's context, so what it writes to a     *)
(* context variable is lost to the caller; how a turn failed comes back    *)
(* through a table keyed by the exception that propagates.                 *)
(***************************************************************************)
EXTENDS ThreadLedger, FiniteSets

CONSTANTS
  Threads,       \* threads that call run_turn(); a thread keeps its context
  Errors,        \* identities of exception objects
  NoHandle, NoError,
  MaxRuns        \* bound: how many times run_turn() is entered in all

ASSUME TurnAssumption ==
  /\ IsFiniteSet(Threads)
  /\ NoHandle \notin Handles
  /\ NoError \notin Errors
  /\ MaxRuns \in Nat

VARIABLES
  runs,          \* run_turn() calls so far
  at,            \* where each thread is inside run_turn()
  handle,        \* the thread handle of the call
  base,          \* how many turns the loaded history has
  node,          \* the graph node that runs next, or that raised
  graph,         \* the private state the graph passes from node to node
  snapshot,      \* _last_snapshot in the caller's context
  error,         \* the exception that propagates
  failures,      \* _failure_snapshots
  result,        \* how the thread's last call ended
  trace          \* _last_public_trace in the caller's context

callVars == <<handle, base, node, graph, error>>
turnVars == <<runs, at, callVars, snapshot, failures, result, trace, ledgerVars>>

-------------------------------------------------------------------------------
(* The graph and its transition policy, written down separately in the code *)

Tool == {"retrieve_candidate_pool", "compose_grounded_answer",
         "verify_grounded_answer", "observe_diagnostics"}
Node == Tool \cup {"validate_request", "prepare_context", "select_action",
                   "finalize_verified_response", "finalize_insufficient_evidence_refusal"}

Policy == {
  <<"received",         "validate_request",        "validated">>,
  <<"validated",        "retrieve_candidate_pool", "retrieved">>,
  <<"retrieved",        "prepare_context",         "context_prepared">>,
  <<"context_prepared", "select_compose",          "decided_compose">>,
  <<"context_prepared", "select_refuse",           "decided_refuse">>,
  <<"decided_compose",  "compose_grounded_answer", "answered">>,
  <<"answered",         "verify_grounded_answer",  "verified">>,
  <<"verified",         "observe_diagnostics",     "observed">>,
  <<"observed",         "complete",                "complete">>,
  <<"observed",         "refuse",                  "refuse">>,
  <<"decided_refuse",   "refuse",                  "refuse">>}

AgentState == {"received"} \cup {p[3] : p \in Policy}

\* Seeded fault: an answer goes to its diagnostics without being verified.
EdgeUnverified(n, decision) ==
  CASE n = "validate_request"        -> "retrieve_candidate_pool"
    [] n = "retrieve_candidate_pool" -> "prepare_context"
    [] n = "prepare_context"         -> "select_action"
    [] n = "select_action"           -> IF decision = "compose"
                                        THEN "compose_grounded_answer"
                                        ELSE "finalize_insufficient_evidence_refusal"
    [] n = "compose_grounded_answer" -> "observe_diagnostics"
    [] n = "verify_grounded_answer"  -> "observe_diagnostics"
    [] n = "observe_diagnostics"     -> "finalize_verified_response"
    [] OTHER                         -> "end"

\* The edges _compile() adds; the one conditional edge leaves select_action.
Edge(n, decision) ==
  CASE n = "validate_request"        -> "retrieve_candidate_pool"
    [] n = "retrieve_candidate_pool" -> "prepare_context"
    [] n = "prepare_context"         -> "select_action"
    [] n = "select_action"           -> IF decision = "compose"
                                        THEN "compose_grounded_answer"
                                        ELSE "finalize_insufficient_evidence_refusal"
    [] n = "compose_grounded_answer" -> "verify_grounded_answer"
    [] n = "verify_grounded_answer"  -> "observe_diagnostics"
    [] n = "observe_diagnostics"     -> "finalize_verified_response"
    [] OTHER                         -> "end"

\* done: the nodes whose results the state holds; refused: the terminal answer.
GraphState == [current: AgentState, done: SUBSET Node, calls: [Tool -> 0 .. 1],
               decisions: 0 .. 1, decision: {"none", "compose", "refuse"},
               refused: BOOLEAN, stage: Node \cup {"none", "commit_thread_state"}]

InitialState == [current |-> "received", done |-> {}, calls |-> [x \in Tool |-> 0],
                 decisions |-> 0, decision |-> "none", refused |-> FALSE, stage |-> "none"]
NoState == [InitialState EXCEPT !.current = "none"]

\* Seeded fault: a refusal of the verifier is finalized as a completion.
ActionAnswered(n, s) ==
  CASE n = "select_action" -> IF s.decision = "compose" THEN "select_compose" ELSE "select_refuse"
    [] n = "finalize_verified_response"             -> "complete"
    [] n = "finalize_insufficient_evidence_refusal" -> "refuse"
    [] OTHER                                        -> n

\* The action a node asks the policy for, once its work is done.
Action(n, s) ==
  CASE n = "select_action" -> IF s.decision = "compose" THEN "select_compose" ELSE "select_refuse"
    [] n = "finalize_verified_response"             -> IF s.refused THEN "refuse" ELSE "complete"
    [] n = "finalize_insufficient_evidence_refusal" -> "refuse"
    [] OTHER                                        -> n

\* What a handler insists on before it works: the results it reads, one call of
\* each tool, one decision.
Needs(n) == CASE n = "verify_grounded_answer" -> {"compose_grounded_answer"}
              [] n = "observe_diagnostics" -> {"prepare_context", "compose_grounded_answer",
                                               "verify_grounded_answer"}
              [] n = "finalize_verified_response" -> {"observe_diagnostics"}
              [] OTHER -> {}
WithinBudget(n, s) == /\ n \in Tool => s.calls[n] = 0
                      /\ n = "select_action" => s.decisions = 0

\* The state with this node's tool call or model decision counted.
Counted(n, s) ==
  [s EXCEPT !.calls = [x \in Tool |-> IF x = n THEN s.calls[x] + 1 ELSE s.calls[x]],
            !.decisions = IF n = "select_action" THEN @ + 1 ELSE @]

\* What the model may decide, and whether the answer is a refusal by then.
Decisions(n, s) == IF n = "select_action" THEN {"compose", "refuse"} ELSE {s.decision}
Refusals(n, s)  == CASE n = "observe_diagnostics" -> BOOLEAN
                     [] n = "finalize_insufficient_evidence_refusal" -> {TRUE}
                     [] OTHER -> {s.refused}

\* The states the node's work may lead to, before the transition.
WorkedAs(n, s, d, r) == [Counted(n, s) EXCEPT !.done = @ \cup {n}, !.decision = d, !.refused = r]
Worked(n, s) == {WorkedAs(n, s, d, r) : d \in Decisions(n, s), r \in Refusals(n, s)}

Allowed(n, s) == {p[3] : p \in {q \in Policy : q[1] = s.current /\ q[2] = Action(n, s)}}

\* The node runs without tripping over a check of its own or of the policy.
Fits(n, s) == /\ Needs(n) \subseteq s.done
              /\ WithinBudget(n, s)
              /\ \A w \in Worked(n, s) : Allowed(n, w) # {}

TraceOf(s, limit) ==
  [terminal |-> IF s.current \in {"complete", "refuse"} THEN s.current ELSE "failed",
   stage |-> s.stage, calls |-> s.calls, decisions |-> s.decisions, limit |-> limit]
NoTrace == [TraceOf(InitialState, FALSE) EXCEPT !.terminal = "none"]
TraceWithoutWorkflow(stage) == [TraceOf(InitialState, FALSE) EXCEPT !.stage = stage]

Init ==
  /\ runs = 0
  /\ at = [t \in Threads |-> "idle"]
  /\ handle = [t \in Threads |-> NoHandle]
  /\ base = [t \in Threads |-> 0]
  /\ node = [t \in Threads |-> "end"]
  /\ graph = [t \in Threads |-> InitialState]
  /\ snapshot = [t \in Threads |-> NoState]
  /\ error = [t \in Threads |-> NoError]
  /\ failures = [e \in Errors |-> NoState]
  /\ result = [t \in Threads |-> "none"]
  /\ trace = [t \in Threads |-> NoTrace]
  /\ LedgerInit

Move(t, from, to) == at[t] = from /\ at' = [at EXCEPT ![t] = to]
Report(t, how, tr) == result' = [result EXCEPT ![t] = how] /\ trace' = [trace EXCEPT ![t] = tr]

-------------------------------------------------------------------------------
(* run_turn(): the history and the summary are two looks at the ledger *)

Call(t, h) ==
  /\ Move(t, "idle", "loading")
  /\ runs < MaxRuns
  /\ runs' = runs + 1
  /\ handle' = [handle EXCEPT ![t] = h]
  /\ node' = [node EXCEPT ![t] = "end"]
  /\ Report(t, "none", NoTrace)
  /\ UNCHANGED <<base, graph, error, snapshot, failures, ledgerVars>>

Unloaded(t) == Report(t, "unloaded", TraceWithoutWorkflow("load_thread_state"))

LoadHistory(t) ==
  /\ IF handle[t] \in opened
       THEN /\ Move(t, "loading", "summarising")
            /\ base' = [base EXCEPT ![t] = history[handle[t]].count]
            /\ UNCHANGED <<result, trace>>
       ELSE Move(t, "loading", "idle") /\ Unloaded(t) /\ UNCHANGED base
  /\ UNCHANGED <<runs, handle, node, graph, error, snapshot, failures, ledgerVars>>

LoadSummary(t) ==
  /\ IF handle[t] \in opened
       THEN Move(t, "summarising", "beginning") /\ UNCHANGED <<result, trace>>
       ELSE Move(t, "summarising", "idle") /\ Unloaded(t)
  /\ UNCHANGED <<runs, callVars, snapshot, failures, ledgerVars>>

\* begin() refuses a context whose last call left its snapshot behind.
Begin(t) ==
  /\ IF snapshot[t] # NoState
       THEN /\ Move(t, "beginning", "idle")
            /\ Report(t, "unavailable", TraceWithoutWorkflow("workflow_state_unavailable"))
            /\ UNCHANGED <<graph, node, snapshot>>
       ELSE /\ Move(t, "beginning", "running")
            /\ graph' = [graph EXCEPT ![t] = InitialState]
            /\ node' = [node EXCEPT ![t] = "validate_request"]
            /\ snapshot' = [snapshot EXCEPT ![t] = InitialState]
            /\ UNCHANGED <<result, trace>>
  /\ UNCHANGED <<runs, handle, base, error, failures, ledgerVars>>

-------------------------------------------------------------------------------
(* The graph *)

\* What a node writes to _last_snapshot stays in the copied context.
NodeReturns(t) ==
  /\ at[t] = "running"
  /\ node[t] # "end"
  /\ Needs(node[t]) \subseteq graph[t].done
  /\ WithinBudget(node[t], graph[t])
  /\ \E w \in Worked(node[t], graph[t]) : \E next \in Allowed(node[t], w) :
       /\ graph' = [graph EXCEPT ![t] = [w EXCEPT !.current = next, !.stage = "none"]]
       /\ node' = [node EXCEPT ![t] = Edge(node[t], w.decision)]
  /\ UNCHANGED <<runs, at, handle, base, error, snapshot, failures, result, trace, ledgerVars>>

Inherited(t) == IF snapshot[t] = NoState THEN graph[t] ELSE snapshot[t]

\* Seeded fault: the handlers record no counts when their work raises.
LeftUncounted(t) == Inherited(t)

\* What _last_snapshot holds in the copied context when the node raises: the
\* state with its counts if the handler recorded it, else what begin() wrote.
Left(t) == IF node[t] \in Tool \cup {"select_action"} /\ WithinBudget(node[t], graph[t])
             THEN Counted(node[t], graph[t])
             ELSE Inherited(t)

Fallible == Node \ {"finalize_verified_response", "finalize_insufficient_evidence_refusal"}

NodeRaises(t, e) ==
  /\ node[t] \in Fallible \/ (node[t] \in Node /\ ~Fits(node[t], graph[t]))
  /\ \A u \in Threads : error[u] # e
  /\ Move(t, "running", "raised")
  /\ error' = [error EXCEPT ![t] = e]
  /\ failures' = [failures EXCEPT ![e] = [Left(t) EXCEPT !.stage = node[t]]]
  /\ UNCHANGED <<runs, handle, base, node, graph, snapshot, result, trace, ledgerVars>>

\* Seeded fault: the snapshot is read and not removed.
KeepFailure(t) ==
  /\ Move(t, "raised", "idle")
  /\ Report(t, "raised", TraceOf(failures[error[t]], FALSE))
  /\ error' = [error EXCEPT ![t] = NoError]
  /\ snapshot' = [snapshot EXCEPT ![t] = NoState]
  /\ UNCHANGED <<runs, handle, base, node, graph, failures, ledgerVars>>

\* The exception has reached run(): its snapshot leaves the table, end() clears
\* the context, and run_turn() makes the trace of it.
ConsumeFailure(t) ==
  /\ Move(t, "raised", "idle")
  /\ Report(t, "raised", TraceOf(failures[error[t]], FALSE))
  /\ error' = [error EXCEPT ![t] = NoError]
  /\ failures' = [failures EXCEPT ![error[t]] = NoState]
  /\ snapshot' = [snapshot EXCEPT ![t] = NoState]
  /\ UNCHANGED <<runs, handle, base, node, graph, ledgerVars>>

GraphEnds(t) ==
  /\ node[t] = "end"
  /\ Move(t, "running", "committing")
  /\ snapshot' = [snapshot EXCEPT ![t] = NoState]
  /\ UNCHANGED <<runs, callVars, failures, result, trace, ledgerVars>>

-------------------------------------------------------------------------------
(* The commit *)

\* Seeded fault: the turn is numbered after what the ledger holds by now.
CommitRenumbered(t, size) ==
  /\ Move(t, "committing", "idle")
  /\ IF Acceptable(handle[t], history[handle[t]].count + 1, size)
       THEN /\ AppendTurn(handle[t], history[handle[t]].count + 1, size)
            /\ Report(t, IF graph[t].refused THEN "refuse" ELSE "complete",
                      TraceOf(graph[t], FALSE))
       ELSE /\ Report(t, "rejected",
                      TraceOf([graph[t] EXCEPT !.stage = "commit_thread_state"], TRUE))
            /\ UNCHANGED ledgerVars
  /\ UNCHANGED <<runs, callVars, snapshot, failures>>

\* What the ledger is given as terminal state is read off the answer, what the
\* trace says is the graph's last state.
Commit(t, size) ==
  /\ Move(t, "committing", "idle")
  /\ IF Acceptable(handle[t], base[t] + 1, size)
       THEN /\ AppendTurn(handle[t], base[t] + 1, size)
            /\ Report(t, IF graph[t].refused THEN "refuse" ELSE "complete",
                      TraceOf(graph[t], FALSE))
       ELSE /\ Report(t, "rejected",
                      TraceOf([graph[t] EXCEPT !.stage = "commit_thread_state"], TRUE))
            /\ UNCHANGED ledgerVars
  /\ UNCHANGED <<runs, callVars, snapshot, failures>>

TurnStep(t) == \/ LoadHistory(t) \/ LoadSummary(t) \/ Begin(t) \/ NodeReturns(t)
               \/ \E e \in Errors : NodeRaises(t, e)
               \/ ConsumeFailure(t) \/ GraphEnds(t)
               \/ \E size \in Sizes : Commit(t, size)

\* open_thread() and close_thread() of whoever uses the runtime.
ThreadAction(h) == (LedgerOpen(h) \/ LedgerClose(h))
                   /\ UNCHANGED <<runs, at, callVars, snapshot, failures, result, trace>>

Next == \/ \E t \in Threads : TurnStep(t) \/ \E h \in Handles : Call(t, h)
        \/ \E h \in Handles : ThreadAction(h)

Spec == Init /\ [][Next]_turnVars

-------------------------------------------------------------------------------
Stage == Node \cup {"none", "load_thread_state", "workflow_state_unavailable",
                    "commit_thread_state"}

Trace == [terminal: {"none", "failed", "complete", "refuse"}, stage: Stage,
          calls: [Tool -> 0 .. 1], decisions: 0 .. 1, limit: BOOLEAN]

TypeOK ==
  /\ runs \in Nat
  /\ at \in [Threads -> {"idle", "loading", "summarising", "beginning", "running",
                         "raised", "committing"}]
  /\ handle \in [Threads -> Handles \cup {NoHandle}]
  /\ base \in [Threads -> Nat]
  /\ node \in [Threads -> Node \cup {"end"}]
  /\ graph \in [Threads -> GraphState]
  /\ snapshot \in [Threads -> GraphState \cup {NoState}]
  /\ error \in [Threads -> Errors \cup {NoError}]
  /\ failures \in [Errors -> GraphState \cup {NoState}]
  /\ result \in [Threads -> {"none", "unloaded", "unavailable", "raised", "rejected",
                             "complete", "refuse"}]
  /\ trace \in [Threads -> Trace]
  /\ LedgerTypeOK

\* The compiled edges and the transition policy, two tables, fit: whichever way
\* the model decides, no node meets a missing result, a spent budget or a
\* transition the policy refuses, and the graph ends on a terminal state only.
GraphFitsPolicy ==
  \A t \in Threads : at[t] = "running" =>
    IF node[t] = "end" THEN graph[t].current \in {"complete", "refuse"}
                       ELSE Fits(node[t], graph[t])

\* A failed turn is reported under the node that failed, for the thread it failed
\* on, although the node's context is gone and other turns fail meanwhile.
StageIsReported ==
  \A t \in Threads : result[t] = "raised" =>
    trace[t].terminal = "failed" /\ trace[t].stage = node[t]

\* When a tool or the model raised, the trace counts its call and those before it.
ToolFailuresAreCounted ==
  \A t \in Threads : result[t] = "raised" /\ node[t] \in Tool \cup {"select_action"} =>
    /\ trace[t].calls = Counted(node[t], graph[t]).calls
    /\ trace[t].decisions = Counted(node[t], graph[t]).decisions

\* What run_turn() publishes of a failed turn is about that turn: the node that
\* failed and the calls made until then, its own included.
FailuresAreReported == StageIsReported /\ ToolFailuresAreCounted

\* A call leaves nothing in its context, and no private state in the table once
\* its exception has been reported; so the context can serve the next turn.
SnapshotsAreConsumed ==
  /\ \A t \in Threads : at[t] \notin {"running", "raised"} => snapshot[t] = NoState
  /\ \A e \in Errors : failures[e] # NoState => \E t \in Threads : at[t] = "raised" /\ error[t] = e
  /\ \A t \in Threads : result[t] # "unavailable"

\* What is retained and what the trace says agree, and an answer was retrieved
\* for, decided, composed, verified and observed once each; a turn the model
\* refused stopped after the decision.
OutcomeIsEarned ==
  \A t \in Threads : result[t] \in {"complete", "refuse"} =>
    /\ trace[t].terminal = result[t]
    /\ trace[t].decisions = 1
    /\ LET called == {x \in Tool : trace[t].calls[x] = 1} IN
         \/ called = Tool
         \/ called = {"retrieve_candidate_pool"} /\ result[t] = "refuse"

\* The turn of a thread as the abstract specification sees it: the second look at the
\* ledger and the whole graph are its work.
TurnOf(t) ==
  CASE at[t] = "loading" -> [phase |-> "called", handle |-> handle[t]]
    [] at[t] \in {"summarising", "beginning", "running", "raised"} ->
         [phase |-> "working", handle |-> handle[t], read |-> base[t]]
    [] at[t] = "committing" -> [phase |-> "worked", handle |-> handle[t], read |-> base[t]]
    [] OTHER -> [phase |-> "idle"]

Contract == INSTANCE TurnContract WITH Workers <- Threads, turn <- [t \in Threads |-> TurnOf(t)]

\* Whatever its nodes do and wherever it fails, a turn asks the ledger at most once,
\* after its work, to append under the number after the history it read; a thread
\* used, closed or opened again meanwhile makes it fail unless that number still fits.
TurnsRefined == Contract!ContractSpec

\* tests/test_primeqa_hybrid_bounded_dynamic_agent_runtime.py, on the trace of a
\* failed turn: "assert trace.retrieval_call_count == 1".  A turn whose retrieval
\* was called says so in its trace, wherever it failed after that.
RetrievalIsCounted ==
  \A t \in Threads : result[t] = "raised" =>
    trace[t].calls["retrieve_candidate_pool"] =
      Counted(node[t], graph[t]).calls["retrieve_candidate_pool"]

===============================================================================
