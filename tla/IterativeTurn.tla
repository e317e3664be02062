----------------------------- MODULE IterativeTurn -----------------------------
(***************************************************************************)
(* PrimeQAHybridBoundedIterativeAgentRuntime.run_turn(): the model may     *)
(* compose, clarify, refuse or ask once to inspect more of the pool it     *)
(* already has, and then decides again.  Twelve nodes, two decisions, one  *)
(* retrieval.  A document is the rank the retriever gave it.  As in        *)
(* BoundedTurn a node runs in a COPY of its caller's context; here no      *)
(* handler records its counts before it raises.                            *)
(***************************************************************************)
EXTENDS ThreadLedger, FiniteSets, SequencesExt

CONSTANTS
  Threads, Errors, NoHandle, NoError,
  PoolDepth,          \* candidates the retriever may return: ranks 1 .. n
  PrefixDepth,        \* the ranks the answer context is selected from
  PrimaryDepth,       \* how many of them it has
  AlternateDepth,     \* ALTERNATE_EVIDENCE_DEPTH
  VerificationDepth,  \* _VERIFICATION_CONTEXT_MAX_RANK
  MaxRuns             \* bound: how many times run_turn() is entered in all

\* The verifier looks up the ranks of the prefix, and the alternates among them.
ASSUME IterativeAssumption ==
  /\ {PoolDepth, PrefixDepth, PrimaryDepth, AlternateDepth, VerificationDepth} \subseteq Nat \ {0}
  /\ PrefixDepth <= VerificationDepth /\ AlternateDepth <= VerificationDepth
  /\ MaxRuns \in Nat
  /\ NoHandle \notin Handles
  /\ NoError \notin Errors

VARIABLES
  runs,          \* run_turn() calls so far
  at,            \* where each thread is inside run_turn()
  handle,        \* the thread handle of the call
  base,          \* how many turns the loaded history has
  node,          \* the graph node that runs next, or that raised
  graph,         \* the private state the graph passes from node to node
  snapshot,      \* _last_snapshot in the caller's context
  error,         \* the exception that propagates
  failures,      \* _failure_snapshots
  result,        \* how the thread's last call ended
  trace          \* _last_public_trace in the caller's context

callVars == <<handle, base, node, graph, error>>
turnVars == <<runs, at, callVars, snapshot, failures, result, trace, ledgerVars>>

-------------------------------------------------------------------------------
(* The transition policy.  A state or an action is a name and a decision. *)

InitialActions == {"compose", "inspect", "clarify", "refuse"}
FinalActions == InitialActions \ {"inspect"}
Plain(name) == <<name, "none">>

Policy ==
  {<<Plain("received"),     Plain("validate"), Plain("validated")>>,
   <<Plain("validated"),    Plain("retrieve"), Plain("retrieved")>>,
   <<Plain("retrieved"),    Plain("prepare"),  Plain("prepared")>>,
   <<<<"initial", "inspect">>, Plain("inspect"), Plain("inspected")>>,
   <<Plain("answered"),     Plain("verify"),   Plain("verified")>>,
   <<Plain("verified"),     Plain("observe"),  Plain("observed")>>,
   <<Plain("observed"),     Plain("complete"), Plain("complete")>>,
   <<Plain("observed"),     Plain("refuse"),   Plain("refuse")>>}
  \cup {<<Plain("prepared"),  <<"initial", d>>, <<"initial", d>>>> : d \in InitialActions}
  \cup {<<Plain("inspected"), <<"final", d>>,   <<"final", d>>>>   : d \in FinalActions}
  \cup UNION {{<<<<phase, "compose">>, Plain("compose"), Plain("answered")>>,
               <<<<phase, "clarify">>, Plain("clarify"), Plain("clarify")>>,
               <<<<phase, "refuse">>,  Plain("refuse"),  Plain("refuse")>>}
              : phase \in {"initial", "final"}}

-------------------------------------------------------------------------------
(* The graph _compile() builds *)

Tool == {"retrieve_candidate_pool", "inspect_alternate_evidence", "compose_grounded_answer",
         "verify_grounded_answer", "observe_diagnostics"}
Select == {"select_initial_action", "select_final_action"}
Finalize == {"finalize_verified_response", "finalize_clarification", "finalize_refusal"}
Node == Tool \cup Select \cup Finalize \cup {"validate_request", "prepare_initial_context"}

Routed(decision) == CASE decision = "compose" -> "compose_grounded_answer"
                      [] decision = "inspect" -> "inspect_alternate_evidence"
                      [] decision = "clarify" -> "finalize_clarification"
                      [] OTHER                -> "finalize_refusal"

\* Seeded fault: the model is asked its first question again after an inspection.
EdgeBack(n, decision) ==
  CASE n = "validate_request"           -> "retrieve_candidate_pool"
    [] n = "retrieve_candidate_pool"    -> "prepare_initial_context"
    [] n = "prepare_initial_context"    -> "select_initial_action"
    [] n \in Select                     -> Routed(decision)
    [] n = "inspect_alternate_evidence" -> "select_initial_action"
    [] n = "compose_grounded_answer"    -> "verify_grounded_answer"
    [] n = "verify_grounded_answer"     -> "observe_diagnostics"
    [] n = "observe_diagnostics"        -> "finalize_verified_response"
    [] OTHER                            -> "end"

Edge(n, decision) ==
  CASE n = "validate_request"           -> "retrieve_candidate_pool"
    [] n = "retrieve_candidate_pool"    -> "prepare_initial_context"
    [] n = "prepare_initial_context"    -> "select_initial_action"
    [] n \in Select                     -> Routed(decision)
    [] n = "inspect_alternate_evidence" -> "select_final_action"
    [] n = "compose_grounded_answer"    -> "verify_grounded_answer"
    [] n = "verify_grounded_answer"     -> "observe_diagnostics"
    [] n = "observe_diagnostics"        -> "finalize_verified_response"
    [] OTHER                            -> "end"

\* done: the nodes that returned, hence the results and the tool counts the state
\* has; the evidence fields are sets of ranks; a decision keeps what it was shown.
InitialState ==
  [current |-> Plain("received"), done |-> {}, decisions |-> <<>>, pool |-> {}, initial |-> {},
   alternate |-> {}, composition |-> {}, verification |-> {}, terminal |-> "none", stage |-> "none"]
NoState == [InitialState EXCEPT !.current = Plain("none")]

LastDecision(s) == IF s.decisions = <<>> THEN "none" ELSE Last(s.decisions).action

\* The action a node asks the policy for, once its work is done.
Action(n, s) ==
  CASE n = "validate_request"           -> Plain("validate")
    [] n = "retrieve_candidate_pool"    -> Plain("retrieve")
    [] n = "prepare_initial_context"    -> Plain("prepare")
    [] n = "select_initial_action"      -> <<"initial", LastDecision(s)>>
    [] n = "inspect_alternate_evidence" -> Plain("inspect")
    [] n = "select_final_action"        -> <<"final", LastDecision(s)>>
    [] n = "compose_grounded_answer"    -> Plain("compose")
    [] n = "verify_grounded_answer"     -> Plain("verify")
    [] n = "observe_diagnostics"        -> Plain("observe")
    [] n = "finalize_verified_response" -> Plain(s.terminal)
    [] n = "finalize_clarification"     -> Plain("clarify")
    [] OTHER                            -> Plain("refuse")

\* What a handler insists on before it works: the results it reads, one call of
\* each tool, the order of the decisions, an inspection that finds enough.
Ready(n, s) ==
  /\ n \in Tool => n \notin s.done
  /\ n \in Select => Len(s.decisions) = (IF n = "select_initial_action" THEN 0 ELSE 1)
  /\ n = "verify_grounded_answer" => "compose_grounded_answer" \in s.done
  /\ n = "observe_diagnostics" => {"prepare_initial_context", "compose_grounded_answer",
                                   "verify_grounded_answer"} \subseteq s.done
  /\ n = "finalize_verified_response" => s.terminal # "none"
  /\ n = "finalize_clarification" => LastDecision(s) = "clarify"

Choose(s, actions) ==
  {[s EXCEPT !.decisions = Append(@, [action |-> a, shown |-> s.initial \cup s.alternate])]
     : a \in actions}

Prepare(s) ==
  {[s EXCEPT !.initial = primary, !.composition = primary,
             !.verification = {r \in s.pool : r <= VerificationDepth}]
     : primary \in {p \in SUBSET {r \in s.pool : r <= PrefixDepth} : Cardinality(p) = PrimaryDepth}}

\* Seeded fault: the inspected evidence replaces the context of the answer.
InspectInstead(s) ==
  {[s EXCEPT !.alternate = 1 .. AlternateDepth, !.composition = 1 .. AlternateDepth]}

Inspect(s) ==
  {[s EXCEPT !.alternate = 1 .. AlternateDepth, !.composition = s.initial \cup 1 .. AlternateDepth]}

\* The terminal state of an answer the system gives by itself.
Finalized(n) == IF n = "finalize_clarification" THEN "clarify" ELSE "refuse"

\* What the work of a node can make of the state; a selector that finds too few
\* candidates for the answer context, or an inspector for its own, raises.
Worked(n, s) ==
  CASE n = "retrieve_candidate_pool"    -> {[s EXCEPT !.pool = 1 .. k] : k \in 0 .. PoolDepth}
    [] n = "prepare_initial_context"    -> Prepare(s)
    [] n = "select_initial_action"      -> Choose(s, InitialActions)
    [] n = "inspect_alternate_evidence" -> IF 1 .. AlternateDepth \subseteq s.pool
                                           THEN Inspect(s) ELSE {}
    [] n = "select_final_action"        -> Choose(s, FinalActions)
    [] n = "observe_diagnostics"        -> {[s EXCEPT !.terminal = x] : x \in {"complete", "refuse"}}
    [] n \in {"finalize_clarification", "finalize_refusal"} -> {[s EXCEPT !.terminal = Finalized(n)]}
    [] OTHER                            -> {s}

Allowed(n, s) == {p[3] : p \in {q \in Policy : q[1] = s.current /\ q[2] = Action(n, s)}}

Fits(n, s) == Ready(n, s) /\ \A w \in Worked(n, s) : Allowed(n, w) # {}

-------------------------------------------------------------------------------
(* The public trace *)

Count(tool, s) == IF tool \in s.done THEN 1 ELSE 0

TraceOf(s, limit) ==
  [terminal |-> IF s.terminal = "none" THEN s.current[1] ELSE s.terminal,
   stage |-> s.stage, limit |-> limit,
   actions |-> [i \in DOMAIN s.decisions |-> s.decisions[i].action],
   calls |-> [x \in Tool |-> Count(x, s)],
   evidence |-> <<Cardinality(s.initial), Cardinality(s.alternate), Cardinality(s.composition)>>]
EmptyTrace(stage) == [TraceOf([InitialState EXCEPT !.stage = stage], FALSE) EXCEPT !.terminal = "failed"]
NoTrace == EmptyTrace("none")

Init ==
  /\ runs = 0
  /\ at = [t \in Threads |-> "idle"]
  /\ handle = [t \in Threads |-> NoHandle]
  /\ base = [t \in Threads |-> 0]
  /\ node = [t \in Threads |-> "end"]
  /\ graph = [t \in Threads |-> InitialState]
  /\ snapshot = [t \in Threads |-> NoState]
  /\ error = [t \in Threads |-> NoError]
  /\ failures = [e \in Errors |-> NoState]
  /\ result = [t \in Threads |-> "none"]
  /\ trace = [t \in Threads |-> NoTrace]
  /\ LedgerInit

Move(t, from, to) == at[t] = from /\ at' = [at EXCEPT ![t] = to]
Report(t, how, tr) == result' = [result EXCEPT ![t] = how] /\ trace' = [trace EXCEPT ![t] = tr]

-------------------------------------------------------------------------------
(* run_turn() *)

Call(t, h) ==
  /\ Move(t, "idle", "loading")
  /\ runs < MaxRuns
  /\ runs' = runs + 1
  /\ handle' = [handle EXCEPT ![t] = h]
  /\ node' = [node EXCEPT ![t] = "end"]
  /\ graph' = [graph EXCEPT ![t] = InitialState]
  /\ Report(t, "none", NoTrace)
  /\ UNCHANGED <<base, error, snapshot, failures, ledgerVars>>

Unloaded(t) == Report(t, "unloaded", EmptyTrace("load_thread_state"))

LoadHistory(t) ==
  /\ IF handle[t] \in opened
       THEN /\ Move(t, "loading", "summarising")
            /\ base' = [base EXCEPT ![t] = history[handle[t]].count]
            /\ UNCHANGED <<result, trace>>
       ELSE Move(t, "loading", "idle") /\ Unloaded(t) /\ UNCHANGED base
  /\ UNCHANGED <<runs, handle, node, graph, error, snapshot, failures, ledgerVars>>

\* The summary is a second look at the ledger; begin() overwrites what an earlier
\* turn may have left in the context.
SummariseAndBegin(t) ==
  /\ IF handle[t] \in opened
       THEN /\ Move(t, "summarising", "running")
            /\ node' = [node EXCEPT ![t] = "validate_request"]
            /\ snapshot' = [snapshot EXCEPT ![t] = InitialState]
            /\ UNCHANGED <<result, trace>>
       ELSE Move(t, "summarising", "idle") /\ Unloaded(t) /\ UNCHANGED <<node, snapshot>>
  /\ UNCHANGED <<runs, handle, base, graph, error, failures, ledgerVars>>

\* What a node writes to _last_snapshot stays in the copied context.
NodeReturns(t) ==
  /\ at[t] = "running"
  /\ node[t] # "end"
  /\ Ready(node[t], graph[t])
  /\ \E w \in Worked(node[t], graph[t]) : \E next \in Allowed(node[t], w) :
       /\ graph' = [graph EXCEPT ![t] =
                     [w EXCEPT !.current = next, !.done = @ \cup {node[t]}, !.stage = "none"]]
       /\ node' = [node EXCEPT ![t] = Edge(node[t], LastDecision(w))]
  /\ UNCHANGED <<runs, at, handle, base, error, snapshot, failures, result, trace, ledgerVars>>

\* A finalizer calls nothing, the inspector only looks at the pool.
Fallible(n, s) == \/ n \in Node \ (Finalize \cup {"inspect_alternate_evidence"})
                  \/ n \in Node /\ (~Fits(n, s) \/ Worked(n, s) = {})

\* The copied context holds what begin() wrote: the counts of the nodes that
\* returned are not in it.
NodeRaises(t, e) ==
  /\ Fallible(node[t], graph[t])
  /\ \A u \in Threads : error[u] # e
  /\ Move(t, "running", "raised")
  /\ error' = [error EXCEPT ![t] = e]
  /\ failures' = [failures EXCEPT ![e] =
       [(IF snapshot[t] = NoState THEN graph[t] ELSE snapshot[t]) EXCEPT !.stage = node[t]]]
  /\ UNCHANGED <<runs, handle, base, node, graph, snapshot, result, trace, ledgerVars>>

\* Seeded fault: the trace is made of the caller's own snapshot, not of the table's.
ConsumeOwn(t) ==
  /\ Move(t, "raised", "idle")
  /\ Report(t, "raised", TraceOf(snapshot[t], FALSE))
  /\ error' = [error EXCEPT ![t] = NoError]
  /\ failures' = [failures EXCEPT ![error[t]] = NoState]
  /\ snapshot' = [snapshot EXCEPT ![t] = NoState]
  /\ UNCHANGED <<runs, handle, base, node, graph, ledgerVars>>

ConsumeFailure(t) ==
  /\ Move(t, "raised", "idle")
  /\ Report(t, "raised", TraceOf(failures[error[t]], FALSE))
  /\ error' = [error EXCEPT ![t] = NoError]
  /\ failures' = [failures EXCEPT ![error[t]] = NoState]
  /\ snapshot' = [snapshot EXCEPT ![t] = NoState]
  /\ UNCHANGED <<runs, handle, base, node, graph, ledgerVars>>

GraphEnds(t) ==
  /\ node[t] = "end"
  /\ Move(t, "running", "committing")
  /\ snapshot' = [snapshot EXCEPT ![t] = NoState]
  /\ UNCHANGED <<runs, callVars, failures, result, trace, ledgerVars>>

Commit(t, size) ==
  /\ Move(t, "committing", "idle")
  /\ IF Acceptable(handle[t], base[t] + 1, size)
       THEN /\ AppendTurn(handle[t], base[t] + 1, size)
            /\ Report(t, graph[t].terminal, TraceOf(graph[t], FALSE))
       ELSE /\ Report(t, "rejected",
                      TraceOf([graph[t] EXCEPT !.stage = "commit_thread_state"], TRUE))
            /\ UNCHANGED ledgerVars
  /\ UNCHANGED <<runs, callVars, snapshot, failures>>

TurnStep(t) == \/ LoadHistory(t) \/ SummariseAndBegin(t) \/ NodeReturns(t)
               \/ \E e \in Errors : NodeRaises(t, e)
               \/ ConsumeFailure(t) \/ GraphEnds(t)
               \/ \E size \in Sizes : Commit(t, size)

ThreadAction(h) == (LedgerOpen(h) \/ LedgerClose(h))
                   /\ UNCHANGED <<runs, at, callVars, snapshot, failures, result, trace>>

Next == \/ \E t \in Threads : TurnStep(t) \/ \E h \in Handles : Call(t, h)
        \/ \E h \in Handles : ThreadAction(h)

Spec == Init /\ [][Next]_turnVars

-------------------------------------------------------------------------------
\* Nodes, edges and policy are three tables that must agree for every decision:
\* no node meets a missing result, a tool used up, a decision out of order or a
\* refused transition, and the graph ends on a terminal state with its answer.
IterativeGraphFits ==
  \A t \in Threads : at[t] = "running" =>
    IF node[t] = "end" THEN graph[t].current = Plain(graph[t].terminal)
                       ELSE Fits(node[t], graph[t])

\* What the answer is composed from is what the model was shown when it last chose
\* to answer, once each, and nothing the verifier cannot look up: an inspection
\* widens the evidence of the second decision and of the answer alike.
EvidenceWasShown ==
  \A t \in Threads : "compose_grounded_answer" \in graph[t].done =>
    /\ graph[t].composition = Last(graph[t].decisions).shown
    /\ graph[t].composition \subseteq graph[t].verification
    /\ Len(graph[t].decisions) = 1 + Count("inspect_alternate_evidence", graph[t])

\* A failed turn is reported under the node that failed, on whichever thread, and
\* its private state leaves the table with its exception.
FailureIsReported ==
  /\ \A t \in Threads : result[t] = "raised" => trace[t].stage = node[t]
  /\ \A e \in Errors : failures[e] # NoState =>
       \E t \in Threads : at[t] = "raised" /\ error[t] = e

\* The committed outcome follows from the last decision: an answer was composed,
\* verified and observed once, a clarification or a direct refusal skipped all
\* three, retrieval ran once, and one more decision was taken iff evidence was
\* inspected.
OutcomeFollowsDecision ==
  \A t \in Threads : result[t] \in {"complete", "refuse", "clarify"} =>
    LET tr == trace[t]
        last == tr.actions[Len(tr.actions)]
        composed == tr.calls["compose_grounded_answer"]
    IN /\ tr.terminal = result[t]
       /\ tr.stage = "none"
       /\ tr.calls["retrieve_candidate_pool"] = 1
       /\ composed = (IF last = "compose" THEN 1 ELSE 0)
       /\ tr.calls["verify_grounded_answer"] = composed
       /\ tr.calls["observe_diagnostics"] = composed
       /\ Len(tr.actions) = 1 + tr.calls["inspect_alternate_evidence"]
       /\ result[t] \in (CASE last = "compose" -> {"complete", "refuse"} [] OTHER -> {last})

\* What run_turn() publishes of a turn, ended or failed, is about that turn.
TraceIsTruthful == FailureIsReported /\ OutcomeFollowsDecision

\* The turn of a thread as the abstract specification sees it: the second look at the
\* ledger and the whole graph are its work.
TurnOf(t) ==
  CASE at[t] = "loading" -> [phase |-> "called", handle |-> handle[t]]
    [] at[t] \in {"summarising", "running", "raised"} ->
         [phase |-> "working", handle |-> handle[t], read |-> base[t]]
    [] at[t] = "committing" -> [phase |-> "worked", handle |-> handle[t], read |-> base[t]]
    [] OTHER -> [phase |-> "idle"]

Contract == INSTANCE TurnContract WITH Workers <- Threads, turn <- [t \in Threads |-> TurnOf(t)]

\* Whatever its nodes do and wherever it fails, a turn asks the ledger at most once,
\* after its work, to append under the number after the history it read; a thread
\* used, closed or opened again meanwhile makes it fail unless that number still fits.
TurnsRefined == Contract!ContractSpec

===============================================================================
