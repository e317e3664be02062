--------------------------- MODULE BoundedTurnProofs ---------------------------
(***************************************************************************)
(* Proofs about run_turn() for any number of threads, exceptions, threads  *)
(* of conversation and calls.  The heart is OnCourse: what the nodes that  *)
(* ran before a node have left in the graph's state.  From it follow that  *)
(* the two tables fit and that an outcome is earned; with what the caller's *)
(* context holds it tells what a failure has stored in the table.          *)
(***************************************************************************)
EXTENDS BoundedTurn, TLAPS

\* The nodes that have run when a node is next.
Before(n) ==
  CASE n = "validate_request"        -> {}
    [] n = "retrieve_candidate_pool" -> {"validate_request"}
    [] n = "prepare_context"         -> {"validate_request", "retrieve_candidate_pool"}
    [] n = "select_action"           -> {"validate_request", "retrieve_candidate_pool",
                                         "prepare_context"}
    [] n \in {"compose_grounded_answer", "finalize_insufficient_evidence_refusal"} ->
         {"validate_request", "retrieve_candidate_pool", "prepare_context", "select_action"}
    [] n = "verify_grounded_answer"  ->
         {"validate_request", "retrieve_candidate_pool", "prepare_context", "select_action",
          "compose_grounded_answer"}
    [] n = "observe_diagnostics"     ->
         {"validate_request", "retrieve_candidate_pool", "prepare_context", "select_action",
          "compose_grounded_answer", "verify_grounded_answer"}
    [] OTHER -> Node \ {"finalize_verified_response", "finalize_insufficient_evidence_refusal"}

\* The agent state in which a node is entered.
Entered(n) ==
  CASE n = "validate_request"           -> "received"
    [] n = "retrieve_candidate_pool"    -> "validated"
    [] n = "prepare_context"            -> "retrieved"
    [] n = "select_action"              -> "context_prepared"
    [] n = "compose_grounded_answer"    -> "decided_compose"
    [] n = "verify_grounded_answer"     -> "answered"
    [] n = "observe_diagnostics"        -> "verified"
    [] n = "finalize_verified_response" -> "observed"
    [] OTHER                            -> "decided_refuse"

Spent(s, ran) == /\ s.calls = [x \in Tool |-> IF x \in ran THEN 1 ELSE 0]
                 /\ s.decisions = IF "select_action" \in ran THEN 1 ELSE 0

OnCourse(n, s) ==
  IF n = "end"
    THEN /\ s.current = IF s.refused THEN "refuse" ELSE "complete"
         /\ \/ Spent(s, Node)
            \/ s.refused /\ Spent(s, {"retrieve_candidate_pool", "select_action"})
    ELSE /\ s.current = Entered(n)
         /\ s.done = Before(n)
         /\ Spent(s, Before(n))

\* What the handler of a node has in its context when it raises.
Stored(n, s) ==
  [(IF n \in Tool \cup {"select_action"} THEN Counted(n, s) ELSE InitialState)
     EXCEPT !.stage = n]

\* The caller's context, between calls and during one.
ContextInv(t) ==
  /\ at[t] = "running" => snapshot[t] = InitialState
  /\ at[t] \notin {"running", "raised"} => snapshot[t] = NoState
  /\ at[t] # "idle" => result[t] = "none"
  /\ result[t] # "unavailable"

\* The graph, while there is one.
CourseInv(t) ==
  /\ at[t] \in {"running", "raised", "committing"} => OnCourse(node[t], graph[t])
  /\ at[t] = "committing" => node[t] = "end"

\* The table, while the exception is on its way.
FailureInv(t) ==
  at[t] = "raised" => /\ error[t] \in Errors
                      /\ node[t] \in Node
                      /\ failures[error[t]] = Stored(node[t], graph[t])

\* What a failed and a successful call report: the properties, for one trace.
Reported(tr, n, s) ==
  /\ tr.terminal = "failed" /\ tr.stage = n
  /\ n \in Tool \cup {"select_action"} =>
       tr.calls = Counted(n, s).calls /\ tr.decisions = Counted(n, s).decisions

Earned(tr, how) ==
  /\ tr.terminal = how
  /\ tr.decisions = 1
  /\ LET called == {x \in Tool : tr.calls[x] = 1} IN
       \/ called = Tool
       \/ called = {"retrieve_candidate_pool"} /\ how = "refuse"

ReportInv(t) ==
  /\ result[t] = "raised" => Reported(trace[t], node[t], graph[t])
  /\ result[t] \in {"complete", "refuse"} => Earned(trace[t], result[t])

ThreadInv(t) == ContextInv(t) /\ CourseInv(t) /\ FailureInv(t) /\ ReportInv(t)

DistinctErrors ==
  \A t, u \in Threads :
    at[t] = "raised" /\ at[u] = "raised" /\ error[t] = error[u] => t = u

FailuresHaveHolders ==
  \A e \in Errors : failures[e] # NoState => \E t \in Threads : at[t] = "raised" /\ error[t] = e

TurnInv == TypeOK /\ (\A t \in Threads : ThreadInv(t)) /\ DistinctErrors /\ FailuresHaveHolders

-------------------------------------------------------------------------------
(* The graph, without the threads *)

\* Allowed() is the policy's third column at the state and the action.
LEMMA AllowedIsPolicy ==
  ASSUME NEW n, NEW s, NEW next
  PROVE  next \in Allowed(n, s) <=> <<s.current, Action(n, s), next>> \in Policy
<1>1. \A q \in Policy : q = <<q[1], q[2], q[3]>>
  BY DEF Policy
<1>2. ASSUME next \in Allowed(n, s)
      PROVE  <<s.current, Action(n, s), next>> \in Policy
  BY <1>1, <1>2 DEF Allowed
<1>3. ASSUME <<s.current, Action(n, s), next>> \in Policy
      PROVE  next \in Allowed(n, s)
  <2>. DEFINE q == <<s.current, Action(n, s), next>>
  <2>1. q[1] = s.current /\ q[2] = Action(n, s) /\ q[3] = next
    OBVIOUS
  <2>2. q \in {r \in Policy : r[1] = s.current /\ r[2] = Action(n, s)}
    BY <1>3, <2>1
  <2>. HIDE DEF q
  <2>. QED
    BY <2>1, <2>2 DEF Allowed
<1>. QED
  BY <1>2, <1>3

LEMMA PolicyStates == \A a, b, c : <<a, b, c>> \in Policy => c \in AgentState
BY DEF Policy, AgentState

LEMMA CountedIs ==
  ASSUME NEW n, NEW s \in GraphState
  PROVE  /\ Counted(n, s) =
              [current |-> s.current, done |-> s.done, calls |-> Counted(n, s).calls,
               decisions |-> Counted(n, s).decisions, decision |-> s.decision,
               refused |-> s.refused, stage |-> s.stage]
         /\ Counted(n, s).calls = [x \in Tool |-> IF x = n THEN s.calls[x] + 1 ELSE s.calls[x]]
         /\ Counted(n, s).decisions = IF n = "select_action" THEN s.decisions + 1 ELSE s.decisions
<1>. DEFINE calls == [x \in Tool |-> IF x = n THEN s.calls[x] + 1 ELSE s.calls[x]]
            decisions == IF n = "select_action" THEN s.decisions + 1 ELSE s.decisions
<1>1. Counted(n, s) = [s EXCEPT !.calls = calls, !.decisions = decisions]
  BY DEF Counted
<1>2. s = [current |-> s.current, done |-> s.done, calls |-> s.calls,
           decisions |-> s.decisions, decision |-> s.decision,
           refused |-> s.refused, stage |-> s.stage]
  BY DEF GraphState
<1>. HIDE DEF calls, decisions
<1>3. Counted(n, s) = [current |-> s.current, done |-> s.done, calls |-> calls,
                       decisions |-> decisions, decision |-> s.decision,
                       refused |-> s.refused, stage |-> s.stage]
  BY <1>1, <1>2
<1>. QED
  BY <1>3 DEF calls, decisions

LEMMA CountedType ==
  ASSUME NEW n, NEW s \in GraphState, WithinBudget(n, s)
  PROVE  /\ Counted(n, s) \in GraphState
         /\ Counted(n, s).current = s.current
<1>. DEFINE calls == [x \in Tool |-> IF x = n THEN s.calls[x] + 1 ELSE s.calls[x]]
            decisions == IF n = "select_action" THEN s.decisions + 1 ELSE s.decisions
<1>1. s.calls \in [Tool -> 0 .. 1] /\ s.decisions \in 0 .. 1
  BY DEF GraphState
<1>2. \A x \in Tool : calls[x] \in 0 .. 1
  BY <1>1 DEF WithinBudget
<1>3. calls \in [Tool -> 0 .. 1]
  BY <1>2
<1>4. decisions \in 0 .. 1
  BY <1>1 DEF WithinBudget
<1>5. /\ Counted(n, s).calls \in [Tool -> 0 .. 1]
      /\ Counted(n, s).decisions \in 0 .. 1
  BY <1>3, <1>4, CountedIs
<1>. HIDE DEF calls, decisions
<1>6. Counted(n, s) =
        [current |-> s.current, done |-> s.done, calls |-> Counted(n, s).calls,
         decisions |-> Counted(n, s).decisions, decision |-> s.decision,
         refused |-> s.refused, stage |-> s.stage]
  BY CountedIs
<1>. QED
  BY <1>5, <1>6 DEF GraphState

\* What a node's work is, as a record.
LEMMA WorkedIs ==
  ASSUME NEW n \in Node, NEW s \in GraphState, NEW w \in Worked(n, s)
  PROVE  /\ w = [current |-> s.current, done |-> s.done \cup {n},
                 calls |-> Counted(n, s).calls, decisions |-> Counted(n, s).decisions,
                 decision |-> w.decision, refused |-> w.refused, stage |-> s.stage]
         /\ w.decision \in Decisions(n, s)
         /\ w.refused \in Refusals(n, s)
<1>1. PICK d \in Decisions(n, s), r \in Refusals(n, s) : w = WorkedAs(n, s, d, r)
  BY DEF Worked
<1>. DEFINE c == Counted(n, s)
            calls == Counted(n, s).calls
            decisions == Counted(n, s).decisions
<1>2. /\ c = [current |-> s.current, done |-> s.done, calls |-> calls,
              decisions |-> decisions, decision |-> s.decision,
              refused |-> s.refused, stage |-> s.stage]
      /\ w = [c EXCEPT !.done = @ \cup {n}, !.decision = d, !.refused = r]
  BY <1>1, CountedIs DEF WorkedAs
<1>. HIDE DEF c, calls, decisions
<1>3. w = [current |-> s.current, done |-> s.done \cup {n}, calls |-> calls,
           decisions |-> decisions, decision |-> d, refused |-> r, stage |-> s.stage]
  BY <1>2
<1>4. w.decision = d /\ w.refused = r
  BY <1>3
<1>. QED
  BY <1>3, <1>4 DEF calls, decisions

LEMMA InitialTypes == InitialState \in GraphState /\ InitialState # NoState
BY DEF InitialState, NoState, GraphState, AgentState

LEMMA EdgeType == \A n, d : Edge(n, d) \in Node \cup {"end"}
BY DEF Edge, Node, Tool

\* A node on course is within the budget and has the results it reads.
LEMMA OnCourseServes ==
  ASSUME NEW n \in Node, NEW s \in GraphState, OnCourse(n, s)
  PROVE  Needs(n) \subseteq s.done /\ WithinBudget(n, s)
BY DEF OnCourse, Spent, Before, Needs, WithinBudget, Node, Tool

\* The state a node hands on, as a record.
Handed(w, next) == [w EXCEPT !.current = next, !.stage = "none"]

LEMMA HandedRecord ==
  ASSUME NEW cur, NEW done, NEW calls, NEW decisions, NEW d, NEW r, NEW stage, NEW next
  PROVE  Handed([current |-> cur, done |-> done, calls |-> calls, decisions |-> decisions,
                 decision |-> d, refused |-> r, stage |-> stage], next)
         = [current |-> next, done |-> done, calls |-> calls, decisions |-> decisions,
            decision |-> d, refused |-> r, stage |-> "none"]
<1>. DEFINE c == [current |-> cur, done |-> done, calls |-> calls, decisions |-> decisions,
                  decision |-> d, refused |-> r, stage |-> stage]
            e == [c EXCEPT !.current = next]
<1>1. e = [current |-> next, done |-> done, calls |-> calls, decisions |-> decisions,
           decision |-> d, refused |-> r, stage |-> stage]
  OBVIOUS
<1>2. Handed(c, next) = [e EXCEPT !.stage = "none"]
  BY DEF Handed
<1>. HIDE DEF e
<1>3. [e EXCEPT !.stage = "none"] =
        [current |-> next, done |-> done, calls |-> calls, decisions |-> decisions,
         decision |-> d, refused |-> r, stage |-> "none"]
  BY <1>1
<1>. QED
  BY <1>2, <1>3

LEMMA HandedIs ==
  ASSUME NEW n \in Node, NEW s \in GraphState, NEW w \in Worked(n, s), NEW next
  PROVE  Handed(w, next) =
           [current |-> next, done |-> s.done \cup {n},
            calls |-> Counted(n, s).calls, decisions |-> Counted(n, s).decisions,
            decision |-> w.decision, refused |-> w.refused, stage |-> "none"]
<1>. DEFINE calls == Counted(n, s).calls
            decisions == Counted(n, s).decisions
            d == w.decision
            r == w.refused
<1>1. w = [current |-> s.current, done |-> s.done \cup {n}, calls |-> calls,
           decisions |-> decisions, decision |-> d, refused |-> r, stage |-> s.stage]
  BY WorkedIs
<1>. HIDE DEF calls, decisions, d, r
<1>2. Handed(w, next) =
        [current |-> next, done |-> s.done \cup {n}, calls |-> calls,
         decisions |-> decisions, decision |-> d, refused |-> r, stage |-> "none"]
  BY <1>1, HandedRecord
<1>. QED
  BY <1>2 DEF calls, decisions, d, r

LEMMA HandedType ==
  ASSUME NEW n \in Node, NEW s \in GraphState, OnCourse(n, s),
         NEW w \in Worked(n, s), NEW next \in Allowed(n, w)
  PROVE  Handed(w, next) \in GraphState
<1>1. Counted(n, s) \in GraphState
  BY CountedType, OnCourseServes
<1>2. Counted(n, s).calls \in [Tool -> 0 .. 1] /\ Counted(n, s).decisions \in 0 .. 1
  BY <1>1 DEF GraphState
<1>3. next \in AgentState
  BY AllowedIsPolicy, PolicyStates
<1>4. w.decision \in {"none", "compose", "refuse"} /\ w.refused \in BOOLEAN
  <2>1. w.decision \in Decisions(n, s) /\ w.refused \in Refusals(n, s)
    BY WorkedIs
  <2>2. s.decision \in {"none", "compose", "refuse"} /\ s.refused \in BOOLEAN
    BY DEF GraphState
  <2>3. w.decision \in {"none", "compose", "refuse"}
    BY <2>1, <2>2 DEF Decisions
  <2>4. Refusals(n, s) \subseteq BOOLEAN
    BY <2>2 DEF Refusals
  <2>. QED
    BY <2>1, <2>3, <2>4
<1>5. s.done \cup {n} \in SUBSET Node
  BY DEF GraphState
<1>. DEFINE calls == Counted(n, s).calls
            decisions == Counted(n, s).decisions
<1>6. Handed(w, next) =
        [current |-> next, done |-> s.done \cup {n}, calls |-> calls,
         decisions |-> decisions, decision |-> w.decision, refused |-> w.refused,
         stage |-> "none"]
  BY HandedIs
<1>7. calls \in [Tool -> 0 .. 1] /\ decisions \in 0 .. 1
  BY <1>2
<1>. HIDE DEF calls, decisions
<1>. QED
  BY <1>3, <1>4, <1>5, <1>6, <1>7 DEF GraphState

\* A node that has counted itself has spent what the nodes before it and it spend.
LEMMA CountedIsSpent ==
  ASSUME NEW n \in Node, NEW s \in GraphState, OnCourse(n, s)
  PROVE  /\ Counted(n, s).calls = [x \in Tool |-> IF x \in Before(n) \cup {n} THEN 1 ELSE 0]
         /\ Counted(n, s).decisions = IF "select_action" \in Before(n) \cup {n} THEN 1 ELSE 0
<1>1. n \notin Before(n)
  BY DEF Before, Node, Tool
<1>2. Spent(s, Before(n))
  BY DEF OnCourse, Node, Tool
<1>3. ASSUME NEW x \in Tool
      PROVE  (IF x = n THEN s.calls[x] + 1 ELSE s.calls[x])
               = (IF x \in Before(n) \cup {n} THEN 1 ELSE 0)
  BY <1>1, <1>2 DEF Spent
<1>4. Counted(n, s).calls = [x \in Tool |-> IF x \in Before(n) \cup {n} THEN 1 ELSE 0]
  BY <1>3, CountedIs
<1>5. Counted(n, s).decisions = IF "select_action" \in Before(n) \cup {n} THEN 1 ELSE 0
  <2>1. Counted(n, s).decisions = IF n = "select_action" THEN s.decisions + 1 ELSE s.decisions
    BY CountedIs
  <2>2. s.decisions = IF "select_action" \in Before(n) THEN 1 ELSE 0
    BY <1>2 DEF Spent
  <2>3. CASE n = "select_action"
    BY <1>1, <2>1, <2>2, <2>3
  <2>4. CASE n # "select_action"
    BY <2>1, <2>2, <2>4
  <2>. QED
    BY <2>3, <2>4
<1>. QED
  BY <1>4, <1>5

\* The step of the graph: whatever the work and the transition, the next node
\* finds the state it is entered with.
LEMMA CourseAdvances ==
  ASSUME NEW n \in Node, NEW s \in GraphState, OnCourse(n, s),
         NEW w \in Worked(n, s), NEW next \in Allowed(n, w)
  PROVE  OnCourse(Edge(n, w.decision), Handed(w, next))
<1>. DEFINE m == Edge(n, w.decision)
            h == Handed(w, next)
<1>1. w.current = Entered(n) /\ w.decision \in Decisions(n, s) /\ w.refused \in Refusals(n, s)
  BY WorkedIs DEF OnCourse, Node, Tool
<1>2. <<Entered(n), Action(n, w), next>> \in Policy
  BY <1>1, AllowedIsPolicy
<1>3. /\ Spent(h, Before(n) \cup {n})
      /\ h.done = Before(n) \cup {n} /\ h.current = next /\ h.refused = w.refused
  BY HandedIs, CountedIsSpent DEF Spent, OnCourse, Node, Tool
<1>4. CASE m # "end"
  <2>1. Before(m) = Before(n) \cup {n}
    BY <1>4, <1>1 DEF Edge, Before, Decisions, Node, Tool
  <2>2. next = Entered(m)
    BY <1>4, <1>1, <1>2 DEF Edge, Entered, Decisions, Action, Policy, Node, Tool
  <2>. QED
    BY <1>3, <1>4, <2>1, <2>2 DEF OnCourse
<1>5. CASE m = "end"
  <2>1. n \in {"finalize_verified_response", "finalize_insufficient_evidence_refusal"}
    BY <1>5 DEF Edge, Node, Tool
  <2>2. next = IF w.refused THEN "refuse" ELSE "complete"
    BY <2>1, <1>1, <1>2 DEF Entered, Action, Refusals, Policy
  <2>3. CASE n = "finalize_verified_response"
    <3>1. Spent(h, Node)
      BY <2>3, <1>3 DEF Spent, Before, Node, Tool
    <3>. QED
      BY <1>3, <1>5, <2>2, <3>1 DEF OnCourse
  <2>4. CASE n = "finalize_insufficient_evidence_refusal"
    <3>1. Spent(h, {"retrieve_candidate_pool", "select_action"}) /\ w.refused
      BY <2>4, <1>1, <1>3 DEF Spent, Before, Refusals, Node, Tool
    <3>. QED
      BY <1>3, <1>5, <2>2, <3>1 DEF OnCourse
  <2>. QED
    BY <2>1, <2>3, <2>4
<1>. QED
  BY <1>4, <1>5

\* Two tables, one course: a node that is on course trips over nothing.
LEMMA OnCourseFits ==
  ASSUME NEW n \in Node, NEW s \in GraphState, OnCourse(n, s)
  PROVE  Fits(n, s)
<1>1. ASSUME NEW w \in Worked(n, s)
      PROVE  \E next : <<Entered(n), Action(n, w), next>> \in Policy
  <2>1. w.decision \in Decisions(n, s) /\ w.refused \in Refusals(n, s)
    BY WorkedIs
  <2>. QED
    BY <2>1 DEF Entered, Action, Decisions, Refusals, Policy, Node, Tool
<1>2. ASSUME NEW w \in Worked(n, s)
      PROVE  Allowed(n, w) # {}
  <2>1. w.current = Entered(n)
    BY WorkedIs DEF OnCourse, Node, Tool
  <2>. QED
    BY <1>1, <2>1, AllowedIsPolicy
<1>. QED
  BY <1>2, OnCourseServes DEF Fits

-------------------------------------------------------------------------------
(* The threads *)

LEMMA TraceType ==
  ASSUME NEW s \in GraphState \cup {NoState}, NEW limit \in BOOLEAN
  PROVE  TraceOf(s, limit) \in Trace
BY DEF TraceOf, Trace, GraphState, NoState, InitialState, Stage, Node, Tool

LEMMA NoWorkflowType ==
  /\ NoTrace \in Trace
  /\ TraceWithoutWorkflow("load_thread_state") \in Trace
  /\ TraceWithoutWorkflow("workflow_state_unavailable") \in Trace
<1>. DEFINE tr == TraceOf(InitialState, FALSE)
<1>1. tr \in Trace
  BY TraceType, InitialTypes
<1>. HIDE DEF tr
<1>2. /\ [tr EXCEPT !.terminal = "none"] \in Trace
      /\ [tr EXCEPT !.stage = "load_thread_state"] \in Trace
      /\ [tr EXCEPT !.stage = "workflow_state_unavailable"] \in Trace
  BY <1>1 DEF Trace, Stage
<1>. QED
  BY <1>2 DEF NoTrace, TraceWithoutWorkflow, tr

\* A thread is not disturbed by what other threads do.
LEMMA OthersKeep ==
  ASSUME NEW u \in Threads, ThreadInv(u),
         at'[u] = at[u], node'[u] = node[u], graph'[u] = graph[u],
         snapshot'[u] = snapshot[u], error'[u] = error[u],
         result'[u] = result[u], trace'[u] = trace[u],
         at[u] = "raised" => failures'[error[u]] = failures[error[u]]
  PROVE  ThreadInv(u)'
<1>1. ContextInv(u)'
  BY DEF ThreadInv, ContextInv
<1>2. CourseInv(u)'
  BY DEF ThreadInv, CourseInv
<1>3. FailureInv(u)'
  BY DEF ThreadInv, FailureInv
<1>4. ReportInv(u)'
  BY DEF ThreadInv, ReportInv
<1>. QED
  BY <1>1, <1>2, <1>3, <1>4 DEF ThreadInv

\* Where no exception starts or ends, the table and its holders stay as they are.
LEMMA TableKeeps ==
  ASSUME DistinctErrors, FailuresHaveHolders, UNCHANGED <<error, failures>>,
         \A u \in Threads : at'[u] = "raised" <=> at[u] = "raised"
  PROVE  DistinctErrors' /\ FailuresHaveHolders'
BY DEF DistinctErrors, FailuresHaveHolders

LEMMA CallStep ==
  ASSUME TurnInv, NEW t \in Threads, NEW h \in Handles, Call(t, h)
  PROVE  TurnInv'
<1>1. TypeOK'
  BY NoWorkflowType DEF TurnInv, TypeOK, Call, Move, Report, ledgerVars, LedgerTypeOK
<1>2. ThreadInv(t)'
  BY DEF TurnInv, TypeOK, ThreadInv, ContextInv, CourseInv, FailureInv, ReportInv,
         Call, Move, Report
<1>3. ASSUME NEW u \in Threads, u # t
      PROVE  ThreadInv(u)'
  BY <1>3, OthersKeep DEF TurnInv, TypeOK, Call, Move, Report
<1>4. DistinctErrors' /\ FailuresHaveHolders'
  BY TableKeeps DEF TurnInv, TypeOK, Call, Move
<1>. QED
  BY <1>1, <1>2, <1>3, <1>4 DEF TurnInv

LEMMA LoadHistoryStep ==
  ASSUME TurnInv, NEW t \in Threads, LoadHistory(t)
  PROVE  TurnInv'
<1>1. TypeOK'
  BY NoWorkflowType
     DEF TurnInv, TypeOK, LoadHistory, Unloaded, Move, Report, ledgerVars, LedgerTypeOK
<1>2. ThreadInv(t)'
  BY DEF TurnInv, TypeOK, ThreadInv, ContextInv, CourseInv, FailureInv, ReportInv,
         LoadHistory, Unloaded, Move, Report
<1>3. ASSUME NEW u \in Threads, u # t
      PROVE  ThreadInv(u)'
  BY <1>3, OthersKeep DEF TurnInv, TypeOK, LoadHistory, Unloaded, Move, Report
<1>4. DistinctErrors' /\ FailuresHaveHolders'
  BY TableKeeps DEF TurnInv, TypeOK, LoadHistory, Move
<1>. QED
  BY <1>1, <1>2, <1>3, <1>4 DEF TurnInv

LEMMA LoadSummaryStep ==
  ASSUME TurnInv, NEW t \in Threads, LoadSummary(t)
  PROVE  TurnInv'
<1>1. TypeOK'
  BY NoWorkflowType
     DEF TurnInv, TypeOK, LoadSummary, Unloaded, Move, Report, callVars, ledgerVars, LedgerTypeOK
<1>2. ThreadInv(t)'
  BY DEF TurnInv, TypeOK, ThreadInv, ContextInv, CourseInv, FailureInv, ReportInv,
         LoadSummary, Unloaded, Move, Report, callVars
<1>3. ASSUME NEW u \in Threads, u # t
      PROVE  ThreadInv(u)'
  BY <1>3, OthersKeep DEF TurnInv, TypeOK, LoadSummary, Unloaded, Move, Report, callVars
<1>4. DistinctErrors' /\ FailuresHaveHolders'
  BY TableKeeps DEF TurnInv, TypeOK, LoadSummary, Move, callVars
<1>. QED
  BY <1>1, <1>2, <1>3, <1>4 DEF TurnInv

\* The snapshot a previous call left behind would be seen here; there is none.
LEMMA BeginStep ==
  ASSUME TurnInv, NEW t \in Threads, Begin(t)
  PROVE  TurnInv'
<1>1. at[t] = "beginning" /\ snapshot[t] = NoState
  BY DEF TurnInv, ThreadInv, ContextInv, Begin, Move
<1>2. /\ Move(t, "beginning", "running")
      /\ graph' = [graph EXCEPT ![t] = InitialState]
      /\ node' = [node EXCEPT ![t] = "validate_request"]
      /\ snapshot' = [snapshot EXCEPT ![t] = InitialState]
      /\ UNCHANGED <<result, trace, runs, handle, base, error, failures, opened, history>>
  BY <1>1 DEF Begin, ledgerVars
<1>3. "validate_request" \in Node
  BY DEF Node
<1>4. OnCourse("validate_request", InitialState)
  BY DEF OnCourse, Entered, Before, Spent, InitialState, Tool
<1>5. TypeOK'
  BY <1>2, <1>3, InitialTypes DEF TurnInv, TypeOK, Move, LedgerTypeOK
<1>6. ThreadInv(t)'
  BY <1>2, <1>4 DEF TurnInv, TypeOK, ThreadInv, ContextInv, CourseInv, FailureInv, ReportInv, Move
<1>7. ASSUME NEW u \in Threads, u # t
      PROVE  ThreadInv(u)'
  BY <1>2, <1>7, OthersKeep DEF TurnInv, TypeOK, Move
<1>8. DistinctErrors' /\ FailuresHaveHolders'
  BY <1>2, TableKeeps DEF TurnInv, TypeOK, Move
<1>. QED
  BY <1>5, <1>6, <1>7, <1>8 DEF TurnInv

LEMMA NodeReturnsStep ==
  ASSUME TurnInv, NEW t \in Threads, NodeReturns(t)
  PROVE  TurnInv'
<1>. DEFINE n == node[t]
            s == graph[t]
<1>1. n \in Node /\ s \in GraphState /\ OnCourse(n, s) /\ at[t] = "running"
  BY DEF TurnInv, TypeOK, ThreadInv, CourseInv, NodeReturns
<1>2. PICK w \in Worked(n, s) : \E next \in Allowed(n, w) :
        /\ graph' = [graph EXCEPT ![t] = Handed(w, next)]
        /\ node' = [node EXCEPT ![t] = Edge(n, w.decision)]
  BY DEF NodeReturns, Handed
<1>3. PICK next \in Allowed(n, w) :
        /\ graph' = [graph EXCEPT ![t] = Handed(w, next)]
        /\ node' = [node EXCEPT ![t] = Edge(n, w.decision)]
  BY <1>2
<1>4. UNCHANGED <<runs, at, handle, base, error, snapshot, failures, result, trace, opened, history>>
  BY DEF NodeReturns, ledgerVars
<1>5. OnCourse(Edge(n, w.decision), Handed(w, next)) /\ Handed(w, next) \in GraphState
  BY <1>1, CourseAdvances, HandedType
<1>6. TypeOK'
  BY <1>3, <1>4, <1>5, EdgeType DEF TurnInv, TypeOK, LedgerTypeOK
<1>7. ThreadInv(t)'
  BY <1>1, <1>3, <1>4, <1>5
     DEF TurnInv, TypeOK, ThreadInv, ContextInv, CourseInv, FailureInv, ReportInv
<1>8. ASSUME NEW u \in Threads, u # t
      PROVE  ThreadInv(u)'
  BY <1>3, <1>4, <1>8, OthersKeep DEF TurnInv, TypeOK
<1>9. DistinctErrors' /\ FailuresHaveHolders'
  BY <1>4, TableKeeps DEF TurnInv
<1>. QED
  BY <1>6, <1>7, <1>8, <1>9 DEF TurnInv

\* What the handler leaves is its counted state, or what begin() wrote: the
\* budget is never what it trips over.
LEMMA LeftIsStored ==
  ASSUME NEW t \in Threads, node[t] \in Node, graph[t] \in GraphState,
         OnCourse(node[t], graph[t]), snapshot[t] = InitialState
  PROVE  /\ [Left(t) EXCEPT !.stage = node[t]] = Stored(node[t], graph[t])
         /\ Stored(node[t], graph[t]) \in GraphState
<1>1. WithinBudget(node[t], graph[t])
  BY OnCourseServes
<1>2. Left(t) = IF node[t] \in Tool \cup {"select_action"} THEN Counted(node[t], graph[t])
                ELSE InitialState
  BY <1>1, InitialTypes DEF Left, Inherited
<1>3. Left(t) \in GraphState
  BY <1>1, <1>2, CountedType, InitialTypes
<1>4. [Left(t) EXCEPT !.stage = node[t]] \in GraphState
  BY <1>3 DEF GraphState
<1>. QED
  BY <1>2, <1>4 DEF Stored

LEMMA NodeRaisesStep ==
  ASSUME TurnInv, NEW t \in Threads, NEW e \in Errors, NodeRaises(t, e)
  PROVE  TurnInv'
<1>1. /\ at[t] = "running" /\ at' = [at EXCEPT ![t] = "raised"]
      /\ error' = [error EXCEPT ![t] = e]
      /\ \A u \in Threads : error[u] # e
      /\ UNCHANGED <<runs, handle, base, node, graph, snapshot, result, trace, opened, history>>
  BY DEF NodeRaises, Move, ledgerVars
<1>2. node[t] \in Node /\ graph[t] \in GraphState /\ OnCourse(node[t], graph[t])
      /\ snapshot[t] = InitialState
  BY <1>1 DEF TurnInv, TypeOK, ThreadInv, ContextInv, CourseInv, NodeRaises, Fallible
<1>. DEFINE stored == Stored(node[t], graph[t])
<1>3. failures' = [failures EXCEPT ![e] = stored] /\ stored \in GraphState
  BY <1>2, LeftIsStored DEF NodeRaises
<1>. HIDE DEF stored
<1>4. TypeOK'
  BY <1>1, <1>3 DEF TurnInv, TypeOK, LedgerTypeOK
<1>5. failures'[e] = stored /\ error'[t] = e
  BY <1>1, <1>3 DEF TurnInv, TypeOK
<1>6. ThreadInv(t)'
  <2>1. ContextInv(t)' /\ CourseInv(t)' /\ ReportInv(t)'
    BY <1>1, <1>2 DEF TurnInv, TypeOK, ThreadInv, ContextInv, CourseInv, ReportInv
  <2>2. FailureInv(t)'
    BY <1>1, <1>2, <1>5 DEF FailureInv, stored
  <2>. QED
    BY <2>1, <2>2 DEF ThreadInv
<1>7. ASSUME NEW u \in Threads, u # t
      PROVE  ThreadInv(u)'
  <2>1. error'[u] = error[u] /\ error[u] # e /\ at'[u] = at[u]
    BY <1>1, <1>7 DEF TurnInv, TypeOK
  <2>2. at[u] = "raised" => failures'[error[u]] = failures[error[u]]
    BY <1>3, <2>1 DEF TurnInv, TypeOK, ThreadInv, FailureInv
  <2>. QED
    BY <1>1, <2>1, <2>2, OthersKeep DEF TurnInv
<1>8. DistinctErrors'
  BY <1>1 DEF TurnInv, TypeOK, DistinctErrors
<1>9. FailuresHaveHolders'
  BY <1>1, <1>3 DEF TurnInv, TypeOK, FailuresHaveHolders
<1>. QED
  BY <1>4, <1>6, <1>7, <1>8, <1>9 DEF TurnInv

\* What a failure has stored makes the trace that the properties ask for.
LEMMA StoredReport ==
  ASSUME NEW n \in Node, NEW s \in GraphState, OnCourse(n, s)
  PROVE  /\ TraceOf(Stored(n, s), FALSE) \in Trace
         /\ Reported(TraceOf(Stored(n, s), FALSE), n, s)
<1>. DEFINE kept == IF n \in Tool \cup {"select_action"} THEN Counted(n, s) ELSE InitialState
<1>1. kept \in GraphState
  BY CountedType, OnCourseServes, InitialTypes
<1>2. kept.current \notin {"complete", "refuse"}
  <2>1. s.current \notin {"complete", "refuse"}
    BY DEF OnCourse, Entered, Node, Tool
  <2>2. Counted(n, s).current = s.current
    BY CountedType, OnCourseServes
  <2>. QED
    BY <2>1, <2>2 DEF InitialState
<1>3. n \in Tool \cup {"select_action"} => kept = Counted(n, s)
  OBVIOUS
<1>4. Stored(n, s) = [kept EXCEPT !.stage = n]
  BY DEF Stored
<1>. HIDE DEF kept
<1>5. /\ Stored(n, s) \in GraphState /\ Stored(n, s).stage = n
      /\ Stored(n, s).current = kept.current
      /\ Stored(n, s).calls = kept.calls /\ Stored(n, s).decisions = kept.decisions
  BY <1>1, <1>4 DEF GraphState
<1>6. TraceOf(Stored(n, s), FALSE) \in Trace
  BY <1>5, TraceType
<1>. QED
  BY <1>2, <1>3, <1>5, <1>6 DEF TraceOf, Reported

LEMMA ConsumeFailureStep ==
  ASSUME TurnInv, NEW t \in Threads, ConsumeFailure(t)
  PROVE  TurnInv'
<1>. DEFINE e == error[t]
            tr == TraceOf(failures[error[t]], FALSE)
<1>1. /\ at[t] = "raised" /\ at' = [at EXCEPT ![t] = "idle"]
      /\ result' = [result EXCEPT ![t] = "raised"] /\ trace' = [trace EXCEPT ![t] = tr]
      /\ error' = [error EXCEPT ![t] = NoError]
      /\ failures' = [failures EXCEPT ![e] = NoState]
      /\ snapshot' = [snapshot EXCEPT ![t] = NoState]
      /\ UNCHANGED <<runs, handle, base, node, graph, opened, history>>
  BY DEF ConsumeFailure, Move, Report, ledgerVars
<1>2. /\ e \in Errors /\ node[t] \in Node /\ graph[t] \in GraphState
      /\ failures[e] = Stored(node[t], graph[t]) /\ OnCourse(node[t], graph[t])
  BY <1>1 DEF TurnInv, TypeOK, ThreadInv, FailureInv, CourseInv
<1>3. tr \in Trace /\ Reported(tr, node[t], graph[t])
  BY <1>2, StoredReport
<1>. HIDE DEF tr
<1>4. TypeOK'
  BY <1>1, <1>2, <1>3 DEF TurnInv, TypeOK, LedgerTypeOK
<1>5. ThreadInv(t)'
  BY <1>1, <1>3 DEF TurnInv, TypeOK, ThreadInv, ContextInv, CourseInv, FailureInv, ReportInv
<1>6. ASSUME NEW u \in Threads, u # t
      PROVE  ThreadInv(u)'
  <2>1. at[u] = "raised" => error[u] # e
    BY <1>1, <1>6 DEF TurnInv, DistinctErrors
  <2>2. at[u] = "raised" => failures'[error[u]] = failures[error[u]]
    BY <1>1, <1>2, <2>1 DEF TurnInv, TypeOK, ThreadInv, FailureInv
  <2>. QED
    BY <1>1, <1>6, <2>2, OthersKeep DEF TurnInv, TypeOK
<1>7. DistinctErrors'
  BY <1>1 DEF TurnInv, TypeOK, DistinctErrors
<1>8. FailuresHaveHolders'
  <2>. SUFFICES ASSUME NEW f \in Errors, failures'[f] # NoState
                PROVE  \E u \in Threads : at'[u] = "raised" /\ error'[u] = f
    BY DEF FailuresHaveHolders
  <2>1. f # e /\ failures[f] # NoState
    BY <1>1, <1>2 DEF TurnInv, TypeOK
  <2>2. PICK u \in Threads : at[u] = "raised" /\ error[u] = f
    BY <2>1 DEF TurnInv, FailuresHaveHolders
  <2>. QED
    BY <1>1, <2>1, <2>2 DEF TurnInv, TypeOK
<1>. QED
  BY <1>4, <1>5, <1>6, <1>7, <1>8 DEF TurnInv

LEMMA GraphEndsStep ==
  ASSUME TurnInv, NEW t \in Threads, GraphEnds(t)
  PROVE  TurnInv'
<1>1. /\ at[t] = "running" /\ node[t] = "end" /\ at' = [at EXCEPT ![t] = "committing"]
      /\ snapshot' = [snapshot EXCEPT ![t] = NoState]
      /\ UNCHANGED <<runs, handle, base, node, graph, error, failures, result, trace,
                     opened, history>>
  BY DEF GraphEnds, Move, callVars, ledgerVars
<1>2. TypeOK'
  BY <1>1 DEF TurnInv, TypeOK, LedgerTypeOK
<1>3. ThreadInv(t)'
  BY <1>1 DEF TurnInv, TypeOK, ThreadInv, ContextInv, CourseInv, FailureInv, ReportInv
<1>4. ASSUME NEW u \in Threads, u # t
      PROVE  ThreadInv(u)'
  BY <1>1, <1>4, OthersKeep DEF TurnInv, TypeOK
<1>5. DistinctErrors' /\ FailuresHaveHolders'
  BY <1>1, TableKeeps DEF TurnInv, TypeOK
<1>. QED
  BY <1>2, <1>3, <1>4, <1>5 DEF TurnInv

\* A graph that has ended gives a trace that agrees with the answer.
LEMMA EndIsEarned ==
  ASSUME NEW s \in GraphState, OnCourse("end", s)
  PROVE  Earned(TraceOf(s, FALSE), IF s.refused THEN "refuse" ELSE "complete")
<1>. DEFINE how == IF s.refused THEN "refuse" ELSE "complete"
            tr == TraceOf(s, FALSE)
            called == {x \in Tool : s.calls[x] = 1}
<1>1. tr.terminal = how /\ tr.calls = s.calls /\ tr.decisions = s.decisions
  BY DEF OnCourse, TraceOf
<1>2. CASE Spent(s, Node)
  <2>1. s.decisions = 1 /\ called = Tool
    BY <1>2 DEF Spent, Node
  <2>. QED
    BY <1>1, <2>1 DEF Earned
<1>3. CASE s.refused /\ Spent(s, {"retrieve_candidate_pool", "select_action"})
  <2>1. s.decisions = 1 /\ called = {"retrieve_candidate_pool"}
    BY <1>3 DEF Spent, Tool
  <2>. QED
    BY <1>1, <1>3, <2>1 DEF Earned
<1>. QED
  BY <1>2, <1>3 DEF OnCourse

LEMMA CommitStep ==
  ASSUME TurnInv, NEW t \in Threads, NEW size \in Sizes, Commit(t, size)
  PROVE  TurnInv'
<1>1. /\ at[t] = "committing" /\ at' = [at EXCEPT ![t] = "idle"]
      /\ UNCHANGED <<runs, handle, base, node, graph, error, snapshot, failures>>
  BY DEF Commit, Move, callVars
<1>2. graph[t] \in GraphState /\ OnCourse("end", graph[t])
  BY <1>1 DEF TurnInv, TypeOK, ThreadInv, CourseInv
<1>3. PICK how, tr :
        /\ result' = [result EXCEPT ![t] = how] /\ trace' = [trace EXCEPT ![t] = tr]
        /\ how \in {"rejected", "complete", "refuse"} /\ tr \in Trace
        /\ how # "rejected" => Earned(tr, how)
  <2>1. CASE Acceptable(handle[t], base[t] + 1, size)
    <3>1. TraceOf(graph[t], FALSE) \in Trace
      BY <1>2, TraceType
    <3>. QED
      BY <1>2, <2>1, <3>1, EndIsEarned DEF Commit, Report
  <2>2. CASE ~Acceptable(handle[t], base[t] + 1, size)
    <3>1. [graph[t] EXCEPT !.stage = "commit_thread_state"] \in GraphState
      BY <1>2 DEF GraphState
    <3>2. TraceOf([graph[t] EXCEPT !.stage = "commit_thread_state"], TRUE) \in Trace
      BY <3>1, TraceType
    <3>. QED
      BY <2>2, <3>2 DEF Commit, Report
  <2>. QED
    BY <2>1, <2>2
<1>4. LedgerTypeOK'
  <2>1. CASE UNCHANGED ledgerVars
    BY <2>1 DEF TurnInv, TypeOK, LedgerTypeOK, ledgerVars
  <2>2. CASE AppendTurn(handle[t], base[t] + 1, size)
    <3>1. /\ handle[t] \in Handles /\ history \in [Handles -> [count: Nat, bytes: Nat]]
          /\ size \in Nat
      BY <2>2, LedgerAssumption
         DEF TurnInv, TypeOK, LedgerTypeOK, LedgerAssumption, AppendTurn, Acceptable
    <3>. QED
      BY <2>2, <3>1 DEF TurnInv, TypeOK, LedgerTypeOK, AppendTurn
  <2>. QED
    BY <2>1, <2>2 DEF Commit
<1>5. TypeOK'
  BY <1>1, <1>3, <1>4 DEF TurnInv, TypeOK
<1>6. ThreadInv(t)'
  BY <1>1, <1>3 DEF TurnInv, TypeOK, ThreadInv, ContextInv, CourseInv, FailureInv, ReportInv
<1>7. ASSUME NEW u \in Threads, u # t
      PROVE  ThreadInv(u)'
  BY <1>1, <1>3, <1>7, OthersKeep DEF TurnInv, TypeOK
<1>8. DistinctErrors' /\ FailuresHaveHolders'
  BY <1>1, TableKeeps DEF TurnInv, TypeOK
<1>. QED
  BY <1>5, <1>6, <1>7, <1>8 DEF TurnInv

\* Nothing of a turn but its ledger changes when a thread is opened or closed.
LEMMA ThreadActionStep ==
  ASSUME TurnInv, NEW h \in Handles, ThreadAction(h)
  PROVE  TurnInv'
<1>1. UNCHANGED <<runs, at, handle, base, node, graph, error, snapshot, failures, result, trace>>
  BY DEF ThreadAction, callVars
<1>2. LedgerTypeOK'
  BY DEF ThreadAction, LedgerOpen, LedgerClose, Empty, TurnInv, TypeOK, LedgerTypeOK
<1>3. TypeOK'
  BY <1>1, <1>2 DEF TurnInv, TypeOK
<1>4. ASSUME NEW u \in Threads
      PROVE  ThreadInv(u)'
  BY <1>1, OthersKeep DEF TurnInv
<1>5. DistinctErrors' /\ FailuresHaveHolders'
  BY <1>1, TableKeeps DEF TurnInv
<1>. QED
  BY <1>3, <1>4, <1>5 DEF TurnInv

-------------------------------------------------------------------------------
LEMMA TurnInitially == Init => TurnInv
<1>. SUFFICES ASSUME Init PROVE TurnInv
  OBVIOUS
<1>1. TypeOK
  BY InitialTypes, NoWorkflowType, TurnAssumption
     DEF Init, TypeOK, LedgerInit, LedgerTypeOK, Empty, TurnAssumption
<1>2. ASSUME NEW t \in Threads
      PROVE  ThreadInv(t)
  BY DEF Init, ThreadInv, ContextInv, CourseInv, FailureInv, ReportInv
<1>3. DistinctErrors /\ FailuresHaveHolders
  BY DEF Init, DistinctErrors, FailuresHaveHolders
<1>. QED
  BY <1>1, <1>2, <1>3 DEF TurnInv

LEMMA TurnStutters == TurnInv /\ UNCHANGED turnVars => TurnInv'
<1>. SUFFICES ASSUME TurnInv, UNCHANGED turnVars PROVE TurnInv'
  OBVIOUS
<1>1. UNCHANGED <<runs, at, handle, base, node, graph, error, snapshot, failures, result,
                  trace, opened, history>>
  BY DEF turnVars, callVars, ledgerVars
<1>2. TypeOK'
  BY <1>1 DEF TurnInv, TypeOK, LedgerTypeOK
<1>3. ASSUME NEW u \in Threads
      PROVE  ThreadInv(u)'
  BY <1>1, OthersKeep DEF TurnInv
<1>4. DistinctErrors' /\ FailuresHaveHolders'
  BY <1>1, TableKeeps DEF TurnInv
<1>. QED
  BY <1>2, <1>3, <1>4 DEF TurnInv

\* The inductive invariant holds throughout.
LEMMA TurnInvariance == Spec => []TurnInv
<1>1. Init => TurnInv
  BY TurnInitially
<1>2. TurnInv /\ [Next]_turnVars => TurnInv'
  <2>. SUFFICES ASSUME TurnInv, [Next]_turnVars PROVE TurnInv'
    OBVIOUS
  <2>1. ASSUME NEW t \in Threads, NEW h \in Handles, Call(t, h)
        PROVE  TurnInv'
    BY <2>1, CallStep
  <2>2. ASSUME NEW t \in Threads, LoadHistory(t)
        PROVE  TurnInv'
    BY <2>2, LoadHistoryStep
  <2>3. ASSUME NEW t \in Threads, LoadSummary(t)
        PROVE  TurnInv'
    BY <2>3, LoadSummaryStep
  <2>4. ASSUME NEW t \in Threads, Begin(t)
        PROVE  TurnInv'
    BY <2>4, BeginStep
  <2>5. ASSUME NEW t \in Threads, NodeReturns(t)
        PROVE  TurnInv'
    BY <2>5, NodeReturnsStep
  <2>6. ASSUME NEW t \in Threads, NEW e \in Errors, NodeRaises(t, e)
        PROVE  TurnInv'
    BY <2>6, NodeRaisesStep
  <2>7. ASSUME NEW t \in Threads, ConsumeFailure(t)
        PROVE  TurnInv'
    BY <2>7, ConsumeFailureStep
  <2>8. ASSUME NEW t \in Threads, GraphEnds(t)
        PROVE  TurnInv'
    BY <2>8, GraphEndsStep
  <2>9. ASSUME NEW t \in Threads, NEW size \in Sizes, Commit(t, size)
        PROVE  TurnInv'
    BY <2>9, CommitStep
  <2>10. ASSUME NEW h \in Handles, ThreadAction(h)
         PROVE  TurnInv'
    BY <2>10, ThreadActionStep
  <2>11. CASE UNCHANGED turnVars
    BY <2>11, TurnStutters
  <2>. QED
    BY <2>1, <2>2, <2>3, <2>4, <2>5, <2>6, <2>7, <2>8, <2>9, <2>10, <2>11
       DEF Next, TurnStep
<1>. QED
  BY <1>1, <1>2, PTL DEF Spec

\* Every variable stays in its set: no count passes 1, no state leaves the policy.
THEOREM TurnTypes == Spec => []TypeOK
<1>1. TurnInv => TypeOK
  BY DEF TurnInv
<1>. QED
  BY <1>1, TurnInvariance, PTL

\* The compiled graph and the transition policy fit, for every model decision.
THEOREM GraphFits == Spec => []GraphFitsPolicy
<1>1. TurnInv => GraphFitsPolicy
  <2>. SUFFICES ASSUME TurnInv, NEW t \in Threads, at[t] = "running"
                PROVE  IF node[t] = "end" THEN graph[t].current \in {"complete", "refuse"}
                                          ELSE Fits(node[t], graph[t])
    BY DEF GraphFitsPolicy
  <2>1. /\ OnCourse(node[t], graph[t]) /\ graph[t] \in GraphState
        /\ node[t] \in Node \cup {"end"}
    BY DEF TurnInv, TypeOK, ThreadInv, CourseInv
  <2>2. CASE node[t] = "end"
    BY <2>1, <2>2 DEF OnCourse
  <2>3. CASE node[t] # "end"
    BY <2>1, <2>3, OnCourseFits
  <2>. QED
    BY <2>2, <2>3
<1>. QED
  BY <1>1, TurnInvariance, PTL

\* A failed turn is reported under the node that failed, however many fail at once.
THEOREM StagesReported == Spec => []StageIsReported
<1>1. TurnInv => StageIsReported
  BY DEF TurnInv, ThreadInv, ReportInv, Reported, StageIsReported
<1>. QED
  BY <1>1, TurnInvariance, PTL

\* The trace of a failed tool counts its call, although the handler's context is gone.
THEOREM FailuresCounted == Spec => []ToolFailuresAreCounted
<1>1. TurnInv => ToolFailuresAreCounted
  BY DEF TurnInv, ThreadInv, ReportInv, Reported, ToolFailuresAreCounted
<1>. QED
  BY <1>1, TurnInvariance, PTL

\* Neither a context nor the table keeps anything of a call that has returned.
THEOREM FailuresConsumed == Spec => []SnapshotsAreConsumed
<1>1. TurnInv => SnapshotsAreConsumed
  BY DEF TurnInv, ThreadInv, ContextInv, FailuresHaveHolders, SnapshotsAreConsumed
<1>. QED
  BY <1>1, TurnInvariance, PTL

\* What is retained agrees with its trace, and each step of an answer was done once.
THEOREM OutcomesEarned == Spec => []OutcomeIsEarned
<1>1. TurnInv => OutcomeIsEarned
  BY DEF TurnInv, ThreadInv, ReportInv, Earned, OutcomeIsEarned
<1>. QED
  BY <1>1, TurnInvariance, PTL

\* A failed turn is published under its node with its calls.
THEOREM FailuresReported == Spec => []FailuresAreReported
BY StagesReported, FailuresCounted, PTL DEF FailuresAreReported

-------------------------------------------------------------------------------
(* run_turn() implements the abstract turn *)

\* A step of one thread leaves what the others' turns look like.
LEMMA OneTurnMoves ==
  ASSUME TurnInv, NEW t \in Threads, NEW place, NEW h, NEW read, NEW next,
         at' = [at EXCEPT ![t] = place],
         handle' = [handle EXCEPT ![t] = h],
         base' = [base EXCEPT ![t] = read],
         TurnOf(t)' = next
  PROVE  Contract!Becomes(t, next)
<1>1. ASSUME NEW u \in Threads, u # t
      PROVE  TurnOf(u)' = TurnOf(u)
  BY <1>1 DEF TurnOf, TurnInv, TypeOK
<1>. QED
  BY <1>1 DEF Contract!Becomes

\* What the abstract turn of a thread is, place by place.
LEMMA TurnIs ==
  ASSUME NEW t \in Threads
  PROVE  [u \in Threads |-> TurnOf(u)][t] = TurnOf(t)
OBVIOUS

\* A step within the work is a stutter.
LEMMA WorkIsHidden ==
  ASSUME TurnInv, NEW t \in Threads,
         at[t] \in {"summarising", "beginning", "running"},
         \E place \in {"beginning", "running", "raised"} : at' = [at EXCEPT ![t] = place],
         UNCHANGED <<handle, base, ledgerVars>>
  PROVE  UNCHANGED Contract!contractVars
<1>1. ASSUME NEW u \in Threads
      PROVE  TurnOf(u)' = TurnOf(u)
  <2>1. CASE u = t
    BY <2>1 DEF TurnOf, TurnInv, TypeOK
  <2>2. CASE u # t
    BY <2>2 DEF TurnOf, TurnInv, TypeOK
  <2>. QED
    BY <2>1, <2>2
<1>. QED
  BY <1>1 DEF Contract!contractVars, Contract!ledgerVars, ledgerVars

\* A failed turn has left the ledger alone, whether it failed at its load or later.
LEMMA FailingGivesUp ==
  ASSUME TurnInv, NEW t \in Threads,
         \/ at[t] = "loading" /\ handle[t] \notin opened
         \/ at[t] \in {"summarising", "beginning", "raised"},
         at' = [at EXCEPT ![t] = "idle"],
         UNCHANGED <<handle, base, ledgerVars>>
  PROVE  Contract!GiveUp(t)
<1>1. handle' = [handle EXCEPT ![t] = handle[t]] /\ base' = [base EXCEPT ![t] = base[t]]
  BY DEF TurnInv, TypeOK
<1>2. TurnOf(t)' = [phase |-> "idle"]
  BY DEF TurnOf, TurnInv, TypeOK
<1>3. Contract!Becomes(t, Contract!NoTurn)
  BY <1>1, <1>2, OneTurnMoves DEF Contract!NoTurn
<1>4. \/ TurnOf(t).phase = "called" /\ TurnOf(t).handle \notin opened
      \/ TurnOf(t).phase = "working"
  BY DEF TurnOf
<1>. QED
  BY <1>3, <1>4 DEF Contract!GiveUp, Contract!ledgerVars, ledgerVars

LEMMA CallIsCall ==
  ASSUME TurnInv, NEW t \in Threads, NEW h \in Handles, Call(t, h)
  PROVE  Contract!CallTurn(t, h)
<1>1. /\ at[t] = "idle" /\ at' = [at EXCEPT ![t] = "loading"]
      /\ handle' = [handle EXCEPT ![t] = h] /\ UNCHANGED <<base, ledgerVars>>
  BY DEF Call, Move
<1>2. base' = [base EXCEPT ![t] = base[t]]
  BY <1>1 DEF TurnInv, TypeOK
<1>3. TurnOf(t)' = [phase |-> "called", handle |-> h]
  BY <1>1 DEF TurnOf, TurnInv, TypeOK
<1>4. Contract!Becomes(t, Contract!Called(h))
  BY <1>1, <1>2, <1>3, OneTurnMoves DEF Contract!Called
<1>5. TurnOf(t).phase = "idle"
  BY <1>1 DEF TurnOf
<1>. QED
  BY <1>1, <1>4, <1>5 DEF Contract!CallTurn, Contract!ledgerVars, ledgerVars

LEMMA LoadIsRead ==
  ASSUME TurnInv, NEW t \in Threads, LoadHistory(t)
  PROVE  Contract!ReadHistory(t) \/ Contract!GiveUp(t)
<1>1. at[t] = "loading" /\ UNCHANGED <<handle, ledgerVars>>
  BY DEF LoadHistory, Move
<1>2. CASE handle[t] \in opened
  <2>. DEFINE read == history[handle[t]].count
  <2>1. at' = [at EXCEPT ![t] = "summarising"] /\ base' = [base EXCEPT ![t] = read]
    BY <1>2 DEF LoadHistory, Move
  <2>2. handle' = [handle EXCEPT ![t] = handle[t]]
    BY <1>1 DEF TurnInv, TypeOK
  <2>. HIDE DEF read
  <2>3. TurnOf(t)' = [phase |-> "working", handle |-> handle[t], read |-> read]
    BY <1>1, <2>1 DEF TurnOf, TurnInv, TypeOK
  <2>4. Contract!Becomes(t, Contract!Working(handle[t], read))
    BY <2>1, <2>2, <2>3, OneTurnMoves DEF Contract!Working
  <2>5. TurnOf(t).phase = "called" /\ TurnOf(t).handle = handle[t]
    BY <1>1 DEF TurnOf
  <2>. QED
    BY <1>1, <1>2, <2>4, <2>5 DEF Contract!ReadHistory, Contract!ledgerVars, ledgerVars, read
<1>3. CASE handle[t] \notin opened
  <2>1. at' = [at EXCEPT ![t] = "idle"] /\ UNCHANGED <<handle, base, ledgerVars>>
    BY <1>1, <1>3 DEF LoadHistory, Move
  <2>. QED
    BY <1>1, <1>3, <2>1, FailingGivesUp
<1>. QED
  BY <1>2, <1>3

LEMMA EndIsWorked ==
  ASSUME TurnInv, NEW t \in Threads, GraphEnds(t)
  PROVE  Contract!FinishWork(t)
<1>1. /\ at[t] = "running" /\ at' = [at EXCEPT ![t] = "committing"]
      /\ UNCHANGED <<handle, base, ledgerVars>>
  BY DEF GraphEnds, Move, callVars
<1>2. handle' = [handle EXCEPT ![t] = handle[t]] /\ base' = [base EXCEPT ![t] = base[t]]
  BY <1>1 DEF TurnInv, TypeOK
<1>3. TurnOf(t)' = [phase |-> "worked", handle |-> handle[t], read |-> base[t]]
  BY <1>1 DEF TurnOf, TurnInv, TypeOK
<1>4. Contract!Becomes(t, Contract!Worked(handle[t], base[t]))
  BY <1>1, <1>2, <1>3, OneTurnMoves DEF Contract!Worked
<1>5. /\ TurnOf(t).phase = "working"
      /\ TurnOf(t).handle = handle[t] /\ TurnOf(t).read = base[t]
  BY <1>1 DEF TurnOf
<1>. QED
  BY <1>1, <1>4, <1>5 DEF Contract!FinishWork, Contract!ledgerVars, ledgerVars

LEMMA CommitAsks ==
  ASSUME TurnInv, NEW t \in Threads, NEW size \in Sizes, Commit(t, size)
  PROVE  Contract!AskLedger(t, size)
<1>1. /\ at[t] = "committing" /\ at' = [at EXCEPT ![t] = "idle"]
      /\ UNCHANGED <<handle, base>>
  BY DEF Commit, Move, callVars
<1>2. handle' = [handle EXCEPT ![t] = handle[t]] /\ base' = [base EXCEPT ![t] = base[t]]
  BY <1>1 DEF TurnInv, TypeOK
<1>3. TurnOf(t)' = [phase |-> "idle"]
  BY <1>1 DEF TurnOf, TurnInv, TypeOK
<1>4. Contract!Becomes(t, Contract!NoTurn)
  BY <1>1, <1>2, <1>3, OneTurnMoves DEF Contract!NoTurn
<1>5. /\ TurnOf(t).phase = "worked"
      /\ TurnOf(t).handle = handle[t] /\ TurnOf(t).read = base[t]
  BY <1>1 DEF TurnOf
<1>6. IF Contract!Acceptable(handle[t], base[t] + 1, size)
        THEN Contract!AppendTurn(handle[t], base[t] + 1, size)
        ELSE UNCHANGED Contract!ledgerVars
  BY DEF Commit, Acceptable, AppendTurn, ledgerVars,
         Contract!Acceptable, Contract!AppendTurn, Contract!ledgerVars
<1>. QED
  BY <1>4, <1>5, <1>6 DEF Contract!AskLedger

LEMMA ThreadsMoveThreads ==
  ASSUME NEW h \in Handles, ThreadAction(h)
  PROVE  Contract!ThreadsMove
<1>1. UNCHANGED <<at, handle, base>>
  BY DEF ThreadAction, callVars
<1>2. [t \in Threads |-> TurnOf(t)]' = [t \in Threads |-> TurnOf(t)]
  BY <1>1 DEF TurnOf
<1>3. Contract!LedgerOpen(h) \/ Contract!LedgerClose(h)
  BY DEF ThreadAction, LedgerOpen, LedgerClose, Empty,
         Contract!LedgerOpen, Contract!LedgerClose, Contract!Empty
<1>. QED
  BY <1>2, <1>3 DEF Contract!ThreadsMove

LEMMA TurnImplements ==
  ASSUME TurnInv, [Next]_turnVars
  PROVE  [Contract!ContractNext]_(Contract!contractVars)
<1>1. ASSUME NEW t \in Threads, NEW h \in Handles, Call(t, h)
      PROVE  Contract!WorkerStep(t)
  BY <1>1, CallIsCall DEF Contract!WorkerStep
<1>2. ASSUME NEW t \in Threads, LoadHistory(t)
      PROVE  Contract!WorkerStep(t)
  BY <1>2, LoadIsRead DEF Contract!WorkerStep
<1>3. ASSUME NEW t \in Threads, LoadSummary(t)
      PROVE  Contract!WorkerStep(t) \/ UNCHANGED Contract!contractVars
  <2>1. at[t] = "summarising" /\ UNCHANGED <<handle, base, ledgerVars>>
    BY <1>3 DEF LoadSummary, Move, callVars
  <2>2. CASE handle[t] \in opened
    BY <1>3, <2>1, <2>2, WorkIsHidden DEF LoadSummary, Move
  <2>3. CASE handle[t] \notin opened
    BY <1>3, <2>1, <2>3, FailingGivesUp DEF LoadSummary, Move, Contract!WorkerStep
  <2>. QED
    BY <2>2, <2>3
<1>4. ASSUME NEW t \in Threads, Begin(t)
      PROVE  Contract!WorkerStep(t) \/ UNCHANGED Contract!contractVars
  <2>1. at[t] = "beginning" /\ UNCHANGED <<handle, base, ledgerVars>>
    BY <1>4 DEF Begin, Move
  <2>2. CASE snapshot[t] = NoState
    BY <1>4, <2>1, <2>2, WorkIsHidden DEF Begin, Move
  <2>3. CASE snapshot[t] # NoState
    BY <1>4, <2>1, <2>3, FailingGivesUp DEF Begin, Move, Contract!WorkerStep
  <2>. QED
    BY <2>2, <2>3
<1>5. ASSUME NEW t \in Threads, NodeReturns(t)
      PROVE  UNCHANGED Contract!contractVars
  <2>1. at[t] = "running" /\ UNCHANGED <<at, handle, base, ledgerVars>>
    BY <1>5 DEF NodeReturns
  <2>2. at' = [at EXCEPT ![t] = "running"]
    BY <2>1 DEF TurnInv, TypeOK
  <2>. QED
    BY <2>1, <2>2, WorkIsHidden
<1>6. ASSUME NEW t \in Threads, NEW e \in Errors, NodeRaises(t, e)
      PROVE  UNCHANGED Contract!contractVars
  BY <1>6, WorkIsHidden DEF NodeRaises, Move
<1>7. ASSUME NEW t \in Threads, ConsumeFailure(t)
      PROVE  Contract!WorkerStep(t)
  BY <1>7, FailingGivesUp DEF ConsumeFailure, Move, Contract!WorkerStep
<1>8. ASSUME NEW t \in Threads, GraphEnds(t)
      PROVE  Contract!WorkerStep(t)
  BY <1>8, EndIsWorked DEF Contract!WorkerStep
<1>9. ASSUME NEW t \in Threads, NEW size \in Sizes, Commit(t, size)
      PROVE  Contract!WorkerStep(t)
  BY <1>9, CommitAsks DEF Contract!WorkerStep
<1>10. ASSUME NEW h \in Handles, ThreadAction(h)
       PROVE  Contract!ThreadsMove
  BY <1>10, ThreadsMoveThreads
<1>11. CASE UNCHANGED turnVars
  BY <1>11 DEF turnVars, callVars, ledgerVars, TurnOf, Contract!contractVars, Contract!ledgerVars
<1>. QED
  BY <1>1, <1>2, <1>3, <1>4, <1>5, <1>6, <1>7, <1>8, <1>9, <1>10, <1>11
     DEF Next, TurnStep, Contract!ContractNext

\* run_turn() of the bounded dynamic runtime implements the abstract turn (TurnsRefined):
\* nine nodes, failures and other threads notwithstanding, the ledger is asked once.
THEOREM BoundedTurnRefines == Spec => TurnsRefined
<1>1. Init => Contract!ContractInit
  BY DEF Init, LedgerInit, Empty, TurnOf,
         Contract!ContractInit, Contract!LedgerInit, Contract!Empty, Contract!NoTurn
<1>2. TurnInv /\ [Next]_turnVars => [Contract!ContractNext]_(Contract!contractVars)
  BY TurnImplements
<1>. QED
  BY <1>1, <1>2, TurnInvariance, PTL DEF Spec, TurnsRefined, Contract!ContractSpec

-------------------------------------------------------------------------------
(* The ledger's limits, without a coordinator in front of it               *)

\* What a step may do to the ledger: a thread is opened or closed, or a turn that the
\* ledger accepts is appended.
LEMMA LedgerMoves ==
  ASSUME TurnInv, [Next]_turnVars
  PROVE  \/ UNCHANGED <<opened, history>>
         \/ \E h \in Handles : LedgerOpen(h) \/ LedgerClose(h)
         \/ \E h \in Handles, n \in Nat, size \in Sizes : AppendTurn(h, n, size)
<1>1. ASSUME NEW t \in Threads,
             \/ \E h \in Handles : Call(t, h)
             \/ \E e \in Errors : NodeRaises(t, e)
             \/ LoadHistory(t) \/ LoadSummary(t) \/ Begin(t) \/ NodeReturns(t) \/ ConsumeFailure(t) \/ GraphEnds(t)
      PROVE  UNCHANGED <<opened, history>>
  BY <1>1 DEF Call, NodeRaises, LoadHistory, LoadSummary, Begin, NodeReturns, ConsumeFailure, GraphEnds, ledgerVars
<1>2. ASSUME NEW t \in Threads, NEW size \in Sizes, Commit(t, size)
      PROVE  \/ UNCHANGED <<opened, history>>
             \/ \E h \in Handles, n \in Nat : AppendTurn(h, n, size)
  <2>1. UNCHANGED ledgerVars \/ AppendTurn(handle[t], base[t] + 1, size)
    BY <1>2 DEF Commit
  <2>2. base[t] + 1 \in Nat
    BY DEF TurnInv, TypeOK
  <2>3. AppendTurn(handle[t], base[t] + 1, size) => handle[t] \in Handles
    BY DEF AppendTurn, Acceptable, TurnInv, TypeOK, LedgerTypeOK
  <2>. QED
    BY <2>1, <2>2, <2>3 DEF ledgerVars
<1>3. ASSUME NEW h \in Handles, ThreadAction(h)
      PROVE  LedgerOpen(h) \/ LedgerClose(h)
  BY <1>3 DEF ThreadAction
<1>4. CASE UNCHANGED turnVars
  BY <1>4 DEF turnVars, ledgerVars
<1>. QED
  BY <1>1, <1>2, <1>3, <1>4 DEF Next, TurnStep

LEMMA LimitsKept ==
  ASSUME TurnInv, WithinLimits, [Next]_turnVars
  PROVE  WithinLimits'
<1>. USE LedgerAssumption DEF LedgerAssumption, Empty
<1>1. opened \subseteq Handles /\ history \in [Handles -> [count: Nat, bytes: Nat]]
  BY DEF TurnInv, TypeOK, LedgerTypeOK
<1>2. CASE UNCHANGED <<opened, history>>
  BY <1>2 DEF WithinLimits
<1>3. ASSUME NEW h \in Handles, LedgerOpen(h)
      PROVE  WithinLimits'
  BY <1>1, <1>3 DEF LedgerOpen, WithinLimits
<1>4. ASSUME NEW h \in Handles, LedgerClose(h)
      PROVE  WithinLimits'
  BY <1>1, <1>4 DEF LedgerClose, WithinLimits
<1>5. ASSUME NEW h \in Handles, NEW n \in Nat, NEW size \in Sizes, AppendTurn(h, n, size)
      PROVE  WithinLimits'
  <2>1. /\ h \in opened /\ opened' = opened
        /\ history[h].count + 1 <= MaxTurns /\ history[h].bytes + size <= MaxBytes
        /\ history' = [history EXCEPT ![h] = [count |-> history[h].count + 1,
                                              bytes |-> history[h].bytes + size]]
    BY <1>5 DEF AppendTurn, Acceptable
  <2>2. ASSUME NEW g \in opened
        PROVE  history'[g].count <= MaxTurns /\ history'[g].bytes <= MaxBytes
    BY <1>1, <2>1 DEF WithinLimits
  <2>3. ASSUME NEW g \in Handles \ opened
        PROVE  history'[g] = Empty
    BY <1>1, <2>1 DEF WithinLimits
  <2>. QED
    BY <2>1, <2>2, <2>3 DEF WithinLimits
<1>. QED
  BY <1>2, <1>3, <1>4, <1>5, LedgerMoves

\* The bounded runtime called without a coordinator keeps the ledger's limits
\* (WithinLimits), however its threads, failures and closings interleave.
THEOREM BoundedTurnKeepsLimits == Spec => []WithinLimits
<1>1. Init => WithinLimits
  BY LedgerAssumption DEF Init, LedgerInit, WithinLimits, Empty, LedgerAssumption
<1>2. TurnInv /\ WithinLimits /\ [Next]_turnVars => WithinLimits'
  BY LimitsKept
<1>. QED
  BY <1>1, <1>2, TurnInvariance, PTL DEF Spec

===============================================================================
