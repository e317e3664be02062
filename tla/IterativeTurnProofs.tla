-------------------------- MODULE IterativeTurnProofs --------------------------
(***************************************************************************)
(* Proofs about run_turn() of the iterative runtime, for any number of     *)
(* threads, exceptions, conversations and calls and any depths the code's  *)
(* literals allow.  As for the bounded turn the heart is OnCourse: what    *)
(* the nodes before a node have left in the graph's state.  Here that      *)
(* depends on one bit of the past, whether evidence was inspected (Wide),  *)
(* and it carries what the answer may rest on (Evidence).                  *)
(***************************************************************************)
EXTENDS IterativeTurn, FiniteSetTheorems, TLAPS

Asked == {"validate_request", "retrieve_candidate_pool", "prepare_initial_context",
          "select_initial_action"}
Asking(wide) == Asked \cup (IF wide THEN {"inspect_alternate_evidence", "select_final_action"}
                                    ELSE {})
Answering == {"compose_grounded_answer", "verify_grounded_answer", "observe_diagnostics"}

Wide(s) == "inspect_alternate_evidence" \in s.done

\* The nodes that have run when a node is next.
Before(n, wide) ==
  CASE n = "validate_request"           -> {}
    [] n = "retrieve_candidate_pool"    -> {"validate_request"}
    [] n = "prepare_initial_context"    -> {"validate_request", "retrieve_candidate_pool"}
    [] n = "select_initial_action"      -> Asked \ {"select_initial_action"}
    [] n = "inspect_alternate_evidence" -> Asked
    [] n = "select_final_action"        -> Asked \cup {"inspect_alternate_evidence"}
    [] n = "verify_grounded_answer"     -> Asking(wide) \cup {"compose_grounded_answer"}
    [] n = "observe_diagnostics"        -> Asking(wide) \cup (Answering \ {"observe_diagnostics"})
    [] n = "finalize_verified_response" -> Asking(wide) \cup Answering
    [] OTHER                            -> Asking(wide)

\* The agent state in which a node is entered.
Phase(wide) == IF wide THEN "final" ELSE "initial"
Entered(n, wide) ==
  CASE n = "validate_request"           -> Plain("received")
    [] n = "retrieve_candidate_pool"    -> Plain("validated")
    [] n = "prepare_initial_context"    -> Plain("retrieved")
    [] n = "select_initial_action"      -> Plain("prepared")
    [] n = "inspect_alternate_evidence" -> <<"initial", "inspect">>
    [] n = "select_final_action"        -> Plain("inspected")
    [] n = "compose_grounded_answer"    -> <<Phase(wide), "compose">>
    [] n = "verify_grounded_answer"     -> Plain("answered")
    [] n = "observe_diagnostics"        -> Plain("verified")
    [] n = "finalize_verified_response" -> Plain("observed")
    [] n = "finalize_clarification"     -> <<Phase(wide), "clarify">>
    [] OTHER                            -> <<Phase(wide), "refuse">>

\* The last decision when a node is entered, and how many there are.
Decided(n) ==
  CASE n \in {"inspect_alternate_evidence", "select_final_action"}  -> "inspect"
    [] n \in Answering \cup {"finalize_verified_response"}          -> "compose"
    [] n = "finalize_clarification"                                 -> "clarify"
    [] n = "finalize_refusal"                                       -> "refuse"
    [] OTHER                                                        -> "none"
Asks(done) == IF "select_final_action" \in done THEN 2
              ELSE IF "select_initial_action" \in done THEN 1 ELSE 0

\* The answer context is the primary context and the alternates, all of it within
\* what the verifier looks up; the last decision was shown it, unless an
\* inspection came after.
Evidence(s) ==
  /\ s.composition = s.initial \cup s.alternate
  /\ s.composition \subseteq s.verification
  /\ ~Wide(s) => s.alternate = {}
  /\ "prepare_initial_context" \in s.done => s.verification = {r \in s.pool : r <= VerificationDepth}
  /\ "select_initial_action" \in s.done /\ (Wide(s) => "select_final_action" \in s.done) =>
       s.decisions[Len(s.decisions)].shown = s.composition

Ended(s) ==
  /\ s.current = Plain(s.terminal)
  /\ \/ /\ LastDecision(s) = "compose" /\ s.terminal \in {"complete", "refuse"}
        /\ s.done = Asking(Wide(s)) \cup Answering \cup {"finalize_verified_response"}
     \/ /\ LastDecision(s) = "clarify" /\ s.terminal = "clarify"
        /\ s.done = Asking(Wide(s)) \cup {"finalize_clarification"}
     \/ /\ LastDecision(s) = "refuse" /\ s.terminal = "refuse"
        /\ s.done = Asking(Wide(s)) \cup {"finalize_refusal"}

Underway(n, s) ==
  /\ s.current = Entered(n, Wide(s))
  /\ s.done = Before(n, Wide(s))
  /\ LastDecision(s) = Decided(n)
  /\ n = "finalize_verified_response" => s.terminal \in {"complete", "refuse"}

OnCourse(n, s) ==
  /\ Len(s.decisions) = Asks(s.done)
  /\ Evidence(s)
  /\ IF n = "end" THEN Ended(s) ELSE Underway(n, s)

-------------------------------------------------------------------------------
AgentState == {Plain("none"), Plain("received")} \cup {p[3] : p \in Policy}
Rank == 1 .. PoolDepth
Stage == Node \cup {"none", "load_thread_state", "commit_thread_state"}
Terminal == {"none", "complete", "clarify", "refuse"}

GraphState ==
  [current: AgentState, done: SUBSET Node, decisions: Seq([action: InitialActions, shown: SUBSET Rank]),
   pool: SUBSET Rank, initial: SUBSET Rank, alternate: SUBSET Rank, composition: SUBSET Rank,
   verification: SUBSET Rank, terminal: Terminal, stage: Stage]

Trace ==
  [terminal: {a[1] : a \in AgentState} \cup Terminal \cup {"failed"}, stage: Stage, limit: BOOLEAN,
   actions: Seq(InitialActions), calls: [Tool -> 0 .. 1], evidence: Nat \X Nat \X Nat]

TypeOK ==
  /\ runs \in Nat
  /\ at \in [Threads -> {"idle", "loading", "summarising", "running", "raised", "committing"}]
  /\ handle \in [Threads -> Handles \cup {NoHandle}]
  /\ base \in [Threads -> Nat]
  /\ node \in [Threads -> Node \cup {"end"}]
  /\ graph \in [Threads -> GraphState]
  /\ snapshot \in [Threads -> GraphState]
  /\ error \in [Threads -> Errors \cup {NoError}]
  /\ failures \in [Errors -> GraphState]
  /\ result \in [Threads -> {"none", "unloaded", "raised", "rejected"} \cup Terminal]
  /\ trace \in [Threads -> Trace]
  /\ LedgerTypeOK

\* The caller's context, between calls and during one.
ContextInv(t) ==
  /\ at[t] = "running" => snapshot[t] = InitialState
  /\ at[t] \in {"loading", "summarising"} => graph[t] = InitialState
  /\ at[t] # "idle" => result[t] = "none"

\* The graph, while there is one, and its evidence for as long as it is kept.
Shown(s) ==
  "compose_grounded_answer" \in s.done =>
    /\ s.composition = Last(s.decisions).shown
    /\ s.composition \subseteq s.verification
    /\ Len(s.decisions) = 1 + Count("inspect_alternate_evidence", s)

CourseInv(t) ==
  /\ at[t] \in {"running", "raised", "committing"} => OnCourse(node[t], graph[t])
  /\ at[t] = "committing" => node[t] = "end"
  /\ Shown(graph[t]) /\ graph[t].stage = "none"

\* The table, while the exception is on its way.
FailureInv(t) ==
  at[t] = "raised" => /\ error[t] \in Errors
                      /\ failures[error[t]] = [InitialState EXCEPT !.stage = node[t]]

\* What a committed turn publishes: the property, for one trace.
Follows(tr, how) ==
  LET last == tr.actions[Len(tr.actions)]
      composed == tr.calls["compose_grounded_answer"]
  IN /\ tr.terminal = how
     /\ tr.stage = "none"
     /\ tr.calls["retrieve_candidate_pool"] = 1
     /\ composed = (IF last = "compose" THEN 1 ELSE 0)
     /\ tr.calls["verify_grounded_answer"] = composed
     /\ tr.calls["observe_diagnostics"] = composed
     /\ Len(tr.actions) = 1 + tr.calls["inspect_alternate_evidence"]
     /\ how \in (CASE last = "compose" -> {"complete", "refuse"} [] OTHER -> {last})

ReportInv(t) ==
  /\ result[t] = "raised" => trace[t].stage = node[t]
  /\ result[t] \in {"complete", "refuse", "clarify"} => Follows(trace[t], result[t])

ThreadInv(t) == ContextInv(t) /\ CourseInv(t) /\ FailureInv(t) /\ ReportInv(t)

DistinctErrors ==
  \A t, u \in Threads :
    at[t] = "raised" /\ at[u] = "raised" /\ error[t] = error[u] => t = u

FailuresHaveHolders ==
  \A e \in Errors : failures[e] # NoState => \E t \in Threads : at[t] = "raised" /\ error[t] = e

TurnInv == TypeOK /\ (\A t \in Threads : ThreadInv(t)) /\ DistinctErrors /\ FailuresHaveHolders

-------------------------------------------------------------------------------
(* The graph, without the threads *)

Handed(n, w, next) == [w EXCEPT !.current = next, !.done = @ \cup {n}, !.stage = "none"]

LEMMA HandedIs ==
  ASSUME NEW n \in Node, NEW w \in GraphState, NEW next \in AgentState
  PROVE  /\ Handed(n, w, next) \in GraphState
         /\ Handed(n, w, next).current = next
         /\ Handed(n, w, next).stage = "none"
         /\ Handed(n, w, next).done = w.done \cup {n}
         /\ Handed(n, w, next).decisions = w.decisions
         /\ Handed(n, w, next).pool = w.pool
         /\ Handed(n, w, next).initial = w.initial
         /\ Handed(n, w, next).alternate = w.alternate
         /\ Handed(n, w, next).composition = w.composition
         /\ Handed(n, w, next).verification = w.verification
         /\ Handed(n, w, next).terminal = w.terminal
BY DEF Handed, GraphState, Stage

\* Allowed() is the policy's third column at the state and the action.
LEMMA AllowedIsPolicy ==
  ASSUME NEW n, NEW s, NEW next
  PROVE  next \in Allowed(n, s) <=> <<s.current, Action(n, s), next>> \in Policy
<1>1. \A q \in Policy : q = <<q[1], q[2], q[3]>>
  BY DEF Policy
<1>2. ASSUME next \in Allowed(n, s)
      PROVE  <<s.current, Action(n, s), next>> \in Policy
  BY <1>1, <1>2 DEF Allowed
<1>3. ASSUME <<s.current, Action(n, s), next>> \in Policy
      PROVE  next \in Allowed(n, s)
  <2>. DEFINE q == <<s.current, Action(n, s), next>>
  <2>1. q[1] = s.current /\ q[2] = Action(n, s) /\ q[3] = next
    OBVIOUS
  <2>2. q \in {r \in Policy : r[1] = s.current /\ r[2] = Action(n, s)}
    BY <1>3, <2>1
  <2>. HIDE DEF q
  <2>. QED
    BY <2>1, <2>2 DEF Allowed
<1>. QED
  BY <1>2, <1>3

LEMMA AllowedTypes ==
  ASSUME NEW n, NEW s, NEW next \in Allowed(n, s)
  PROVE  next \in AgentState
BY DEF Allowed, AgentState

LEMMA InitialTypes ==
  /\ InitialState \in GraphState /\ NoState \in GraphState
  /\ InitialState # NoState
<1>1. /\ InitialState \in GraphState
      /\ InitialState.current = Plain("received")
  BY DEF InitialState, GraphState, AgentState, Stage, Terminal
<1>2. Plain("none") \in AgentState /\ Plain("received") # Plain("none")
  BY DEF AgentState, Plain
<1>. QED
  BY <1>1, <1>2 DEF NoState, GraphState

LEMMA EdgeType == \A n, d : Edge(n, d) \in Node \cup {"end"}
BY DEF Edge, Routed, Node, Tool, Select, Finalize

\* What the work of each node leaves alone and what it makes of the rest.
Selects(n, s, w) ==
  IF n \in Select
    THEN \E a \in InitialActions :
           /\ n = "select_final_action" => a \in FinalActions
           /\ w.decisions = Append(s.decisions, [action |-> a, shown |-> s.initial \cup s.alternate])
    ELSE w.decisions = s.decisions
Gathers(n, s, w) ==
  /\ n # "retrieve_candidate_pool" => w.pool = s.pool
  /\ IF n = "prepare_initial_context"
       THEN /\ w.verification = {r \in s.pool : r <= VerificationDepth}
            /\ w.initial \subseteq {r \in s.pool : r <= PrefixDepth}
       ELSE w.verification = s.verification /\ w.initial = s.initial
  /\ IF n = "inspect_alternate_evidence"
       THEN w.alternate = 1 .. AlternateDepth /\ w.alternate \subseteq s.pool
       ELSE w.alternate = s.alternate
  /\ CASE n = "prepare_initial_context"    -> w.composition = w.initial
       [] n = "inspect_alternate_evidence" -> w.composition = w.initial \cup w.alternate
       [] OTHER                            -> w.composition = s.composition
Concludes(n, s, w) ==
  CASE n = "observe_diagnostics" -> w.terminal \in {"complete", "refuse"}
    [] n \in {"finalize_clarification", "finalize_refusal"} -> w.terminal = Finalized(n)
    [] OTHER -> w.terminal = s.terminal

LEMMA WorkedIs ==
  ASSUME NEW n \in Node, NEW s \in GraphState, NEW w \in Worked(n, s)
  PROVE  /\ w \in GraphState
         /\ w.current = s.current /\ w.done = s.done
         /\ Selects(n, s, w) /\ Gathers(n, s, w) /\ Concludes(n, s, w)
<1>. USE DEF Worked, Selects, Gathers, Concludes
<1>1. CASE n = "retrieve_candidate_pool"
  <2>1. PICK k \in 0 .. PoolDepth : w = [s EXCEPT !.pool = 1 .. k]
    BY <1>1
  <2>2. 1 .. k \subseteq Rank
    BY IterativeAssumption DEF Rank, IterativeAssumption
  <2>. QED
    BY <1>1, <2>1, <2>2 DEF GraphState, Select
<1>2. CASE n = "prepare_initial_context"
  <2>1. PICK p \in SUBSET {r \in s.pool : r <= PrefixDepth} :
          w = [s EXCEPT !.initial = p, !.composition = p,
                        !.verification = {r \in s.pool : r <= VerificationDepth}]
    BY <1>2 DEF Prepare
  <2>2. p \subseteq Rank /\ {r \in s.pool : r <= VerificationDepth} \subseteq Rank
    BY DEF GraphState
  <2>. QED
    BY <1>2, <2>1, <2>2 DEF GraphState, Select
<1>3. ASSUME n \in Select, NEW acts \in SUBSET InitialActions, w \in Choose(s, acts),
             n = "select_final_action" => acts = FinalActions
      PROVE  /\ w \in GraphState
             /\ w.current = s.current /\ w.done = s.done
             /\ Selects(n, s, w) /\ Gathers(n, s, w) /\ Concludes(n, s, w)
  <2>1. PICK a \in acts : w = [s EXCEPT !.decisions =
                                 Append(@, [action |-> a, shown |-> s.initial \cup s.alternate])]
    BY <1>3 DEF Choose
  <2>. DEFINE d == [action |-> a, shown |-> s.initial \cup s.alternate]
  <2>2. d \in [action: InitialActions, shown: SUBSET Rank]
    BY DEF GraphState
  <2>. HIDE DEF d
  <2>3. Append(s.decisions, d) \in Seq([action: InitialActions, shown: SUBSET Rank])
    BY <2>2 DEF GraphState
  <2>4. w = [s EXCEPT !.decisions = Append(s.decisions, d)]
    BY <2>1 DEF d
  <2>5. /\ w \in GraphState /\ w.decisions = Append(s.decisions, d)
        /\ w.current = s.current /\ w.done = s.done /\ w.pool = s.pool /\ w.initial = s.initial
        /\ w.alternate = s.alternate /\ w.composition = s.composition
        /\ w.verification = s.verification /\ w.terminal = s.terminal
    BY <2>3, <2>4 DEF GraphState
  <2>6. Selects(n, s, w)
    BY <1>3, <2>5 DEF d
  <2>. QED
    BY <1>3, <2>5, <2>6 DEF Select
<1>4. CASE n = "select_initial_action"
  BY <1>3, <1>4 DEF Select
<1>5. CASE n = "select_final_action"
  BY <1>3, <1>5 DEF Select, FinalActions
<1>6. CASE n = "inspect_alternate_evidence"
  <2>1. /\ w = [s EXCEPT !.alternate = 1 .. AlternateDepth,
                         !.composition = s.initial \cup 1 .. AlternateDepth]
        /\ 1 .. AlternateDepth \subseteq s.pool
    BY <1>6 DEF Inspect
  <2>2. 1 .. AlternateDepth \subseteq Rank /\ s.initial \cup 1 .. AlternateDepth \subseteq Rank
    BY <2>1 DEF GraphState
  <2>. QED
    BY <1>6, <2>1, <2>2 DEF GraphState, Select
<1>7. CASE n = "observe_diagnostics"
  BY <1>7 DEF GraphState, Terminal, Select
<1>8. CASE n \in {"finalize_clarification", "finalize_refusal"}
  BY <1>8 DEF GraphState, Terminal, Select, Finalized
<1>9. CASE n \in {"validate_request", "compose_grounded_answer", "verify_grounded_answer",
                  "finalize_verified_response"}
  BY <1>9 DEF Select
<1>. QED
  BY <1>1, <1>2, <1>4, <1>5, <1>6, <1>7, <1>8, <1>9 DEF Node, Tool, Select, Finalize

LEMMA DecisionIs ==
  ASSUME NEW n \in Node, NEW s \in GraphState, NEW w \in GraphState, Selects(n, s, w)
  PROVE  IF n \in Select
           THEN /\ LastDecision(w) \in InitialActions
                /\ n = "select_final_action" => LastDecision(w) \in FinalActions
                /\ Len(w.decisions) = Len(s.decisions) + 1
                /\ w.decisions[Len(w.decisions)].shown = s.initial \cup s.alternate
           ELSE w.decisions = s.decisions /\ LastDecision(w) = LastDecision(s)
<1>1. CASE n \in Select
  <2>1. PICK a \in InitialActions :
          /\ n = "select_final_action" => a \in FinalActions
          /\ w.decisions = Append(s.decisions, [action |-> a, shown |-> s.initial \cup s.alternate])
    BY <1>1 DEF Selects
  <2>. DEFINE d == [action |-> a, shown |-> s.initial \cup s.alternate]
  <2>2. d.action = a /\ d.shown = s.initial \cup s.alternate
    OBVIOUS
  <2>3. s.decisions \in Seq([action: InitialActions, shown: SUBSET Rank])
        /\ d \in [action: InitialActions, shown: SUBSET Rank]
    BY DEF GraphState
  <2>. HIDE DEF d
  <2>4. /\ Len(Append(s.decisions, d)) = Len(s.decisions) + 1
        /\ Append(s.decisions, d)[Len(s.decisions) + 1] = d
        /\ Append(s.decisions, d) # <<>>
    BY <2>3
  <2>5. w.decisions = Append(s.decisions, d)
    BY <2>1 DEF d
  <2>6. LastDecision(w) = a
    BY <2>2, <2>4, <2>5 DEF LastDecision, Last
  <2>. QED
    BY <1>1, <2>1, <2>2, <2>4, <2>5, <2>6
<1>2. CASE n \notin Select
  BY <1>2 DEF Selects, LastDecision
<1>. QED
  BY <1>1, <1>2

\* The evidence after a node, its decision shown what the answer would rest on.
LEMMA EvidenceAdvances ==
  ASSUME NEW n \in Node, NEW s \in GraphState, OnCourse(n, s),
         NEW w \in Worked(n, s), NEW next \in AgentState
  PROVE  Evidence(Handed(n, w, next))
<1>. DEFINE h == Handed(n, w, next)
<1>. SUFFICES Evidence(h)
  OBVIOUS
<1>1. /\ w \in GraphState /\ w.done = s.done
      /\ Selects(n, s, w) /\ Gathers(n, s, w)
  BY WorkedIs
<1>2. /\ h \in GraphState /\ h.done = s.done \cup {n}
      /\ h.decisions = w.decisions /\ h.pool = w.pool /\ h.initial = w.initial
      /\ h.alternate = w.alternate /\ h.composition = w.composition
      /\ h.verification = w.verification
  BY <1>1, HandedIs
<1>. HIDE DEF h
<1>3. Evidence(s) /\ s.done = Before(n, Wide(s))
  BY DEF OnCourse, Underway, Node, Tool, Select, Finalize
<1>4. \A r \in s.pool : r \in Nat
  BY DEF GraphState, Rank
<1>5. Wide(h) <=> Wide(s) \/ n = "inspect_alternate_evidence"
  BY <1>2 DEF Wide
<1>6. CASE n = "prepare_initial_context"
  <2>1. ~Wide(s) /\ n # "inspect_alternate_evidence" /\ "select_initial_action" \notin h.done
    BY <1>2, <1>3, <1>6 DEF Before, Wide
  <2>2. h.alternate = {} /\ h.composition = h.initial
        /\ h.verification = {r \in h.pool : r <= VerificationDepth}
        /\ h.initial \subseteq {r \in h.pool : r <= PrefixDepth}
    BY <1>1, <1>2, <1>3, <1>6, <2>1 DEF Gathers, Evidence
  <2>3. h.initial \subseteq h.verification
    BY <2>2, <1>1, <1>2, <1>4, <1>6, IterativeAssumption DEF Gathers, IterativeAssumption
  <2>. QED
    BY <1>5, <1>6, <2>1, <2>2, <2>3 DEF Evidence
<1>7. CASE n = "inspect_alternate_evidence"
  <2>1. /\ ~Wide(s) /\ "prepare_initial_context" \in s.done /\ "select_final_action" \notin h.done
        /\ Wide(h)
    BY <1>2, <1>3, <1>5, <1>7 DEF Before, Wide, Asked
  <2>2. /\ h.alternate = 1 .. AlternateDepth /\ h.alternate \subseteq h.pool /\ h.pool = s.pool
        /\ h.composition = h.initial \cup h.alternate
        /\ h.verification = s.verification /\ h.initial = s.initial
    BY <1>1, <1>2, <1>7 DEF Gathers
  <2>3. s.initial \subseteq s.verification /\ s.verification = {r \in s.pool : r <= VerificationDepth}
    BY <1>3, <2>1 DEF Evidence
  <2>4. h.alternate \subseteq h.verification
    BY <2>2, <2>3, <1>4, IterativeAssumption DEF IterativeAssumption
  <2>. QED
    BY <2>1, <2>2, <2>3, <2>4 DEF Evidence
<1>8. CASE n \in Select
  <2>1. w.decisions[Len(w.decisions)].shown = s.initial \cup s.alternate
    BY <1>1, <1>8, DecisionIs
  <2>2. /\ h.composition = s.composition /\ h.initial = s.initial /\ h.alternate = s.alternate
        /\ h.verification = s.verification /\ h.pool = s.pool
    BY <1>1, <1>2, <1>8 DEF Gathers, Select
  <2>3. Wide(h) <=> Wide(s)
    BY <1>5, <1>8 DEF Select
  <2>. QED
    BY <1>2, <1>3, <1>8, <2>1, <2>2, <2>3 DEF Evidence, Select
<1>9. CASE n \notin Select \cup {"prepare_initial_context", "inspect_alternate_evidence"}
  <2>1. /\ h.composition = s.composition /\ h.initial = s.initial /\ h.alternate = s.alternate
        /\ h.verification = s.verification /\ (n # "retrieve_candidate_pool" => h.pool = s.pool)
        /\ h.decisions = s.decisions
    BY <1>1, <1>2, <1>9 DEF Gathers, Selects
  <2>2. (Wide(h) <=> Wide(s))
        /\ ("prepare_initial_context" \in h.done <=> "prepare_initial_context" \in s.done)
        /\ ("select_initial_action" \in h.done <=> "select_initial_action" \in s.done)
        /\ ("select_final_action" \in h.done <=> "select_final_action" \in s.done)
    BY <1>2, <1>5, <1>9 DEF Select
  <2>3. n = "retrieve_candidate_pool" => "prepare_initial_context" \notin s.done
    BY <1>3 DEF Before
  <2>. QED
    BY <1>3, <2>1, <2>2, <2>3 DEF Evidence
<1>. QED
  BY <1>6, <1>7, <1>8, <1>9

\* The policy at the state a node is entered in: one transition for its action.
Left(n, w) ==
  CASE n = "validate_request"           -> Plain("validated")
    [] n = "retrieve_candidate_pool"    -> Plain("retrieved")
    [] n = "prepare_initial_context"    -> Plain("prepared")
    [] n = "inspect_alternate_evidence" -> Plain("inspected")
    [] n = "compose_grounded_answer"    -> Plain("answered")
    [] n = "verify_grounded_answer"     -> Plain("verified")
    [] n = "observe_diagnostics"        -> Plain("observed")
    [] OTHER                            -> Action(n, w)

LEMMA PolicyIs ==
  ASSUME NEW a, NEW x, NEW c
  PROVE  <<a, x, c>> \in Policy <=>
           \/ a = Plain("received")  /\ x = Plain("validate") /\ c = Plain("validated")
           \/ a = Plain("validated") /\ x = Plain("retrieve") /\ c = Plain("retrieved")
           \/ a = Plain("retrieved") /\ x = Plain("prepare")  /\ c = Plain("prepared")
           \/ a = <<"initial", "inspect">> /\ x = Plain("inspect") /\ c = Plain("inspected")
           \/ a = Plain("answered")  /\ x = Plain("verify")   /\ c = Plain("verified")
           \/ a = Plain("verified")  /\ x = Plain("observe")  /\ c = Plain("observed")
           \/ a = Plain("observed")  /\ x = Plain("complete") /\ c = Plain("complete")
           \/ a = Plain("observed")  /\ x = Plain("refuse")   /\ c = Plain("refuse")
           \/ a = Plain("prepared")  /\ c = x /\ \E d \in InitialActions : x = <<"initial", d>>
           \/ a = Plain("inspected") /\ c = x /\ \E d \in FinalActions : x = <<"final", d>>
           \/ \E phase \in {"initial", "final"} :
                \/ a = <<phase, "compose">> /\ x = Plain("compose") /\ c = Plain("answered")
                \/ a = <<phase, "clarify">> /\ x = Plain("clarify") /\ c = Plain("clarify")
                \/ a = <<phase, "refuse">>  /\ x = Plain("refuse")  /\ c = Plain("refuse")
BY DEF Policy

LEMMA Transition ==
  ASSUME NEW n \in Node, NEW wide \in BOOLEAN, NEW w, NEW next,
         <<Entered(n, wide), Action(n, w), next>> \in Policy
  PROVE  next = Left(n, w)
<1>. DEFINE a == Entered(n, wide)
            x == Action(n, w)
<1>1. \/ a = Plain("received")  /\ x = Plain("validate") /\ next = Plain("validated")
      \/ a = Plain("validated") /\ x = Plain("retrieve") /\ next = Plain("retrieved")
      \/ a = Plain("retrieved") /\ x = Plain("prepare")  /\ next = Plain("prepared")
      \/ a = <<"initial", "inspect">> /\ x = Plain("inspect") /\ next = Plain("inspected")
      \/ a = Plain("answered")  /\ x = Plain("verify")   /\ next = Plain("verified")
      \/ a = Plain("verified")  /\ x = Plain("observe")  /\ next = Plain("observed")
      \/ a \in {Plain("observed"), Plain("prepared"), Plain("inspected")} /\ next = x
      \/ \E phase \in {"initial", "final"} :
           \/ a = <<phase, "compose">> /\ x = Plain("compose") /\ next = Plain("answered")
           \/ a = <<phase, "clarify">> /\ next = x
           \/ a = <<phase, "refuse">>  /\ next = x
  BY PolicyIs
<1>2. CASE n \in {"validate_request", "retrieve_candidate_pool", "prepare_initial_context",
                  "inspect_alternate_evidence", "verify_grounded_answer", "observe_diagnostics"}
  BY <1>1, <1>2 DEF Entered, Left, Plain
<1>3. CASE n = "compose_grounded_answer"
  BY <1>1, <1>3 DEF Entered, Left, Plain, Phase
<1>4. CASE n \in {"select_initial_action", "select_final_action", "finalize_verified_response"}
  BY <1>1, <1>4 DEF Entered, Left, Plain
<1>5. CASE n = "finalize_clarification"
  BY <1>1, <1>5 DEF Entered, Left, Plain, Phase
<1>6. CASE n = "finalize_refusal"
  BY <1>1, <1>6 DEF Entered, Left, Plain, Phase
<1>. QED
  BY <1>2, <1>3, <1>4, <1>5, <1>6 DEF Node, Tool, Select, Finalize

\* The step of the graph: whatever the work and the transition, the next node
\* finds the state it is entered with.
LEMMA CourseAdvances ==
  ASSUME NEW n \in Node, NEW s \in GraphState, OnCourse(n, s),
         NEW w \in Worked(n, s), NEW next \in Allowed(n, w)
  PROVE  OnCourse(Edge(n, LastDecision(w)), Handed(n, w, next))
<1>. DEFINE h == Handed(n, w, next)
            d == LastDecision(w)
            m == Edge(n, LastDecision(w))
<1>. SUFFICES OnCourse(m, h)
  OBVIOUS
<1>1. /\ w \in GraphState /\ w.done = s.done /\ w.current = s.current
      /\ Selects(n, s, w) /\ Concludes(n, s, w)
  BY WorkedIs
<1>2. next \in AgentState
  BY AllowedTypes
<1>3. /\ h.current = next /\ h.done = s.done \cup {n}
      /\ h.decisions = w.decisions /\ h.terminal = w.terminal
  BY <1>1, <1>2, HandedIs
<1>4. Evidence(h)
  BY <1>2, EvidenceAdvances
<1>5. LastDecision(h) = d
  BY <1>3 DEF LastDecision
<1>6. /\ s.done = Before(n, Wide(s)) /\ s.current = Entered(n, Wide(s))
      /\ LastDecision(s) = Decided(n) /\ Len(s.decisions) = Asks(s.done)
      /\ n = "finalize_verified_response" => s.terminal \in {"complete", "refuse"}
  BY DEF OnCourse, Underway, Node, Tool, Select, Finalize
<1>7. IF n \in Select
        THEN /\ d \in InitialActions /\ (n = "select_final_action" => d \in FinalActions)
             /\ Len(h.decisions) = Len(s.decisions) + 1
        ELSE d = Decided(n) /\ h.decisions = s.decisions
  BY <1>1, <1>3, <1>6, DecisionIs
<1>8. Wide(h) <=> Wide(s) \/ n = "inspect_alternate_evidence"
  BY <1>3 DEF Wide
<1>9. Len(h.decisions) = Asks(h.done)
  BY <1>3, <1>6, <1>7 DEF Asks, Before, Asked, Asking, Answering, Select, Node, Tool, Finalize
<1>10. next = Left(n, w)
  <2>1. <<Entered(n, Wide(s)), Action(n, w), next>> \in Policy
    BY <1>1, <1>6, AllowedIsPolicy
  <2>2. Wide(s) \in BOOLEAN
    BY DEF Wide
  <2>. QED
    BY <2>1, <2>2, Transition
<1>11. \/ n = "validate_request" /\ m = "retrieve_candidate_pool"
       \/ n = "retrieve_candidate_pool" /\ m = "prepare_initial_context"
       \/ n = "prepare_initial_context" /\ m = "select_initial_action"
       \/ n \in Select /\ d = "compose" /\ m = "compose_grounded_answer"
       \/ n = "select_initial_action" /\ d = "inspect" /\ m = "inspect_alternate_evidence"
       \/ n \in Select /\ d = "clarify" /\ m = "finalize_clarification"
       \/ n \in Select /\ d = "refuse" /\ m = "finalize_refusal"
       \/ n = "inspect_alternate_evidence" /\ m = "select_final_action"
       \/ n = "compose_grounded_answer" /\ m = "verify_grounded_answer"
       \/ n = "verify_grounded_answer" /\ m = "observe_diagnostics"
       \/ n = "observe_diagnostics" /\ m = "finalize_verified_response"
       \/ n \in Finalize /\ m = "end"
  BY <1>7 DEF Edge, Routed, Node, Tool, Select, Finalize, InitialActions, FinalActions
<1>12. Action("select_initial_action", w) = <<"initial", d>>
       /\ Action("select_final_action", w) = <<"final", d>>
  BY DEF Action
<1>. HIDE DEF h, d, m
<1>13. CASE m # "end"
  <2>1. h.done = Before(m, Wide(h))
    BY <1>3, <1>6, <1>8, <1>11, <1>13
       DEF Before, Wide, Asked, Asking, Answering, Select, Finalize
  <2>2. d = Decided(m)
    BY <1>7, <1>11, <1>13 DEF Decided, Answering, Select, Finalize
  <2>3. next = Entered(m, Wide(h))
    BY <1>6, <1>8, <1>10, <1>11, <1>12, <1>13
       DEF Left, Entered, Phase, Before, Wide, Asked, Select, Finalize
  <2>4. m = "finalize_verified_response" => h.terminal \in {"complete", "refuse"}
    BY <1>1, <1>3, <1>11 DEF Concludes, Select
  <2>. QED
    BY <1>3, <1>4, <1>5, <1>9, <1>13, <2>1, <2>2, <2>3, <2>4 DEF OnCourse, Underway
<1>14. CASE m = "end"
  <2>1. n \in Finalize
    BY <1>11, <1>14
  <2>2. next = Plain(h.terminal)
    BY <1>1, <1>3, <1>10, <2>1 DEF Left, Action, Concludes, Finalized, Finalize
  <2>3. Wide(h) = Wide(s) /\ d = Decided(n)
    BY <1>7, <1>8, <2>1 DEF Finalize, Select, Wide
  <2>4. ASSUME n = "finalize_verified_response"
        PROVE  Ended(h)
    <3>1. h.terminal \in {"complete", "refuse"} /\ h.done = Asking(Wide(h)) \cup Answering \cup {n}
      BY <1>1, <1>3, <1>6, <2>3, <2>4 DEF Concludes, Before
    <3>. QED
      BY <1>3, <1>5, <2>2, <2>3, <2>4, <3>1 DEF Ended, Decided
  <2>5. ASSUME n \in {"finalize_clarification", "finalize_refusal"}
        PROVE  Ended(h)
    <3>1. h.terminal = Finalized(n) /\ h.done = Asking(Wide(h)) \cup {n}
      BY <1>1, <1>3, <1>6, <2>3, <2>5 DEF Concludes, Before
    <3>. QED
      BY <1>3, <1>5, <2>2, <2>3, <2>5, <3>1 DEF Ended, Decided, Answering, Finalized
  <2>6. Ended(h)
    BY <2>1, <2>4, <2>5 DEF Finalize
  <2>. QED
    BY <1>4, <1>9, <1>14, <2>6 DEF OnCourse
<1>. QED
  BY <1>13, <1>14

\* Three tables, one course: a node that is on course trips over nothing.
LEMMA OnCourseFits ==
  ASSUME NEW n \in Node, NEW s \in GraphState, OnCourse(n, s)
  PROVE  Fits(n, s)
<1>1. /\ s.done = Before(n, Wide(s)) /\ s.current = Entered(n, Wide(s))
      /\ LastDecision(s) = Decided(n) /\ Len(s.decisions) = Asks(s.done)
      /\ n = "finalize_verified_response" => s.terminal \in {"complete", "refuse"}
  BY DEF OnCourse, Underway, Node, Tool, Select, Finalize
<1>2. Ready(n, s)
  <2>1. n \in Tool => n \notin s.done
    BY <1>1 DEF Before, Tool, Asked, Asking, Answering, Wide
  <2>2. n \in Select => Len(s.decisions) = (IF n = "select_initial_action" THEN 0 ELSE 1)
    BY <1>1 DEF Before, Select, Asks, Asked
  <2>3. /\ n = "verify_grounded_answer" => "compose_grounded_answer" \in s.done
        /\ n = "observe_diagnostics" => {"prepare_initial_context", "compose_grounded_answer",
                                         "verify_grounded_answer"} \subseteq s.done
    BY <1>1 DEF Before, Asking, Asked, Answering
  <2>. QED
    BY <1>1, <2>1, <2>2, <2>3 DEF Ready, Decided, Answering
<1>3. ASSUME NEW w \in Worked(n, s)
      PROVE  Allowed(n, w) # {}
  <2>1. /\ w \in GraphState /\ w.current = Entered(n, Wide(s))
        /\ Selects(n, s, w) /\ Concludes(n, s, w)
    BY <1>1, WorkedIs
  <2>2. IF n \in Select
          THEN /\ LastDecision(w) \in InitialActions
               /\ n = "select_final_action" => LastDecision(w) \in FinalActions
          ELSE LastDecision(w) = Decided(n)
    BY <1>1, <2>1, DecisionIs
  <2>3. n = "finalize_verified_response" => w.terminal \in {"complete", "refuse"}
    BY <1>1, <2>1 DEF Concludes
  <2>4. Phase(Wide(s)) \in {"initial", "final"}
    BY DEF Phase
  <2>5. \E next : <<Entered(n, Wide(s)), Action(n, w), next>> \in Policy
    <3>1. \E next : n \in {"validate_request", "retrieve_candidate_pool", "prepare_initial_context",
                           "inspect_alternate_evidence", "verify_grounded_answer",
                           "observe_diagnostics"} =>
                      <<Entered(n, Wide(s)), Action(n, w), next>> \in Policy
      BY PolicyIs DEF Entered, Action
    <3>2. n \in Select => <<Entered(n, Wide(s)), Action(n, w), Action(n, w)>> \in Policy
      BY <2>2, PolicyIs DEF Entered, Action, Select
    <3>3. n = "compose_grounded_answer" =>
            <<Entered(n, Wide(s)), Action(n, w), Plain("answered")>> \in Policy
      BY <2>4, PolicyIs DEF Entered, Action
    <3>4. n \in Finalize => <<Entered(n, Wide(s)), Action(n, w), Action(n, w)>> \in Policy
      BY <2>3, <2>4, PolicyIs DEF Entered, Action, Finalize
    <3>. QED
      BY <3>1, <3>2, <3>3, <3>4 DEF Node, Tool
  <2>. QED
    BY <2>1, <2>5, AllowedIsPolicy
<1>. QED
  BY <1>2, <1>3 DEF Fits

\* What is on course shows the evidence of its answer, ended or not.
LEMMA OnCourseShows ==
  ASSUME NEW n \in Node \cup {"end"}, NEW s \in GraphState, OnCourse(n, s)
  PROVE  Shown(s)
<1>. SUFFICES ASSUME "compose_grounded_answer" \in s.done PROVE Shown(s)
  BY DEF Shown
<1>1. /\ {"select_initial_action"} \subseteq s.done
      /\ Wide(s) <=> "select_final_action" \in s.done
  <2>1. CASE n = "end"
    BY <2>1 DEF OnCourse, Ended, Asking, Asked, Answering
  <2>2. CASE n # "end"
    <3>1. s.done = Before(n, Wide(s))
      BY <2>2 DEF OnCourse, Underway
    <3>2. n \in {"verify_grounded_answer", "observe_diagnostics", "finalize_verified_response"}
      BY <2>2, <3>1 DEF Before, Asking, Asked, Node, Tool, Select, Finalize
    <3>. QED
      BY <3>1, <3>2 DEF Before, Asking, Asked, Answering, Wide
  <2>. QED
    BY <2>1, <2>2
<1>2. Evidence(s) /\ Len(s.decisions) = Asks(s.done)
  BY DEF OnCourse
<1>. QED
  BY <1>1, <1>2 DEF Shown, Evidence, Asks, Wide, Count, Last

LEMMA ActionsType ==
  ASSUME NEW ds \in Seq([action: InitialActions, shown: SUBSET Rank]), NEW actions,
         actions = [i \in DOMAIN ds |-> ds[i].action]
  PROVE  /\ actions \in Seq(InitialActions)
         /\ Len(actions) = Len(ds)
         /\ Len(ds) > 0 => actions[Len(ds)] = ds[Len(ds)].action
<1>1. Len(ds) \in Nat /\ DOMAIN ds = 1 .. Len(ds)
  OBVIOUS
<1>2. ASSUME NEW D, ds \in Seq(D), NEW i \in 1 .. Len(ds)
      PROVE  ds[i] \in D
  BY <1>2
<1>3. ASSUME NEW i \in 1 .. Len(ds)
      PROVE  ds[i].action \in InitialActions
  <2>1. ds[i] \in [action: InitialActions, shown: SUBSET Rank]
    BY <1>2
  <2>. QED
    BY <2>1
<1>4. actions = [i \in 1 .. Len(ds) |-> ds[i].action]
  BY <1>1
<1>5. actions \in [1 .. Len(ds) -> InitialActions]
  BY <1>3, <1>4
<1>. QED
  BY <1>1, <1>4, <1>5

\* A graph that has ended gives a trace that follows from its last decision.
LEMMA EndFollows ==
  ASSUME NEW s \in GraphState, OnCourse("end", s), s.stage = "none"
  PROVE  Follows(TraceOf(s, FALSE), s.terminal)
<1>. DEFINE tr == TraceOf(s, FALSE)
<1>1. Ended(s) /\ Len(s.decisions) = Asks(s.done)
  BY DEF OnCourse
<1>2. /\ tr.terminal = s.terminal /\ tr.stage = "none"
      /\ tr.actions = [i \in DOMAIN s.decisions |-> s.decisions[i].action]
      /\ \A x \in Tool : tr.calls[x] = Count(x, s)
  BY <1>1 DEF TraceOf, Ended
<1>3. s.decisions \in Seq([action: InitialActions, shown: SUBSET Rank])
  BY DEF GraphState
<1>4. Len(s.decisions) = 1 + Count("inspect_alternate_evidence", s)
  BY <1>1 DEF Ended, Asks, Asking, Asked, Answering, Wide, Count
<1>5. /\ Len(tr.actions) = Len(s.decisions)
      /\ tr.actions[Len(tr.actions)] = LastDecision(s)
  <2>1. Len(s.decisions) > 0 /\ Len(tr.actions) = Len(s.decisions)
        /\ tr.actions[Len(s.decisions)] = s.decisions[Len(s.decisions)].action
    <3>1. Len(s.decisions) > 0
      BY <1>4 DEF Count
    <3>. HIDE DEF tr
    <3>. QED
      BY <1>2, <1>3, <3>1, ActionsType
  <2>2. s.decisions # <<>>
    BY <2>1
  <2>. QED
    BY <2>1, <2>2 DEF LastDecision, Last
<1>6. /\ tr.calls["retrieve_candidate_pool"] = 1
      /\ tr.calls["compose_grounded_answer"] = IF LastDecision(s) = "compose" THEN 1 ELSE 0
      /\ tr.calls["verify_grounded_answer"] = tr.calls["compose_grounded_answer"]
      /\ tr.calls["observe_diagnostics"] = tr.calls["compose_grounded_answer"]
      /\ tr.calls["inspect_alternate_evidence"] = Count("inspect_alternate_evidence", s)
  BY <1>1, <1>2 DEF Ended, Asking, Asked, Answering, Count, Tool
<1>7. s.terminal \in (CASE LastDecision(s) = "compose" -> {"complete", "refuse"}
                        [] OTHER -> {LastDecision(s)})
  BY <1>1 DEF Ended
<1>. HIDE DEF tr
<1>. QED
  BY <1>2, <1>4, <1>5, <1>6, <1>7 DEF Follows, tr

-------------------------------------------------------------------------------
(* The threads *)

LEMMA TraceType ==
  ASSUME NEW s \in GraphState, NEW limit \in BOOLEAN
  PROVE  TraceOf(s, limit) \in Trace
<1>1. IsFiniteSet(Rank)
  BY FS_Interval, IterativeAssumption DEF Rank, IterativeAssumption
<1>2. \A x \in SUBSET Rank : Cardinality(x) \in Nat
  BY <1>1, FS_Subset, FS_CardinalityType
<1>. DEFINE tr == TraceOf(s, limit)
            terminal == IF s.terminal = "none" THEN s.current[1] ELSE s.terminal
            actions == [i \in DOMAIN s.decisions |-> s.decisions[i].action]
            calls == [x \in Tool |-> Count(x, s)]
            evidence == <<Cardinality(s.initial), Cardinality(s.alternate),
                          Cardinality(s.composition)>>
<1>3. tr = [terminal |-> terminal, stage |-> s.stage, limit |-> limit,
            actions |-> actions, calls |-> calls, evidence |-> evidence]
  BY DEF TraceOf
<1>4. terminal \in {a[1] : a \in AgentState} \cup Terminal \cup {"failed"}
  BY DEF GraphState
<1>5. actions \in Seq(InitialActions)
  BY ActionsType DEF GraphState
<1>6. calls \in [Tool -> 0 .. 1]
  BY DEF Count
<1>7. evidence \in Nat \X Nat \X Nat
  BY <1>2 DEF GraphState
<1>8. s.stage \in Stage
  BY DEF GraphState
<1>. HIDE DEF tr, terminal, actions, calls, evidence
<1>9. tr \in Trace
  BY <1>3, <1>4, <1>5, <1>6, <1>7, <1>8 DEF Trace
<1>. QED
  BY <1>9 DEF tr

LEMMA EmptyTraceType == NoTrace \in Trace /\ EmptyTrace("load_thread_state") \in Trace
<1>1. ASSUME NEW stage \in Stage
      PROVE  EmptyTrace(stage) \in Trace
  <2>1. [InitialState EXCEPT !.stage = stage] \in GraphState
    BY InitialTypes DEF GraphState
  <2>2. TraceOf([InitialState EXCEPT !.stage = stage], FALSE) \in Trace
    BY <2>1, TraceType
  <2>. QED
    BY <2>2 DEF EmptyTrace, Trace
<1>. QED
  BY <1>1 DEF NoTrace, Stage

\* A thread is not disturbed by what other threads do.
LEMMA OthersKeep ==
  ASSUME NEW u \in Threads, ThreadInv(u),
         at'[u] = at[u], node'[u] = node[u], graph'[u] = graph[u],
         snapshot'[u] = snapshot[u], error'[u] = error[u],
         result'[u] = result[u], trace'[u] = trace[u],
         at[u] = "raised" => failures'[error[u]] = failures[error[u]]
  PROVE  ThreadInv(u)'
<1>1. ContextInv(u)'
  BY DEF ThreadInv, ContextInv
<1>2. CourseInv(u)'
  BY DEF ThreadInv, CourseInv
<1>3. FailureInv(u)'
  BY DEF ThreadInv, FailureInv
<1>4. ReportInv(u)'
  BY DEF ThreadInv, ReportInv
<1>. QED
  BY <1>1, <1>2, <1>3, <1>4 DEF ThreadInv

\* Where no exception starts or ends, the table and its holders stay as they are.
LEMMA TableKeeps ==
  ASSUME DistinctErrors, FailuresHaveHolders, UNCHANGED <<error, failures>>,
         \A u \in Threads : at'[u] = "raised" <=> at[u] = "raised"
  PROVE  DistinctErrors' /\ FailuresHaveHolders'
BY DEF DistinctErrors, FailuresHaveHolders

\* A call starts from nothing: the graph of the last one goes.
LEMMA CallStep ==
  ASSUME TurnInv, NEW t \in Threads, NEW h \in Handles, Call(t, h)
  PROVE  TurnInv'
<1>1. TypeOK'
  BY InitialTypes, EmptyTraceType DEF TurnInv, TypeOK, Call, Move, Report, ledgerVars, LedgerTypeOK
<1>2. Shown(InitialState) /\ InitialState.stage = "none"
  BY DEF Shown, InitialState
<1>3. ThreadInv(t)'
  BY <1>2 DEF TurnInv, TypeOK, ThreadInv, ContextInv, CourseInv, FailureInv, ReportInv,
              Call, Move, Report
<1>4. ASSUME NEW u \in Threads, u # t
      PROVE  ThreadInv(u)'
  BY <1>4, OthersKeep DEF TurnInv, TypeOK, Call, Move, Report
<1>5. DistinctErrors' /\ FailuresHaveHolders'
  BY TableKeeps DEF TurnInv, TypeOK, Call, Move
<1>. QED
  BY <1>1, <1>3, <1>4, <1>5 DEF TurnInv

LEMMA LoadHistoryStep ==
  ASSUME TurnInv, NEW t \in Threads, LoadHistory(t)
  PROVE  TurnInv'
<1>1. TypeOK'
  BY EmptyTraceType
     DEF TurnInv, TypeOK, LoadHistory, Unloaded, Move, Report, ledgerVars, LedgerTypeOK
<1>2. ThreadInv(t)'
  BY DEF TurnInv, TypeOK, ThreadInv, ContextInv, CourseInv, FailureInv, ReportInv,
         LoadHistory, Unloaded, Move, Report
<1>3. ASSUME NEW u \in Threads, u # t
      PROVE  ThreadInv(u)'
  BY <1>3, OthersKeep DEF TurnInv, TypeOK, LoadHistory, Unloaded, Move, Report
<1>4. DistinctErrors' /\ FailuresHaveHolders'
  BY TableKeeps DEF TurnInv, TypeOK, LoadHistory, Move
<1>. QED
  BY <1>1, <1>2, <1>3, <1>4 DEF TurnInv

LEMMA SummariseAndBeginStep ==
  ASSUME TurnInv, NEW t \in Threads, SummariseAndBegin(t)
  PROVE  TurnInv'
<1>1. OnCourse("validate_request", InitialState)
  BY DEF OnCourse, Underway, Evidence, Entered, Before, Decided, Asks, Wide, LastDecision,
         InitialState, Answering
<1>2. "validate_request" \in Node
  BY DEF Node
<1>3. TypeOK'
  BY <1>2, InitialTypes, EmptyTraceType
     DEF TurnInv, TypeOK, SummariseAndBegin, Unloaded, Move, Report, ledgerVars, LedgerTypeOK
<1>4. ThreadInv(t)'
  BY <1>1 DEF TurnInv, TypeOK, ThreadInv, ContextInv, CourseInv, FailureInv, ReportInv,
              SummariseAndBegin, Unloaded, Move, Report
<1>5. ASSUME NEW u \in Threads, u # t
      PROVE  ThreadInv(u)'
  BY <1>5, OthersKeep DEF TurnInv, TypeOK, SummariseAndBegin, Unloaded, Move, Report
<1>6. DistinctErrors' /\ FailuresHaveHolders'
  BY TableKeeps DEF TurnInv, TypeOK, SummariseAndBegin, Move
<1>. QED
  BY <1>3, <1>4, <1>5, <1>6 DEF TurnInv

LEMMA NodeReturnsStep ==
  ASSUME TurnInv, NEW t \in Threads, NodeReturns(t)
  PROVE  TurnInv'
<1>. DEFINE n == node[t]
            s == graph[t]
<1>1. n \in Node /\ s \in GraphState /\ OnCourse(n, s) /\ at[t] = "running"
  BY DEF TurnInv, TypeOK, ThreadInv, CourseInv, NodeReturns
<1>2. PICK w \in Worked(n, s) : \E next \in Allowed(n, w) :
        /\ graph' = [graph EXCEPT ![t] = Handed(n, w, next)]
        /\ node' = [node EXCEPT ![t] = Edge(n, LastDecision(w))]
  BY DEF NodeReturns, Handed
<1>3. PICK next \in Allowed(n, w) :
        /\ graph' = [graph EXCEPT ![t] = Handed(n, w, next)]
        /\ node' = [node EXCEPT ![t] = Edge(n, LastDecision(w))]
  BY <1>2
<1>4. UNCHANGED <<runs, at, handle, base, error, snapshot, failures, result, trace, opened, history>>
  BY DEF NodeReturns, ledgerVars
<1>. DEFINE m == Edge(n, LastDecision(w))
            h == Handed(n, w, next)
<1>5. /\ OnCourse(m, h) /\ h \in GraphState /\ m \in Node \cup {"end"} /\ h.stage = "none"
  BY <1>1, CourseAdvances, WorkedIs, AllowedTypes, HandedIs, EdgeType
<1>. HIDE DEF m, h
<1>6. Shown(h)
  BY <1>5, OnCourseShows
<1>7. node' = [node EXCEPT ![t] = m] /\ graph' = [graph EXCEPT ![t] = h]
  BY <1>3 DEF m, h
<1>8. TypeOK'
  BY <1>4, <1>5, <1>7 DEF TurnInv, TypeOK, LedgerTypeOK
<1>9. ThreadInv(t)'
  BY <1>1, <1>4, <1>5, <1>6, <1>7
     DEF TurnInv, TypeOK, ThreadInv, ContextInv, CourseInv, FailureInv, ReportInv
<1>10. ASSUME NEW u \in Threads, u # t
      PROVE  ThreadInv(u)'
  BY <1>4, <1>7, <1>10, OthersKeep DEF TurnInv, TypeOK
<1>11. DistinctErrors' /\ FailuresHaveHolders'
  BY <1>4, TableKeeps DEF TurnInv
<1>. QED
  BY <1>8, <1>9, <1>10, <1>11 DEF TurnInv

LEMMA NodeRaisesStep ==
  ASSUME TurnInv, NEW t \in Threads, NEW e \in Errors, NodeRaises(t, e)
  PROVE  TurnInv'
<1>. DEFINE stored == [InitialState EXCEPT !.stage = node[t]]
<1>1. /\ at[t] = "running" /\ at' = [at EXCEPT ![t] = "raised"]
      /\ error' = [error EXCEPT ![t] = e]
      /\ \A u \in Threads : error[u] # e
      /\ UNCHANGED <<runs, handle, base, node, graph, snapshot, result, trace, opened, history>>
  BY DEF NodeRaises, Move, ledgerVars
<1>2. node[t] \in Node /\ snapshot[t] = InitialState
  BY <1>1 DEF TurnInv, ThreadInv, ContextInv, NodeRaises, Fallible
<1>3. failures' = [failures EXCEPT ![e] = stored]
  BY <1>2, InitialTypes DEF NodeRaises
<1>4. stored \in GraphState
  BY <1>2, InitialTypes DEF GraphState, Stage
<1>5. TypeOK'
  BY <1>1, <1>3, <1>4 DEF TurnInv, TypeOK, LedgerTypeOK
<1>6. failures'[e] = stored /\ error'[t] = e
  BY <1>1, <1>3 DEF TurnInv, TypeOK
<1>7. ThreadInv(t)'
  <2>1. ContextInv(t)' /\ CourseInv(t)' /\ ReportInv(t)'
    BY <1>1, <1>2 DEF TurnInv, TypeOK, ThreadInv, ContextInv, CourseInv, ReportInv
  <2>2. FailureInv(t)'
    BY <1>1, <1>6 DEF FailureInv
  <2>. QED
    BY <2>1, <2>2 DEF ThreadInv
<1>8. ASSUME NEW u \in Threads, u # t
      PROVE  ThreadInv(u)'
  <2>1. error'[u] = error[u] /\ error[u] # e /\ at'[u] = at[u]
    BY <1>1, <1>8 DEF TurnInv, TypeOK
  <2>2. at[u] = "raised" => failures'[error[u]] = failures[error[u]]
    BY <1>3, <2>1 DEF TurnInv, TypeOK, ThreadInv, FailureInv
  <2>. QED
    BY <1>1, <2>1, <2>2, OthersKeep DEF TurnInv
<1>9. DistinctErrors'
  BY <1>1 DEF TurnInv, TypeOK, DistinctErrors
<1>10. FailuresHaveHolders'
  BY <1>1, <1>3 DEF TurnInv, TypeOK, FailuresHaveHolders
<1>. QED
  BY <1>5, <1>7, <1>8, <1>9, <1>10 DEF TurnInv

\* The node that failed is what the trace of the exception names.
LEMMA ConsumeFailureStep ==
  ASSUME TurnInv, NEW t \in Threads, ConsumeFailure(t)
  PROVE  TurnInv'
<1>. DEFINE e == error[t]
            tr == TraceOf(failures[error[t]], FALSE)
<1>1. /\ at[t] = "raised" /\ at' = [at EXCEPT ![t] = "idle"]
      /\ result' = [result EXCEPT ![t] = "raised"] /\ trace' = [trace EXCEPT ![t] = tr]
      /\ error' = [error EXCEPT ![t] = NoError]
      /\ failures' = [failures EXCEPT ![e] = NoState]
      /\ snapshot' = [snapshot EXCEPT ![t] = NoState]
      /\ UNCHANGED <<runs, handle, base, node, graph, opened, history>>
  BY DEF ConsumeFailure, Move, Report, ledgerVars
<1>2. /\ e \in Errors /\ failures[e] = [InitialState EXCEPT !.stage = node[t]]
      /\ failures[e] \in GraphState
  BY <1>1 DEF TurnInv, TypeOK, ThreadInv, FailureInv
<1>3. failures[e].stage = node[t]
  BY <1>2 DEF InitialState
<1>4. tr \in Trace /\ tr.stage = node[t]
  BY <1>2, <1>3, TraceType DEF TraceOf
<1>. HIDE DEF tr
<1>5. TypeOK'
  BY <1>1, <1>2, <1>4, InitialTypes DEF TurnInv, TypeOK, LedgerTypeOK
<1>6. ThreadInv(t)'
  BY <1>1, <1>4 DEF TurnInv, TypeOK, ThreadInv, ContextInv, CourseInv, FailureInv, ReportInv
<1>7. ASSUME NEW u \in Threads, u # t
      PROVE  ThreadInv(u)'
  <2>1. at[u] = "raised" => error[u] # e
    BY <1>1, <1>7 DEF TurnInv, DistinctErrors
  <2>2. at[u] = "raised" => failures'[error[u]] = failures[error[u]]
    BY <1>1, <1>2, <2>1 DEF TurnInv, TypeOK, ThreadInv, FailureInv
  <2>. QED
    BY <1>1, <1>7, <2>2, OthersKeep DEF TurnInv, TypeOK
<1>8. DistinctErrors'
  BY <1>1 DEF TurnInv, TypeOK, DistinctErrors
<1>9. FailuresHaveHolders'
  <2>. SUFFICES ASSUME NEW f \in Errors, failures'[f] # NoState
                PROVE  \E u \in Threads : at'[u] = "raised" /\ error'[u] = f
    BY DEF FailuresHaveHolders
  <2>1. f # e /\ failures[f] # NoState
    BY <1>1, <1>2 DEF TurnInv, TypeOK
  <2>2. PICK u \in Threads : at[u] = "raised" /\ error[u] = f
    BY <2>1 DEF TurnInv, FailuresHaveHolders
  <2>. QED
    BY <1>1, <2>1, <2>2 DEF TurnInv, TypeOK
<1>. QED
  BY <1>5, <1>6, <1>7, <1>8, <1>9 DEF TurnInv

LEMMA GraphEndsStep ==
  ASSUME TurnInv, NEW t \in Threads, GraphEnds(t)
  PROVE  TurnInv'
<1>1. /\ at[t] = "running" /\ node[t] = "end" /\ at' = [at EXCEPT ![t] = "committing"]
      /\ snapshot' = [snapshot EXCEPT ![t] = NoState]
      /\ UNCHANGED <<runs, handle, base, node, graph, error, failures, result, trace,
                     opened, history>>
  BY DEF GraphEnds, Move, callVars, ledgerVars
<1>2. TypeOK'
  BY <1>1, InitialTypes DEF TurnInv, TypeOK, LedgerTypeOK
<1>3. ThreadInv(t)'
  BY <1>1 DEF TurnInv, TypeOK, ThreadInv, ContextInv, CourseInv, FailureInv, ReportInv
<1>4. ASSUME NEW u \in Threads, u # t
      PROVE  ThreadInv(u)'
  BY <1>1, <1>4, OthersKeep DEF TurnInv, TypeOK
<1>5. DistinctErrors' /\ FailuresHaveHolders'
  BY <1>1, TableKeeps DEF TurnInv, TypeOK
<1>. QED
  BY <1>2, <1>3, <1>4, <1>5 DEF TurnInv

\* Only a turn the ledger accepts is published under its answer.
LEMMA CommitStep ==
  ASSUME TurnInv, NEW t \in Threads, NEW size \in Sizes, Commit(t, size)
  PROVE  TurnInv'
<1>1. /\ at[t] = "committing" /\ at' = [at EXCEPT ![t] = "idle"]
      /\ UNCHANGED <<runs, handle, base, node, graph, error, snapshot, failures>>
  BY DEF Commit, Move, callVars
<1>2. graph[t] \in GraphState /\ OnCourse("end", graph[t]) /\ graph[t].stage = "none"
  BY <1>1 DEF TurnInv, TypeOK, ThreadInv, CourseInv
<1>3. PICK how, tr :
        /\ result' = [result EXCEPT ![t] = how] /\ trace' = [trace EXCEPT ![t] = tr]
        /\ how \in {"rejected", "complete", "refuse", "clarify"} /\ tr \in Trace
        /\ how # "rejected" => Follows(tr, how)
  <2>1. CASE Acceptable(handle[t], base[t] + 1, size)
    <3>1. TraceOf(graph[t], FALSE) \in Trace
      BY <1>2, TraceType
    <3>2. graph[t].terminal \in {"complete", "refuse", "clarify"}
      BY <1>2 DEF OnCourse, Ended
    <3>. QED
      BY <1>2, <2>1, <3>1, <3>2, EndFollows DEF Commit, Report
  <2>2. CASE ~Acceptable(handle[t], base[t] + 1, size)
    <3>1. [graph[t] EXCEPT !.stage = "commit_thread_state"] \in GraphState
      BY <1>2 DEF GraphState, Stage
    <3>2. TraceOf([graph[t] EXCEPT !.stage = "commit_thread_state"], TRUE) \in Trace
      BY <3>1, TraceType
    <3>. QED
      BY <2>2, <3>2 DEF Commit, Report
  <2>. QED
    BY <2>1, <2>2
<1>4. LedgerTypeOK'
  <2>1. CASE UNCHANGED ledgerVars
    BY <2>1 DEF TurnInv, TypeOK, LedgerTypeOK, ledgerVars
  <2>2. CASE AppendTurn(handle[t], base[t] + 1, size)
    <3>1. /\ handle[t] \in Handles /\ history \in [Handles -> [count: Nat, bytes: Nat]]
          /\ size \in Nat
      BY <2>2, LedgerAssumption
         DEF TurnInv, TypeOK, LedgerTypeOK, LedgerAssumption, AppendTurn, Acceptable
    <3>. QED
      BY <2>2, <3>1 DEF TurnInv, TypeOK, LedgerTypeOK, AppendTurn
  <2>. QED
    BY <2>1, <2>2 DEF Commit
<1>5. TypeOK'
  BY <1>1, <1>3, <1>4 DEF TurnInv, TypeOK, Terminal
<1>6. ThreadInv(t)'
  BY <1>1, <1>3 DEF TurnInv, TypeOK, ThreadInv, ContextInv, CourseInv, FailureInv, ReportInv
<1>7. ASSUME NEW u \in Threads, u # t
      PROVE  ThreadInv(u)'
  BY <1>1, <1>3, <1>7, OthersKeep DEF TurnInv, TypeOK
<1>8. DistinctErrors' /\ FailuresHaveHolders'
  BY <1>1, TableKeeps DEF TurnInv, TypeOK
<1>. QED
  BY <1>5, <1>6, <1>7, <1>8 DEF TurnInv

\* Nothing of a turn but its ledger changes when a thread is opened or closed.
LEMMA ThreadActionStep ==
  ASSUME TurnInv, NEW h \in Handles, ThreadAction(h)
  PROVE  TurnInv'
<1>1. UNCHANGED <<runs, at, handle, base, node, graph, error, snapshot, failures, result, trace>>
  BY DEF ThreadAction, callVars
<1>2. LedgerTypeOK'
  BY DEF ThreadAction, LedgerOpen, LedgerClose, Empty, TurnInv, TypeOK, LedgerTypeOK
<1>3. TypeOK'
  BY <1>1, <1>2 DEF TurnInv, TypeOK
<1>4. ASSUME NEW u \in Threads
      PROVE  ThreadInv(u)'
  BY <1>1, OthersKeep DEF TurnInv
<1>5. DistinctErrors' /\ FailuresHaveHolders'
  BY <1>1, TableKeeps DEF TurnInv
<1>. QED
  BY <1>3, <1>4, <1>5 DEF TurnInv

-------------------------------------------------------------------------------
LEMMA TurnInitially == Init => TurnInv
<1>. SUFFICES ASSUME Init PROVE TurnInv
  OBVIOUS
<1>1. TypeOK
  BY InitialTypes, EmptyTraceType, IterativeAssumption
     DEF Init, TypeOK, LedgerInit, LedgerTypeOK, Empty, IterativeAssumption
<1>2. Shown(InitialState) /\ InitialState.stage = "none"
  BY DEF Shown, InitialState
<1>3. ASSUME NEW t \in Threads
      PROVE  ThreadInv(t)
  BY <1>2 DEF Init, ThreadInv, ContextInv, CourseInv, FailureInv, ReportInv
<1>4. DistinctErrors /\ FailuresHaveHolders
  BY DEF Init, DistinctErrors, FailuresHaveHolders
<1>. QED
  BY <1>1, <1>3, <1>4 DEF TurnInv

LEMMA TurnStutters == TurnInv /\ UNCHANGED turnVars => TurnInv'
<1>. SUFFICES ASSUME TurnInv, UNCHANGED turnVars PROVE TurnInv'
  OBVIOUS
<1>1. UNCHANGED <<runs, at, handle, base, node, graph, error, snapshot, failures, result,
                  trace, opened, history>>
  BY DEF turnVars, callVars, ledgerVars
<1>2. TypeOK'
  BY <1>1 DEF TurnInv, TypeOK, LedgerTypeOK
<1>3. ASSUME NEW u \in Threads
      PROVE  ThreadInv(u)'
  BY <1>1, OthersKeep DEF TurnInv
<1>4. DistinctErrors' /\ FailuresHaveHolders'
  BY <1>1, TableKeeps DEF TurnInv
<1>. QED
  BY <1>2, <1>3, <1>4 DEF TurnInv

\* The inductive invariant holds throughout.
LEMMA TurnInvariance == Spec => []TurnInv
<1>1. Init => TurnInv
  BY TurnInitially
<1>2. TurnInv /\ [Next]_turnVars => TurnInv'
  <2>. SUFFICES ASSUME TurnInv, [Next]_turnVars PROVE TurnInv'
    OBVIOUS
  <2>1. ASSUME NEW t \in Threads, NEW h \in Handles, Call(t, h)
        PROVE  TurnInv'
    BY <2>1, CallStep
  <2>2. ASSUME NEW t \in Threads, LoadHistory(t)
        PROVE  TurnInv'
    BY <2>2, LoadHistoryStep
  <2>3. ASSUME NEW t \in Threads, SummariseAndBegin(t)
        PROVE  TurnInv'
    BY <2>3, SummariseAndBeginStep
  <2>4. ASSUME NEW t \in Threads, NodeReturns(t)
        PROVE  TurnInv'
    BY <2>4, NodeReturnsStep
  <2>5. ASSUME NEW t \in Threads, NEW e \in Errors, NodeRaises(t, e)
        PROVE  TurnInv'
    BY <2>5, NodeRaisesStep
  <2>6. ASSUME NEW t \in Threads, ConsumeFailure(t)
        PROVE  TurnInv'
    BY <2>6, ConsumeFailureStep
  <2>7. ASSUME NEW t \in Threads, GraphEnds(t)
        PROVE  TurnInv'
    BY <2>7, GraphEndsStep
  <2>8. ASSUME NEW t \in Threads, NEW size \in Sizes, Commit(t, size)
        PROVE  TurnInv'
    BY <2>8, CommitStep
  <2>9. ASSUME NEW h \in Handles, ThreadAction(h)
        PROVE  TurnInv'
    BY <2>9, ThreadActionStep
  <2>10. CASE UNCHANGED turnVars
    BY <2>10, TurnStutters
  <2>. QED
    BY <2>1, <2>2, <2>3, <2>4, <2>5, <2>6, <2>7, <2>8, <2>9, <2>10 DEF Next, TurnStep
<1>. QED
  BY <1>1, <1>2, PTL DEF Spec

\* Every variable stays in its set: a decision is one the model may take, evidence
\* is of the pool, a state is one the policy knows.
THEOREM IterativeTypes == Spec => []TypeOK
<1>1. TurnInv => TypeOK
  BY DEF TurnInv
<1>. QED
  BY <1>1, TurnInvariance, PTL

\* Nodes, edges and policy agree for every decision the model may take.
THEOREM IterativeFits == Spec => []IterativeGraphFits
<1>1. TurnInv => IterativeGraphFits
  <2>. SUFFICES ASSUME TurnInv, NEW t \in Threads, at[t] = "running"
                PROVE  IF node[t] = "end" THEN graph[t].current = Plain(graph[t].terminal)
                                          ELSE Fits(node[t], graph[t])
    BY DEF IterativeGraphFits
  <2>1. /\ OnCourse(node[t], graph[t]) /\ graph[t] \in GraphState
        /\ node[t] \in Node \cup {"end"}
    BY DEF TurnInv, TypeOK, ThreadInv, CourseInv
  <2>2. CASE node[t] = "end"
    BY <2>1, <2>2 DEF OnCourse, Ended
  <2>3. CASE node[t] # "end"
    BY <2>1, <2>3, OnCourseFits
  <2>. QED
    BY <2>2, <2>3
<1>. QED
  BY <1>1, TurnInvariance, PTL

\* An answer is composed from what the last decision was shown and nothing the
\* verifier cannot look up.
THEOREM EvidenceShown == Spec => []EvidenceWasShown
<1>1. TurnInv => EvidenceWasShown
  BY DEF TurnInv, ThreadInv, CourseInv, Shown, EvidenceWasShown
<1>. QED
  BY <1>1, TurnInvariance, PTL

\* What run_turn() publishes of a turn, ended or failed, is about that turn.
THEOREM TracesTruthful == Spec => []TraceIsTruthful
<1>1. TurnInv => FailureIsReported
  BY DEF TurnInv, ThreadInv, ReportInv, FailuresHaveHolders, FailureIsReported
<1>2. TurnInv => OutcomeFollowsDecision
  BY DEF TurnInv, ThreadInv, ReportInv, Follows, OutcomeFollowsDecision
<1>3. TurnInv => TraceIsTruthful
  BY <1>1, <1>2 DEF TraceIsTruthful
<1>. QED
  BY <1>3, TurnInvariance, PTL

-------------------------------------------------------------------------------
(* run_turn() implements the abstract turn *)

\* A step of one thread leaves what the others' turns look like.
LEMMA OneTurnMoves ==
  ASSUME TurnInv, NEW t \in Threads, NEW place, NEW h, NEW read, NEW next,
         at' = [at EXCEPT ![t] = place],
         handle' = [handle EXCEPT ![t] = h],
         base' = [base EXCEPT ![t] = read],
         TurnOf(t)' = next
  PROVE  Contract!Becomes(t, next)
<1>1. ASSUME NEW u \in Threads, u # t
      PROVE  TurnOf(u)' = TurnOf(u)
  BY <1>1 DEF TurnOf, TurnInv, TypeOK
<1>. QED
  BY <1>1 DEF Contract!Becomes

\* What the abstract turn of a thread is, place by place.
LEMMA TurnIs ==
  ASSUME NEW t \in Threads
  PROVE  [u \in Threads |-> TurnOf(u)][t] = TurnOf(t)
OBVIOUS

\* A step within the work is a stutter.
LEMMA WorkIsHidden ==
  ASSUME TurnInv, NEW t \in Threads,
         at[t] \in {"summarising", "running"},
         \E place \in {"running", "raised"} : at' = [at EXCEPT ![t] = place],
         UNCHANGED <<handle, base, ledgerVars>>
  PROVE  UNCHANGED Contract!contractVars
<1>1. ASSUME NEW u \in Threads
      PROVE  TurnOf(u)' = TurnOf(u)
  <2>1. CASE u = t
    BY <2>1 DEF TurnOf, TurnInv, TypeOK
  <2>2. CASE u # t
    BY <2>2 DEF TurnOf, TurnInv, TypeOK
  <2>. QED
    BY <2>1, <2>2
<1>. QED
  BY <1>1 DEF Contract!contractVars, Contract!ledgerVars, ledgerVars

\* A failed turn has left the ledger alone, whether it failed at its load or later.
LEMMA FailingGivesUp ==
  ASSUME TurnInv, NEW t \in Threads,
         \/ at[t] = "loading" /\ handle[t] \notin opened
         \/ at[t] \in {"summarising", "raised"},
         at' = [at EXCEPT ![t] = "idle"],
         UNCHANGED <<handle, base, ledgerVars>>
  PROVE  Contract!GiveUp(t)
<1>1. handle' = [handle EXCEPT ![t] = handle[t]] /\ base' = [base EXCEPT ![t] = base[t]]
  BY DEF TurnInv, TypeOK
<1>2. TurnOf(t)' = [phase |-> "idle"]
  BY DEF TurnOf, TurnInv, TypeOK
<1>3. Contract!Becomes(t, Contract!NoTurn)
  BY <1>1, <1>2, OneTurnMoves DEF Contract!NoTurn
<1>4. \/ TurnOf(t).phase = "called" /\ TurnOf(t).handle \notin opened
      \/ TurnOf(t).phase = "working"
  BY DEF TurnOf
<1>. QED
  BY <1>3, <1>4 DEF Contract!GiveUp, Contract!ledgerVars, ledgerVars

LEMMA CallIsCall ==
  ASSUME TurnInv, NEW t \in Threads, NEW h \in Handles, Call(t, h)
  PROVE  Contract!CallTurn(t, h)
<1>1. /\ at[t] = "idle" /\ at' = [at EXCEPT ![t] = "loading"]
      /\ handle' = [handle EXCEPT ![t] = h] /\ UNCHANGED <<base, ledgerVars>>
  BY DEF Call, Move
<1>2. base' = [base EXCEPT ![t] = base[t]]
  BY <1>1 DEF TurnInv, TypeOK
<1>3. TurnOf(t)' = [phase |-> "called", handle |-> h]
  BY <1>1 DEF TurnOf, TurnInv, TypeOK
<1>4. Contract!Becomes(t, Contract!Called(h))
  BY <1>1, <1>2, <1>3, OneTurnMoves DEF Contract!Called
<1>5. TurnOf(t).phase = "idle"
  BY <1>1 DEF TurnOf
<1>. QED
  BY <1>1, <1>4, <1>5 DEF Contract!CallTurn, Contract!ledgerVars, ledgerVars

LEMMA LoadIsRead ==
  ASSUME TurnInv, NEW t \in Threads, LoadHistory(t)
  PROVE  Contract!ReadHistory(t) \/ Contract!GiveUp(t)
<1>1. at[t] = "loading" /\ UNCHANGED <<handle, ledgerVars>>
  BY DEF LoadHistory, Move
<1>2. CASE handle[t] \in opened
  <2>. DEFINE read == history[handle[t]].count
  <2>1. at' = [at EXCEPT ![t] = "summarising"] /\ base' = [base EXCEPT ![t] = read]
    BY <1>2 DEF LoadHistory, Move
  <2>2. handle' = [handle EXCEPT ![t] = handle[t]]
    BY <1>1 DEF TurnInv, TypeOK
  <2>. HIDE DEF read
  <2>3. TurnOf(t)' = [phase |-> "working", handle |-> handle[t], read |-> read]
    BY <1>1, <2>1 DEF TurnOf, TurnInv, TypeOK
  <2>4. Contract!Becomes(t, Contract!Working(handle[t], read))
    BY <2>1, <2>2, <2>3, OneTurnMoves DEF Contract!Working
  <2>5. TurnOf(t).phase = "called" /\ TurnOf(t).handle = handle[t]
    BY <1>1 DEF TurnOf
  <2>. QED
    BY <1>1, <1>2, <2>4, <2>5 DEF Contract!ReadHistory, Contract!ledgerVars, ledgerVars, read
<1>3. CASE handle[t] \notin opened
  <2>1. at' = [at EXCEPT ![t] = "idle"] /\ UNCHANGED <<handle, base, ledgerVars>>
    BY <1>1, <1>3 DEF LoadHistory, Move
  <2>. QED
    BY <1>1, <1>3, <2>1, FailingGivesUp
<1>. QED
  BY <1>2, <1>3

LEMMA EndIsWorked ==
  ASSUME TurnInv, NEW t \in Threads, GraphEnds(t)
  PROVE  Contract!FinishWork(t)
<1>1. /\ at[t] = "running" /\ at' = [at EXCEPT ![t] = "committing"]
      /\ UNCHANGED <<handle, base, ledgerVars>>
  BY DEF GraphEnds, Move, callVars
<1>2. handle' = [handle EXCEPT ![t] = handle[t]] /\ base' = [base EXCEPT ![t] = base[t]]
  BY <1>1 DEF TurnInv, TypeOK
<1>3. TurnOf(t)' = [phase |-> "worked", handle |-> handle[t], read |-> base[t]]
  BY <1>1 DEF TurnOf, TurnInv, TypeOK
<1>4. Contract!Becomes(t, Contract!Worked(handle[t], base[t]))
  BY <1>1, <1>2, <1>3, OneTurnMoves DEF Contract!Worked
<1>5. /\ TurnOf(t).phase = "working"
      /\ TurnOf(t).handle = handle[t] /\ TurnOf(t).read = base[t]
  BY <1>1 DEF TurnOf
<1>. QED
  BY <1>1, <1>4, <1>5 DEF Contract!FinishWork, Contract!ledgerVars, ledgerVars

LEMMA CommitAsks ==
  ASSUME TurnInv, NEW t \in Threads, NEW size \in Sizes, Commit(t, size)
  PROVE  Contract!AskLedger(t, size)
<1>1. /\ at[t] = "committing" /\ at' = [at EXCEPT ![t] = "idle"]
      /\ UNCHANGED <<handle, base>>
  BY DEF Commit, Move, callVars
<1>2. handle' = [handle EXCEPT ![t] = handle[t]] /\ base' = [base EXCEPT ![t] = base[t]]
  BY <1>1 DEF TurnInv, TypeOK
<1>3. TurnOf(t)' = [phase |-> "idle"]
  BY <1>1 DEF TurnOf, TurnInv, TypeOK
<1>4. Contract!Becomes(t, Contract!NoTurn)
  BY <1>1, <1>2, <1>3, OneTurnMoves DEF Contract!NoTurn
<1>5. /\ TurnOf(t).phase = "worked"
      /\ TurnOf(t).handle = handle[t] /\ TurnOf(t).read = base[t]
  BY <1>1 DEF TurnOf
<1>6. IF Contract!Acceptable(handle[t], base[t] + 1, size)
        THEN Contract!AppendTurn(handle[t], base[t] + 1, size)
        ELSE UNCHANGED Contract!ledgerVars
  BY DEF Commit, Acceptable, AppendTurn, ledgerVars,
         Contract!Acceptable, Contract!AppendTurn, Contract!ledgerVars
<1>. QED
  BY <1>4, <1>5, <1>6 DEF Contract!AskLedger

LEMMA ThreadsMoveThreads ==
  ASSUME NEW h \in Handles, ThreadAction(h)
  PROVE  Contract!ThreadsMove
<1>1. UNCHANGED <<at, handle, base>>
  BY DEF ThreadAction, callVars
<1>2. [t \in Threads |-> TurnOf(t)]' = [t \in Threads |-> TurnOf(t)]
  BY <1>1 DEF TurnOf
<1>3. Contract!LedgerOpen(h) \/ Contract!LedgerClose(h)
  BY DEF ThreadAction, LedgerOpen, LedgerClose, Empty,
         Contract!LedgerOpen, Contract!LedgerClose, Contract!Empty
<1>. QED
  BY <1>2, <1>3 DEF Contract!ThreadsMove

LEMMA TurnImplements ==
  ASSUME TurnInv, [Next]_turnVars
  PROVE  [Contract!ContractNext]_(Contract!contractVars)
<1>1. ASSUME NEW t \in Threads, NEW h \in Handles, Call(t, h)
      PROVE  Contract!WorkerStep(t)
  BY <1>1, CallIsCall DEF Contract!WorkerStep
<1>2. ASSUME NEW t \in Threads, LoadHistory(t)
      PROVE  Contract!WorkerStep(t)
  BY <1>2, LoadIsRead DEF Contract!WorkerStep
<1>3. ASSUME NEW t \in Threads, SummariseAndBegin(t)
      PROVE  Contract!WorkerStep(t) \/ UNCHANGED Contract!contractVars
  <2>1. at[t] = "summarising" /\ UNCHANGED <<handle, base, ledgerVars>>
    BY <1>3 DEF SummariseAndBegin, Move
  <2>2. CASE handle[t] \in opened
    BY <1>3, <2>1, <2>2, WorkIsHidden DEF SummariseAndBegin, Move
  <2>3. CASE handle[t] \notin opened
    BY <1>3, <2>1, <2>3, FailingGivesUp DEF SummariseAndBegin, Move, Contract!WorkerStep
  <2>. QED
    BY <2>2, <2>3
<1>4. ASSUME NEW t \in Threads, NodeReturns(t)
      PROVE  UNCHANGED Contract!contractVars
  <2>1. at[t] = "running" /\ UNCHANGED <<at, handle, base, ledgerVars>>
    BY <1>4 DEF NodeReturns
  <2>2. at' = [at EXCEPT ![t] = "running"]
    BY <2>1 DEF TurnInv, TypeOK
  <2>. QED
    BY <2>1, <2>2, WorkIsHidden
<1>5. ASSUME NEW t \in Threads, NEW e \in Errors, NodeRaises(t, e)
      PROVE  UNCHANGED Contract!contractVars
  BY <1>5, WorkIsHidden DEF NodeRaises, Move
<1>6. ASSUME NEW t \in Threads, ConsumeFailure(t)
      PROVE  Contract!WorkerStep(t)
  BY <1>6, FailingGivesUp DEF ConsumeFailure, Move, Contract!WorkerStep
<1>7. ASSUME NEW t \in Threads, GraphEnds(t)
      PROVE  Contract!WorkerStep(t)
  BY <1>7, EndIsWorked DEF Contract!WorkerStep
<1>8. ASSUME NEW t \in Threads, NEW size \in Sizes, Commit(t, size)
      PROVE  Contract!WorkerStep(t)
  BY <1>8, CommitAsks DEF Contract!WorkerStep
<1>9. ASSUME NEW h \in Handles, ThreadAction(h)
      PROVE  Contract!ThreadsMove
  BY <1>9, ThreadsMoveThreads
<1>10. CASE UNCHANGED turnVars
  BY <1>10 DEF turnVars, callVars, ledgerVars, TurnOf, Contract!contractVars, Contract!ledgerVars
<1>. QED
  BY <1>1, <1>2, <1>3, <1>4, <1>5, <1>6, <1>7, <1>8, <1>9, <1>10
     DEF Next, TurnStep, Contract!ContractNext

\* run_turn() of the iterative runtime implements the same abstract turn (TurnsRefined):
\* a second decision and an inspection change nothing of what the ledger is asked.
THEOREM IterativeTurnRefines == Spec => TurnsRefined
<1>1. Init => Contract!ContractInit
  BY DEF Init, LedgerInit, Empty, TurnOf,
         Contract!ContractInit, Contract!LedgerInit, Contract!Empty, Contract!NoTurn
<1>2. TurnInv /\ [Next]_turnVars => [Contract!ContractNext]_(Contract!contractVars)
  BY TurnImplements
<1>. QED
  BY <1>1, <1>2, TurnInvariance, PTL DEF Spec, TurnsRefined, Contract!ContractSpec

-------------------------------------------------------------------------------
(* The ledger's limits, without a coordinator in front of it               *)

\* What a step may do to the ledger: a thread is opened or closed, or a turn that the
\* ledger accepts is appended.
LEMMA LedgerMoves ==
  ASSUME TurnInv, [Next]_turnVars
  PROVE  \/ UNCHANGED <<opened, history>>
         \/ \E h \in Handles : LedgerOpen(h) \/ LedgerClose(h)
         \/ \E h \in Handles, n \in Nat, size \in Sizes : AppendTurn(h, n, size)
<1>1. ASSUME NEW t \in Threads,
             \/ \E h \in Handles : Call(t, h)
             \/ \E e \in Errors : NodeRaises(t, e)
             \/ LoadHistory(t) \/ SummariseAndBegin(t) \/ NodeReturns(t) \/ ConsumeFailure(t) \/ GraphEnds(t)
      PROVE  UNCHANGED <<opened, history>>
  BY <1>1 DEF Call, NodeRaises, LoadHistory, SummariseAndBegin, NodeReturns, ConsumeFailure, GraphEnds, ledgerVars
<1>2. ASSUME NEW t \in Threads, NEW size \in Sizes, Commit(t, size)
      PROVE  \/ UNCHANGED <<opened, history>>
             \/ \E h \in Handles, n \in Nat : AppendTurn(h, n, size)
  <2>1. UNCHANGED ledgerVars \/ AppendTurn(handle[t], base[t] + 1, size)
    BY <1>2 DEF Commit
  <2>2. base[t] + 1 \in Nat
    BY DEF TurnInv, TypeOK
  <2>3. AppendTurn(handle[t], base[t] + 1, size) => handle[t] \in Handles
    BY DEF AppendTurn, Acceptable, TurnInv, TypeOK, LedgerTypeOK
  <2>. QED
    BY <2>1, <2>2, <2>3 DEF ledgerVars
<1>3. ASSUME NEW h \in Handles, ThreadAction(h)
      PROVE  LedgerOpen(h) \/ LedgerClose(h)
  BY <1>3 DEF ThreadAction
<1>4. CASE UNCHANGED turnVars
  BY <1>4 DEF turnVars, ledgerVars
<1>. QED
  BY <1>1, <1>2, <1>3, <1>4 DEF Next, TurnStep

LEMMA LimitsKept ==
  ASSUME TurnInv, WithinLimits, [Next]_turnVars
  PROVE  WithinLimits'
<1>. USE LedgerAssumption DEF LedgerAssumption, Empty
<1>1. opened \subseteq Handles /\ history \in [Handles -> [count: Nat, bytes: Nat]]
  BY DEF TurnInv, TypeOK, LedgerTypeOK
<1>2. CASE UNCHANGED <<opened, history>>
  BY <1>2 DEF WithinLimits
<1>3. ASSUME NEW h \in Handles, LedgerOpen(h)
      PROVE  WithinLimits'
  BY <1>1, <1>3 DEF LedgerOpen, WithinLimits
<1>4. ASSUME NEW h \in Handles, LedgerClose(h)
      PROVE  WithinLimits'
  BY <1>1, <1>4 DEF LedgerClose, WithinLimits
<1>5. ASSUME NEW h \in Handles, NEW n \in Nat, NEW size \in Sizes, AppendTurn(h, n, size)
      PROVE  WithinLimits'
  <2>1. /\ h \in opened /\ opened' = opened
        /\ history[h].count + 1 <= MaxTurns /\ history[h].bytes + size <= MaxBytes
        /\ history' = [history EXCEPT ![h] = [count |-> history[h].count + 1,
                                              bytes |-> history[h].bytes + size]]
    BY <1>5 DEF AppendTurn, Acceptable
  <2>2. ASSUME NEW g \in opened
        PROVE  history'[g].count <= MaxTurns /\ history'[g].bytes <= MaxBytes
    BY <1>1, <2>1 DEF WithinLimits
  <2>3. ASSUME NEW g \in Handles \ opened
        PROVE  history'[g] = Empty
    BY <1>1, <2>1 DEF WithinLimits
  <2>. QED
    BY <2>1, <2>2, <2>3 DEF WithinLimits
<1>. QED
  BY <1>2, <1>3, <1>4, <1>5, LedgerMoves

\* The iterative runtime, which has no coordinator, keeps the ledger's limits
\* (WithinLimits), however its threads, failures and closings interleave.
THEOREM IterativeTurnKeepsLimits == Spec => []WithinLimits
<1>1. Init => WithinLimits
  BY LedgerAssumption DEF Init, LedgerInit, WithinLimits, Empty, LedgerAssumption
<1>2. TurnInv /\ WithinLimits /\ [Next]_turnVars => WithinLimits'
  BY LimitsKept
<1>. QED
  BY <1>1, <1>2, TurnInvariance, PTL DEF Spec

===============================================================================
