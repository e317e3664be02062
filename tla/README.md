# Verification of technical-support-rag-agent

TLA+ models, TLC runs and TLAPS proofs for the parts of the technical-support RAG
agent that run concurrently or survive failures: the services that admit, run and
shut down requests while threads, an event loop and clients race with each other,
the processes that start them, the retrieval they share, and the one offline run
that is split over several processes. Paths below omit the common prefix
`src/src/ts_rag_agent/`; `application/primeqa_hybrid_` is written `app/…`.

## 1. The system

Most of the repository is offline: some four hundred stage protocols, validations,
comparisons and scripts that evaluate one variant each and write a report. They are
sequential and keep no state between steps. One of them, the sharded
history-isolation run, starts a process per shard and merges what they leave in
files; it is modelled. The online part has two service stacks, each started by a
composition root of its own.

    Stack A (single questions, four at a time)
      HTTP client -> HTTP transport -> worker thread -> request facade
                     (event loop)                        -> concurrent runtime
                                                            -> request-local retriever,
                                                               agent tool workflow
    Stack B (conversations, one whole turn at a time)
      HTTP client -> bounded dynamic transport -> service coordinator
                     (event loop)                 -> its one worker thread
                                                     -> bounded dynamic runtime
                                                        -> turn workflow
                                                        -> volatile thread ledger

| Component (source) | State | Operations | Correct means |
|---|---|---|---|
| Request facade (`app/…agent_request_facade.py`) | lifecycle state, in-flight count, ten counters, all under one Condition; last public event per context | `invoke`, `shutdown`, `wait_until_state` | calls enter only while accepting; CLOSED only over an empty facade; counts exact on every exit; nobody sleeps without a waker |
| Concurrent runtime and request-local retriever (`app/…concurrent_sidecar_agent_runtime.py`) | semaphore of 4, counters under another lock, token per context, shared table of pending profiles | `run`, `prepare_request`, `retrieve`, `take_run`, `discard_run` | permits conserved on every path; profiles stay with their request; nothing is left for the next call |
| Local HTTP transport (`app/…agent_http_transport.py`) | lifecycle state, semaphore of 4, counters under the admission lock, an executor | `start`, `answer`, `shutdown`, `state` | each request ends once with a truthful outcome; closed leaves nothing running; the inner limit is never hit |
| Bounded dynamic coordinator and transport (`app/…bounded_dynamic_agent_http_transport.py`) | lifecycle state, open handles, the active turn, counters, a one-thread executor | open, close, turn, `start`, `shutdown` | one whole turn at a time; a thread is never moved from under a turn; shutdown drains |
| Bounded dynamic runtime (`app/…bounded_dynamic_agent_runtime.py`) | workflow context per call; table of failure snapshots | `run_turn` (load, nine-node workflow, commit) | a turn is committed onto the history it was run on; the graph fits its policy; failures are reported as they happened and leave nothing |
| Volatile thread ledger (`app/…bounded_agent_state_protocol.py`) | turns of each open handle, under a lock | open, append, history, summary, close | limits hold; nothing outlives its thread |
| Bounded iterative runtime (`app/…bounded_iterative_agent_runtime.py`) | workflow context per call; table of failure snapshots | `run_turn` (load, twelve-node workflow with one optional inspection, commit) | the three tables of the graph agree; the answer is composed from what the model was shown; a trace tells of its own turn |
| Service entrypoints and activation (`app/…agent_service_entrypoint.py`, `app/…bounded_dynamic_agent_service_entrypoint.py`, `app/…concurrent_runtime_activation.py`, the two `main`s) | how far startup came; resource builds; listener; warm-up thread | `main`, `run`, `prepare`, `start` | nothing can be connected to before each gate passed; one terminal event, and a true one; what was opened is closed |
| Online candidate pool (`app/…online_candidate_pool_retriever.py`, `infrastructure/exact_top_k.py`) | none | `retrieve_profiled` (channels, prefix, fusion, pool) | the fast top-k equals the full sort; the deeper pool keeps the measured front |
| Sharded run (`app/…train_history_isolation_sharded_validation.py`, its protocol and script) | files of each shard, one process per shard | `execute`, `execute_stage165_shard`, merge | what is merged is one process's work, measured from one version of the sources |
| Agent tool workflow, decision routers | per-call graph state | fixed graph; prompt and parse | see section 6 |
| Answer composition, verification | none | pure functions | see section 6 |

### Interactions

- The transport's coroutine probes the facade's state (`state`), awaits the body,
  probes the connection, and then checks state, permit and submits in one section
  of the admission lock. Everything it read before that lock may be stale.
- A worker thread runs `facade.invoke()`, which calls `runtime.run()` without any
  lock held. Two limits of four are stacked, held and released in different orders.
- `shutdown()` of the transport drains the facade, then joins the executor. Both
  wait for workers; workers may still be about to enter the facade.
- The coordinator keeps open handles under its lock, the ledger keeps them again
  under its own. `run_turn()` reads the history, runs a model for seconds without a
  lock, and appends under the sequence number derived from what it read.

### What is hard here

Interleavings at every lock release; two locks for one fact (permit and count,
open handle and ledger entry); state read before an `await`; a submission that
raises after its item was queued; failure on each step of a call whose
`finally` must run exactly once; condition waits without timeout; concurrent
shutdowns; failures that cross from a node's copied context to its caller; processes
killed between two writes while others read the same files; a terminal event worked
out afterwards from an exit code. `PROJECT.json` lists each hazard with its line and
the properties that would catch it, and those no property covers yet.

## 2. Modules

| Module | Models | Remarks |
|---|---|---|
| `DrainGate` | nothing in particular: what a lifecycle gate promises | abstract specification implemented by two components |
| `TurnContract` | what a turn does to the ledger, with nothing of how it is worked out; EXTENDS `ThreadLedger` | abstract specification implemented by both runtimes and by the coordinated service |
| `RequestFacade` | the request facade | each critical section of the Condition is one action |
| `ConcurrentRuntime` | `run()` and the retriever | semaphore and counters are different steps, as in the code |
| `HttpTransport` | the transport composed with instances of the two modules above | inner steps are the inner modules' own actions under the guard the outer layer puts on them |
| `ThreadLedger` | the ledger | contents abstracted to counts and bytes |
| `TurnCoordinator` | coordinator, transport operations, `run_turn()`; EXTENDS `ThreadLedger` | the workflow is its two outcomes |
| `BoundedTurn` | `run_turn()` with the nodes of its graph, the policy, snapshots and traces; EXTENDS `ThreadLedger` | concurrent turns, no coordinator around them |
| `IterativeTurn` | `run_turn()` of the iterative runtime; EXTENDS `ThreadLedger` | two decisions, one optional inspection, evidence as sets of ranks |
| `CandidatePool` | the candidate pool of one query | every score is an initial state; the rest is determined |
| `ShardedRun` | the orchestrator, its processes, the files | several orchestrators on one directory |
| `ServiceEntrypoints` | both composition roots, on one port | Uvicorn is external |
| `MC*` | constants and symmetry for TLC | each `.cfg` is one question |
| `*Proofs` | theorems; `ProcessProofs` those of `ShardedRun` and `ServiceEntrypoints` | see section 5 |

Operators whose comment starts with "Seeded fault:" are not part of any
specification. Each is the form an action would take under a plausible bug (a
dropped guard, a forgotten `notify_all()`, a leak on one path). `PROJECT.json`
pairs each property with the fault that must break it, so every property is known
to be able to fail.

### How the models read the code

`RequestFacade`. `state`, `current_in_flight`, `max_observed_in_flight` and `count`
are the fields; `pc` says where a caller stands between two critical sections.
`Begin`, `RejectInvalid`, `RejectLifecycle`, `Admit`, `CancelBeforeDispatch`,
`Dispatch`, the three runtime outcomes and `Leave` are the sections of `invoke()`;
`Leave` is the `finally` block. `parked` is the set of threads inside
`Condition.wait()`; `NotifyAll` empties it. A woken closer or watcher re-takes the
lock in its own `Resume…` action and looks again. A watcher whose state has been
passed raises, as the code does.

`ConcurrentRuntime`. `permits` is the semaphore's value and `in_flight` the count
under the other lock; `AcquirePermit`, `CountAdmission`, `LeaveFlight` and
`ReleasePermit` are separate steps, so the two disagree in between. `token` is the
context variable of each thread, `pending` the shared dictionary. `object()`
identities are `Tokens`; a token that nobody holds any more may be handed out
again. A profile is the question it was retrieved for.

`HttpTransport`. `co` is where a request's coroutine stands between two awaits; code
between awaits is one action, except that `state` and the admission lock are taken
against other threads and therefore are steps of their own. Reading the body and
the disconnect probe touch only the coroutine, so `ReadBody` covers both and picks
the outcome. `work` is the item in the executor. `SubmitFails` is `run_in_executor()`
raising `RuntimeError`: CPython's pool raises when it cannot start a thread, after
the item is queued, so an existing worker may still run it (`orphan`). `StopFacade`
drives the facade's own `Shutdown`/`ResumeShutdown`.

`TurnCoordinator`. `active` holds the admission token's handle, `asked` what the
worker was handed; `StartTurn` compares them as `run_admitted_turn()` does. `Commit`
appends under the number after the loaded `snapshot`; whatever the ledger objects
to becomes `thread_state_limit_exceeded`. `executor` distinguishes a pool without a
thread from one with: a submission that fails to start the only thread leaves an
item that the next submission's thread will meet.

`BoundedTurn`. `Policy` and `Edge` are the two tables the code keeps: the frozen
transitions, and the edges `_compile()` adds. `graph` is the private state LangGraph
passes from node to node, `snapshot` the context variable `_last_snapshot` in the
*caller's* context, `failures` the table keyed by exception. LangGraph itself is
external: as the repository documents of it
(`docs/primeqa_hybrid_agent_tool_workflow_validation.md:98`), a node runs in a copy of
the caller's context, so what a handler writes to `_last_snapshot` ends with the
node. Hence `NodeReturns` leaves `snapshot` alone, and `Left` is what a failing node
finds in its copy: the counts its own handler just recorded, or what `begin()` wrote
before the graph. One node is one step, because between its steps a node touches
only private state; the shared table is reached once, under its lock, in `NodeRaises`.
Exceptions that propagate at the same time are different objects. Failures of the
graph machinery between nodes are not modelled. `LoadHistory` and `LoadSummary` are
two looks at the ledger with the lock released in between. `Needs`, `WithinBudget`
and `Allowed` are the handlers' own checks; `Fits` says that a node passes them.

`IterativeTurn` is read like `BoundedTurn`, from which it differs where the code does.
The policy has eighteen states and writes a state as a name and a decision. `begin()`
overwrites what the context still holds instead of refusing it, and no handler
records counts before it raises: a failing node finds what `begin()` wrote, so that a
failed turn is traced with the initial state, all counts zero, and a stage of its own.
Evidence is the set of ranks: `Prepare` selects the answer context from the prefix,
`Inspect` adds the alternate rows and keeps the first ones, and a decision records what
it was shown. A selector or an inspector that finds too few rows raises (`Ready`).

`CandidatePool`. `SearchChannel` runs one channel to both depths, `Fuse` fuses the deep
and the prefix lists and concatenates. `ExactTopK` is the partition of
`exact_top_k_indices()`, `FullSortTopK` the sort it replaced; a document is its row,
ids order ties where the channel sorts by id. A sorted list has each row at the place
that counts the rows before it (`InOrder`), which says what sorting gives without
saying how. Fusion compares sums of `weight / (rrf_k + rank)` exactly, in units of
`1 / Scale` for a common multiple `Scale`: that the code's floats could round two
different sums to a tie, or order equal ones, is not modelled.

`ShardedRun`. A line is the process and turn it was measured for, a hash is what it was
computed from. `LoadReport`, `LoadRows` and `AcceptShard` are the orchestrator's three
looks at the two files; the process's own load and hash are two more. A write that fails
leaves a piece of a line (`TearTurn`), a report is emptied before it is written
(`TruncateReport`), both kinds of process may die anywhere, and a process goes on
without its orchestrator. The only race in which an orchestrator merges lines of
another's process is that of two that both pass the empty-directory check; it is in the
model, and what is merged is still one process's work.

`ServiceEntrypoints`. `did` is what a process really did, which the code records nowhere;
`state` is what the local root keeps for its event, `StartupProgress` what the bounded
one works out from its exit code. Its specification is `EntrypointSpec`, so that one
module of proofs can extend it and `ShardedRun`. Each gate passes or refuses, with the code the root
gives it. Where the code has no `try`, a gate may also raise (`Uncaught`): neither `run()`
nor `main()` catches that, and the process ends with a traceback and no event. These are
the settings in either `main()`, where only pydantic's validation error is caught, and
the making of the local root; the decisions on the Stage 150 and Stage 154
artifacts, which walk untyped JSON (`app/…agent_service_entrypoint.py:418`, 462); the
bounded root's source authorization, when its report is replaced between parsing and
fingerprinting; and the creation of its runtime
(`app/…bounded_dynamic_agent_service_entrypoint.py:323`), whose `run()` catches the
startup error alone (375). `Interrupt` is Ctrl-C during any step before the server runs,
which ends either root without an event too; one instant is left out: between the
creation of the local listener (`app/…agent_service_entrypoint.py:568`) and the `try`
that closes it (579). `EndsOnce` says exactly which ends are silent; the local protocol's
`"exactly_one_terminal_event"` promises more (section 4, item 4).

### Abstractions

Text, latency, trace fields, payload layout and HTTP statuses are left out; an
outcome code is a string of the code's own. The runtime and the workflow either
return or raise. Log sinks and payload conversion are assumed not to raise
(the sinks shipped write one log line). The transport's largest observed in-flight
number is dropped: nothing reads it back. Branches the code guards but cannot reach
(an accepting transport without executor) are left out. In the composed model a
request asks its own question and names its own token. A capacity rejection's event
carries an in-flight number read later under another lock (`app/…concurrent_sidecar_agent_runtime.py:274`);
nothing acts on it and it is left out.

## 3. Runs

| Run | Question | Instance |
|---|---|---|
| `facade` | Are the counts exact, is every sleeper woken, is the facade a drain gate, do drains end? | 2 callers, 2 closers, 1 watcher, 3 calls; fair |
| `runtime` | Are permits, counts and profiles right through each failure? | 3 threads, 2 permits, 2 questions, 3 tokens, 4 calls |
| `transport` | Is what the client is told what the three layers did, is the inner limit never hit, does everything end? | 2 requests, 1 permit, 2 stoppers, 1 failed submission; fair |
| `finding_drain` | Is an admitted request completed when shutdown begins? | 2 requests, 1 permit, 1 stopper; violated |
| `finding_disconnect` | Does a known disconnect never get a frame? | 2 requests, 1 permit, 1 stopper; violated |
| `coordinator` | Is a turn committed onto the history it was run on, with one slot, two locks and a drain, and does everything end? | 2 clients, 2 stoppers, 2 handles, size 2, limits 2 turns and 3 bytes, 2 admissions, 1 rejection, 1 failed submission; fair |
| `bounded_turn` | Do the graph and its policy fit, is each turn reported as it went, is nothing left behind, does a turn ask the ledger once, for what it read? | 2 threads, 2 exceptions, 1 handle, limits 1 turn and 2 bytes, 3 calls |
| `finding_trace` | Does the trace of a failed turn count its retrieval? | 1 thread, 1 exception, 1 call; violated |
| `iterative_turn` | The same of the iterative graph, and is the answer composed from what was shown? | 2 threads, 2 exceptions, 1 handle, pool 4, prefix 3, contexts 1, 2 and 3, 2 calls |
| `candidate_pool` | Is the fast top-k the full sort, and does the deep pool keep the baseline's front? | 4 documents, scores 0 to 2, a lexical, a derived and a dense channel, depths 3, 2 and 3 |
| `sharded_run` | Is what is merged one process's work from one version of the sources? | 2 orchestrators, shards of 2 and 1 turns, 1 edit |
| `entrypoints` | Is the terminal event true and missing in known cases only, is nothing open before it is ready, is everything closed? | both services, every gate, every ending |

### Properties

- `CountsAreExact` (`InFlightIsInside` and `CountersBalance`): the number `shutdown()` waits on is the
  number of admitted calls that have not run `finally`, and the counters add up at
  each boundary in every interleaving, not only when quiet.
- `SleepersHaveAWaker`: a closer sleeps only while a call is in flight, a watcher
  only while its state is ahead. Without it a missing `notify_all()` shows up only
  as a hang.
- `GateRefined` (facade, coordinator): implements `DrainGate`: work enters only an
  open gate, the gate shuts one way, it closes over an empty room.
- `DrainCompletes`, `WatchersReleased`: the liveness side of the same.
- `AdmissionIsExact` (`PermitsConserved` and `InFlightBounded`), `TalliesBalance`: no permit leaks on any
  of the ways `run()` ends, and the count under the other lock stays within it.
- `ProfileIsOwn`, `NothingLeftBehind`: profiles never cross contexts, and a context
  that served a failed call can serve the next.
- `TransportBooks`, `ClosedMeansStopped`, `ResponsesAreTruthful` (`AnswersAreEarned`
  and `PromisesKeptUntilShutdown`): the outer counts
  agree with the coroutines; closed leaves no worker and no permit out; an answer
  comes from a completed run for that request, a refusal never ran. Before a shutdown
  begins, no layer turns a request away because of a drain and a known disconnect gets
  no answer: that needs the order of `shutdown()`, in which the transport refuses first
  and the facade drains after that.
- `RuntimeNeverSaturated`: of the two stacked limits only the outer one is met.
- `HistoryIsStable`: from the load of the history to the append nobody else runs,
  closes or reopens the thread, although no lock is held across the workflow; an item
  whose admission was cancelled never runs (`CancelledNeverRuns`).
- `TurnsRefined`: implements `TurnContract`: a turn reads the thread it was called on,
  leaves the ledger alone while it works, and then gives up or asks it, once, to append
  under the number after what it read. A number taken when the turn commits would put
  the turn onto a history it never saw (the seeded fault `CommitRenumbered`). A thread
  that was closed and opened again may have a history of the same length: the contract
  lets the turn onto it, as the code does, and `HistoryIsStable` says that the
  coordinator never lets it come to that.
- `GraphFitsPolicy`: whichever way the model decides, no node meets a missing result,
  a spent budget or a transition the policy refuses. A path only a rare decision
  takes would fail only then.
- `FailuresAreReported` (`StageIsReported` and `ToolFailuresAreCounted`),
  `SnapshotsAreConsumed`: a failure is
  traced under its node, with its calls, for its own thread although the node's
  context is gone; neither the context nor the table keeps anything, so that
  `begin()` never refuses the next turn of the one worker thread.
- `OutcomeIsEarned`: what the ledger retains (read off the answer) and what the trace
  says (read off the graph) agree, and each step of an answer was done once.
- `IterativeGraphFits`, `EvidenceWasShown`, `TraceIsTruthful`: nodes, edges and policy of
  the iterative graph agree for pools of every size; the answer, its verification and
  what the model saw when it last decided are one evidence; the committed outcome
  follows from the last decision.
- `ExactTopKIsFullSort`, `PrefixIsBaseline`, `PoolIsFull`: for all ties, at each depth.
  The front of the pool is the baseline that was measured, which the derived channel
  keeps only because it searches again from its source's prefix. That baseline is the
  fusion of the channels searched `prefix_depth` deep. The offline builder the pools are
  compared with cuts every route's deep result instead, the derived one's included
  (`app/…first_stage_recall_expansion_validation.py:759`), so for that channel the two
  may differ; the performance validation counts such pools
  (`app/…online_candidate_pool_performance_validation.py:435`), and the builder is not
  modelled.
- `MergedIsOneProcess`, `FailureIsFinal`, `SourcesAreOne`: whatever is killed, torn,
  rerun or edited. `SourcesAreOne` needs that no edit is taken back (`Restores` is
  FALSE): the fingerprints compare two moments, and an edit that is undone between
  them escapes, in the code as in the model.
- `EventsAreTruthful`, `NothingServesEarly`: the event denies nothing that was done and
  claims nothing that was not, on any path and at any Ctrl-C.
- `EndsOnce`: one event at most, at the end, and which ends have none: Ctrl-C, the bounded
  `main()`'s refusals, and an exception outside every `try`. The last is bounded: once
  Stage 154 is authorized the local root reports whatever is raised, and so does the
  bounded root once it is warm (the seeded fault `ComposeUncaught` takes one `try` away).
- `HandlesAgree`, `TurnsBalance`, `CloseIsClean`,
  `WithinLimits`, `TurnsEnd`, `ShutdownEnds`, `RequestsEnd`: as commented in the modules.

### Bounds

Every bound is a named constant: `MaxInvocations`, `MaxAttempts`, `MaxSubmitFailures`,
`MaxAdmissions`, `MaxRejections`, `MaxRuns`, `MaxEdits` cap counters that grow without limit in
the code; none of them restricts what a call may do.

The facade's two callers and three calls give one call leaving and another arriving
while a closer waits, and a caller that comes back; two closers are the fewest where
one finishes under the other. The runtime's three threads for two permits meet a full
semaphore and a thread that reuses its context, and four calls let a thread come back
after a failure. The composed transport has one worker, so that its second request
queues behind the first while a shutdown begins; parallel calls through one transport
are covered by the proofs of section 5, which are for every number of requests and
permits, as three requests over two permits under fairness took too long to be
run often. Two clients and two handles are enough for a slot that is taken by another
thread's turn; turns of two bytes meet a limit of three bytes at the second one. Two turns
that fail at once need two threads and two exceptions, a third call reuses a context that
failed, and a limit of one turn is reached by the second. The iterative pool of up to
four rows over a prefix of three falls short of each context in turn. Four documents
with three scores tie at every boundary of depths two and three; more than the depth
matters only beyond it. Two orchestrators and two shards have every race of the
directory, of a file of their own shard and of an edit before, in and after a shard;
a second turn gives a file that is half written.

Symmetry (threads, tokens, orchestrators) is used in runs of safety properties only
(`TurnsRefined` is one: an initial condition and a relation of steps).
`CHECK_DEADLOCK FALSE`, because the systems may stop: a closed service, an ended
process, or a service whose bounded clients have all been served, has nothing left to do.

### Fairness

A thread inside a call keeps running, the event loop runs ready callbacks, a worker
takes a queued item, and a shutdown that has begun goes on: weak fairness for each,
which is what the operating system's scheduler gives a thread that is not blocked.
Nobody is obliged to call `invoke()`, `shutdown()`, to open a thread or to send a
request. `runtime.run()` and the turn workflow have no timeout in the code: fairness
assumes they return or raise. A body is read to its end, its error or the
disconnect. No strong fairness is used anywhere.

## 4. Disagreements between documents and code

The first two concern `docs/primeqa_hybrid_agent_http_transport_validation.md` and
need a `shutdown()` that starts while a request is between submission and the
worker's entry into the facade.

1. Lines 37-38 say that shutdown "waits naturally for in-flight requests to
   complete". The transport counts a request in flight at submission
   (`app/…agent_http_transport.py:407-415`); the facade admits it only on the worker
   (316-346 of `app/…agent_request_facade.py`). In between, shutdown finds the facade
   empty and takes it from accepting to closed in one hold of the condition (434-443),
   and the admitted request is answered 503 `facade_closed` (329-340; `finding_drain`).
   With more permits another call may be inside and keep the facade draining; the refusal
   is then `facade_draining`.
2. Lines 105-107 say that a known disconnect "produces no ASGI response frame". The
   facade checks its lifecycle before the signal, so the same window turns a known
   disconnect into a 503 frame, `facade_closed` again, and an error count
   (`finding_disconnect`).

   Under Uvicorn the lifespan shutdown runs after the connections have ended, so this
   window opens for a direct `transport.shutdown()`, the way the tests call it.
   Nothing else breaks either promise: both hold until a shutdown begins
   (`PromisesKeptUntilShutdown`, a part of `ResponsesAreTruthful`, and proved for any number of
   requests and permits), but for a request whose submission the executor refuses.
3. The trace of a failed turn is to count what was called
   (`tests/test_primeqa_hybrid_bounded_dynamic_agent_runtime.py:267`: "assert
   trace.retrieval_call_count == 1"). `execute()` prefers `_last_snapshot` to the node's
   own state (`app/…bounded_dynamic_agent_runtime.py:291`); in the node's copied context
   that is what `begin()` wrote, unless the handler recorded its counts. A turn that
   fails in `prepare_context` is therefore traced with no retrieval (`finding_trace`).
4. The local service's protocol promises `"exactly_one_terminal_event"`
   (`app/…agent_service_entrypoint_protocol.py:672`, asserted by
   `tests/test_primeqa_hybrid_agent_service_entrypoint_protocol.py:215`). The root loads
   the Stage 150 artifact inside a `try` and decides on it after it
   (`app/…agent_service_entrypoint.py:418`): a guard row or a decision that is not an
   object raises there, nothing catches it, and the process ends with a traceback and no
   event. The decision on Stage 154 (462) has the same path. This one has no run of its
   own: it is an alternative of `AuthorizeStage150` and `AuthorizeStage154` which
   `entrypoints` explores, and `EndsOnce` is the promise that remains.

## 5. Proofs

All for every value of the constants, from the modules' assumptions (finite sets of
threads, capacities in the naturals, distinguished values outside their sets).

| Theorem | States |
|---|---|
| `RequestFacadeProofs!TypeCorrect`, `CountsExact`, `NoLostWakeup` | the safety properties of `facade` |
| `RequestFacadeProofs!Refinement` | the facade implements `DrainGate` |
| `ConcurrentRuntimeProofs!RuntimeTypes`, `AdmissionExact`, `TalliesCorrect` | admission |
| `ConcurrentRuntimeProofs!ProfilesIsolated`, `CallsCleanUp` | the retriever |
| `HttpTransportProofs!FacadeKept`, `RuntimeKept` | the composition implements both components |
| `HttpTransportProofs!BooksBalance`, `NeverSaturated`, `ClosedIsStopped`, `ResponsesEarned`, `PromisesKept` | the safety properties of `transport` |
| `TurnCoordinatorProofs!LimitsHold` | the ledger's limits, of the ledger alone |
| `TurnCoordinatorProofs!HandlesOfBothAgree`, `HistoriesStay`, `TurnsCounted`, `ClosesClean`, `CoordinatorKeepsLimits` | the safety properties of `coordinator` |
| `TurnCoordinatorProofs!CoordinatorRefinesGate` | the coordinator implements `DrainGate` |
| `BoundedTurnProofs!BoundedTurnRefines`, `IterativeTurnProofs!IterativeTurnRefines`, `TurnCoordinatorProofs!CoordinatorRefinesTurns` | both runtimes and the service implement `TurnContract` |
| `BoundedTurnProofs!TurnTypes`, `GraphFits`, `FailuresReported`, `FailuresConsumed`, `OutcomesEarned` | the invariants of `bounded_turn` |
| `IterativeTurnProofs!IterativeTypes`, `IterativeFits`, `EvidenceShown`, `TracesTruthful` | all properties of `iterative_turn` |
| `CandidatePoolProofs!TopKExact`, `PrefixKept`, `PoolComplete` | all properties of `candidate_pool` |
| `ProcessProofs!FailureEndsRun`, `MergedFromOneProcess`, `OneVersionMeasured` | all properties of `sharded_run` |
| `ProcessProofs!EventsTruthful`, `ServesInTime`, `EndsAreSingle` | all properties of `entrypoints` |
| `BoundedTurnProofs!BoundedTurnKeepsLimits`, `IterativeTurnProofs!IterativeTurnKeepsLimits` | the ledger's limits, of either runtime without a coordinator |

*Facade.* The inductive invariant (`Invariance`) joins the types, the equality of the
count with the cardinality of `Inside`, and that no call is inside once closed. None
is inductive alone: `shutdown()` tests the count, so that closed means quiet needs
the equality; the equality needs that a count of zero means an empty set, and every
step that moves a caller changes one cardinality by one (`OneMember`, in each module
that counts). The refinement then maps each action to a step of the gate or a
stutter; `ResumeShutdown` is the gate's `FinishClosing` exactly because the
invariant turns a zero count into an empty room.

*Runtime.* Two separate arguments. Admission (`AdmissionInv`): types, that a call on the
way to `take_run()` holds a token (without it the table lookup has no type),
conservation of permits and the bounded count. `in_flight <= MaxInFlight` is not
inductive: it follows because the counted calls are a subset of those that hold a
permit, and those are at most `MaxInFlight` by conservation. Isolation
(`RetrieverInv`): a profile is its owner's, nothing is left behind, tokens are
distinct, and what is pending under a token is the question of its holder. The last
two are the strengthening: without them `take_run()` could hand over a profile that
another context stored.

*Transport.* First that each step of the composition is a step of the facade and of the
runtime, or leaves them alone: what was proved of the two components is then known of
their instances (`Inherited`), and the rest of the argument need not look inside them.
`Inv` adds the outer layer: the books, that no more workers run than there are permits,
`OnCourse` (where a request's coroutine, its item, its call of the facade, its call of the
runtime and its answer stand together) and `Life` (how far a shutdown got). That the
inner limit is never met is the least obvious: a call that asks for a runtime permit is
a worker that holds none, the holders are workers too, workers are at most
`MaxInFlight`, so one permit is free. An answer is earned because the facade's event is
about its own runtime call, and the retriever's isolation says whose profile that was. `PromisesKept`
needs an invariant of its own, `Quiet`: while the transport accepts, the facade does,
since a stopper changes the transport's state first; so no worker is refused, and a
signal set before the submission is found where the facade looks for it (`Undisturbed`).

*Ledger.* `LedgerInv` is types and limits; the reopened handle is the case that needs
the second half of `WithinLimits`. Three compositions keep the limits: the coordinated
service and both runtimes on their own. Each time what is shown is that a step of the
composition is a ledger operation or leaves the ledger alone (`LedgerMoves`), so that
no path writes to a history around the ledger's checks.

*Coordinator.* `Inv` adds to the types: `Slot` (the slot has one holder, only its turn is on
the worker, it was handed the handle it was admitted for, an orphan never holds it),
`Life` (a turn needs a running executor, which a joined executor no longer is), the
stable `History`, and `Balance` (the admissions that are neither counted nor held are the
failed submissions). Each property is a consequence; none is inductive alone, since
the history is stable only because `close_thread()` looks at the slot, and the slot only
because the admission token is compared on the worker. Every step of the coordinator is
also a step of the ledger, which gives the limits.

*Turn.* None of the properties is inductive. `TurnInv` adds, per thread, `OnCourse`:
when a node is next, the state is the one it is entered in, exactly the nodes
`Before` it are done, and exactly those are counted (`CourseAdvances` shows that each
node hands it on, by the two tables). From it follow that the budget is never what
a handler trips over, so that a failed tool's counts are those of its node
(`LeftIsStored`), and that an end is earned. `ContextInv` says what the caller's
context holds, `FailureInv` what is stored for the exception on its way, and
`DistinctErrors` that nobody else consumes it; `OthersKeep` is the frame every
action of another thread needs.

*Iterative turn.* `TurnInv` is built like `BoundedTurn`'s; what differs is the graph. After
the optional inspection the course of the remaining nodes depends on one bit of the
past, `Wide`, which the state still shows: `Entered`, `Before` and `Asking` take it as
a parameter, and one table serves both branches. `Evidence` is the part of `OnCourse`
that `EvidenceWasShown` needs: what a decision was shown is the prefix, plus the
alternate ranks once inspected, and stays so until the answer is composed. A turn
keeps its trace when it raises because its exception is its own (`DistinctErrors`,
`FailuresHaveHolders`). The assumption that prefix and alternate depth do not pass
the verification depth is what the three literals of the code satisfy; without it an
answer could cite a rank that the verifier cannot look up.

*Turn contract.* One abstract turn, three implementations. In the runtimes a thread's
turn is `called` while it loads, `working` from the second look at the ledger to the
end or the failure of the graph, and `worked` while it commits: so the nodes are
stutters (`WorkIsHidden`), and every way of failing is one abstract step
(`FailingGivesUp`). In the service a turn exists from the moment the worker takes its
item up until the ledger has answered; admission, counters, slot and reply are around
it (`AroundIsHidden`). Types are all the runtimes need of their invariants; the service
needs of its own that a queued item names a thread. The run checks the mapping of
`BoundedTurn`; the other two are established by their theorems.

*Candidate pool.* The state's part of the argument is short: a channel that ran holds, at
both depths, what it finds alone (`Searched`), a derived one because its source is
independent and ran before. The rest is about lists. `InOrderLists`: the number of rows
ahead grows along a total order, so it is injective into as many numbers as there are
rows, so every place is taken once; nothing is proved by induction on a list. From it
`TopRows`: the first k are the rows with fewer than k ahead. `ExactIsFullSort`: the k-th
largest score exists because the k-th row has it, and what reaches it is closed under
being ahead, so that its rows keep their places (`ClosedIsEnough`). `DerivedWithin` is
what `PoolIsFull` needs and a reader would doubt: the prefix comes from a search over
other candidates with other scores than the deep one. A row only the boost brings keeps
its score; in the deep search the rows ahead of it are those ahead in the prefix
search, fewer than `prefix_depth`, and those the source added, at most
`channel_top_k - prefix_depth`, or none if the source had no more. The sum of shares is a
recursive function; that it is a number is proved by its least counterexample. Assumed
are the checks of the configuration and, as both places that build the channels do, that
a derived channel's source is not derived itself.

*Sharded run.* Four layers, each inductive over those before it. `Types`. `Order`: how far an
orchestrator is agrees with the ends of the processes it started; `FailureIsFinal` is a
part of it. `Content`: a report with passed guards was written for rows that are its
author's own, whoever wrote to the file since, and the rows an orchestrator accepts are
those of the report it read, whose hash of them it compares. `Versions`: who authored a
report was started by somebody who had fingerprinted before, in an empty directory, so
nobody imported an older version than the orchestrator's fingerprint; with the
second fingerprint equal and versions only growing (the hypothesis `~Restores` of
`OneVersionMeasured`), nobody imported a later one.

*Service entrypoints.* A root is a sequence of gates, and what may be said of it at the
end depends on how far it came. `RootsInv` says how far that is: two tables,
`LocalDid` and `BoundedDid`, give for each step what was completed before it;
`StateSays` is what the local root's execution state claims of that, field by field;
`Doors` is whose listener and warm-up thread may be open. Both roots need their table at
the end, where it is no longer visible which step they left from: the bounded root works
its progress out of the exit code alone, so each code has to belong to one row of the
table (`ProgressOfCodes`); the local root tells a rejected start from a failed build by the
number of builds, so the invariant carries that number through the steps that can
raise. The server is the other hard place: a server that returned may never have
started, which is why an ended root is on one of two rows. An interrupt may fall on
every step, and an exception outside every `try` on six of them: `Unguarded` keeps, for an
end without an event, that neither the last such gate of the local root nor the warm-up of
the bounded one was passed, which is what `EndsOnce` states. There is no constant to generalise here and the run is exhaustive; what the
proof adds is the argument, step by step, and which gate each claim of an event rests on.

Only model-checked, because TLAPS reaches neither fairness nor ENABLED: the liveness
properties `DrainCompletes`, `WatchersReleased`, `RequestsEnd`, `TurnsEnd` and the two
`ShutdownEnds`. Every safety property that a passing run checks is proved. The three
findings stay with TLC: they are behaviours, and a counterexample is what shows them.

## 6. Not modelled

Of the modelled components: body parsing, health routes, framework error handlers and
the app factories, which read state and write log lines. A log sink that raises
(`app/…agent_http_transport.py:464` would turn a finished answer into an error): the
sinks shipped write one line. Cancellation of an answering asyncio task: the server does
not cancel on its own, and the `finally` would then return a permit under a running
worker. Failures of the graph library between nodes.
The iterative runtime has no coordinator in the code: a thread that is closed and
opened again while a turn runs on it can take the turn of the old conversation. The
model has these interleavings, and `TurnContract` allows them; `HistoryIsStable` is
about the bounded dynamic service, whose coordinator prevents them.

Whole components:

- The agent tool workflow and its observation sink: `ConcurrentRuntime` has its two
  outcomes. A fixed graph without decisions; it comes next if the project grows.
- Model prompts, token budgets and strict parsing in the decision routers; answer
  composition and verification heuristics; BM25 weights, embeddings and their cache
  (`infrastructure/dense_embedding_cache.py:24` accepts a cache by names and ids, a
  text that changed under its id keeps its old embedding): text and floating-point
  numbers, of which only the outcome matters to the parts modelled.
- The optional sidecar runtime: superseded by the concurrent runtime, kept for comparison.
- The offline stages: about four hundred and forty of the implementation's files.
  Each reads its inputs, computes and writes a report once, in order, in one process.
  They have no state between steps whose invariants could be wrong, so that the part of
  the repository's lines that models of it can cover is small, and stays small however
  much is modelled of what does have such state.

## 7. Plan

Done: all modules of section 2, their runs, the proofs of every safety property the
runs check, and both abstract specifications.

Next, in order:

1. Task cancellation and a raising log sink in `HttpTransport`, as faults with a
   constant of their own and the properties they weaken stated.
2. `AgentToolWorkflow` with its observation sink, as a third graph beside the two turns.
