----------------------------- MODULE HttpTransport -----------------------------
(***************************************************************************)
(* PrimeQAHybridAgentHttpTransport over the facade and the concurrent      *)
(* runtime it drives.  answer() runs on one event loop and gives way only  *)
(* where it awaits; the admitted call runs on a worker thread through      *)
(* RequestFacade and ConcurrentRuntime; shutdown() runs on threads of its  *)
(* own.  Every step of the two inner components is their own action, taken *)
(* here under the condition the layer above puts on it.                    *)
(***************************************************************************)
EXTENDS Integers, FiniteSets

CONSTANTS
  Requests,           \* the HTTP requests that arrive
  Stoppers,           \* threads that call shutdown()
  MaxInFlight,        \* _MAX_IN_FLIGHT: admission permits, workers, runtime permits
  MaxSubmitFailures,  \* bound: submissions on which the executor raises RuntimeError
  NoToken, NoRun      \* None, for the retriever

ASSUME TransportAssumption ==
  /\ IsFiniteSet(Requests)
  /\ MaxInFlight \in Nat \ {0}
  /\ MaxSubmitFailures \in Nat
  /\ NoToken \notin Requests
  /\ NoRun \notin Requests

VARIABLES
  \* the transport
  config,      \* what the settings and the bootstrap allow; never changes
  starter,     \* where start() is
  tstate,      \* _state
  attached,    \* _facade and _executor are set
  tpermits,    \* value of the _admission semaphore
  tin_flight,  \* _current_in_flight
  tcount,      \* the other counters, by name
  co,          \* where the coroutine of each request is inside answer()
  cancelled,   \* the request's cancellation signal
  response,    \* the outcome code of each request
  orphan,      \* requests whose submission raised after they were queued
  work,        \* each request's item in the executor
  pool,        \* the executor: "open" or "shut"
  stopper,     \* where each stopper is inside shutdown()
  \* the facade
  fstate, fin_flight, fmax, fcount, fpc, fevent, fcloser, fwatcher, ftarget, fparked,
  \* the runtime
  rpermits, rin_flight, rmax, rtally, rat, rquestion, rresult, rtoken, rpending, rprofile

Facade == INSTANCE RequestFacade WITH
  Callers <- Requests, Closers <- Stoppers, Watchers <- {},
  MaxInvocations <- Cardinality(Requests),
  state <- fstate, current_in_flight <- fin_flight, max_observed_in_flight <- fmax,
  count <- fcount, pc <- fpc, event <- fevent, closer <- fcloser,
  watcher <- fwatcher, target <- ftarget, parked <- fparked

\* A request asks one question and its thread's context starts clean; which
\* fresh token it gets is immaterial, so the request names it.
Runtime == INSTANCE ConcurrentRuntime WITH
  Threads <- Requests, Questions <- Requests, Tokens <- Requests,
  MaxAttempts <- Cardinality(Requests),
  permits <- rpermits, in_flight <- rin_flight, max_in_flight <- rmax, tally <- rtally,
  at <- rat, question <- rquestion, result <- rresult, token <- rtoken,
  pending <- rpending, profile <- rprofile

facadeVars  == <<fstate, fin_flight, fmax, fcount, fpc, fevent, fcloser, fwatcher, ftarget, fparked>>
runtimeVars == <<rpermits, rin_flight, rmax, rtally, rat, rquestion, rresult, rtoken, rpending, rprofile>>
admitVars   == <<tpermits, tin_flight>>
lifeVars    == <<config, starter, tstate, attached, pool, stopper>>
answerVars  == <<admitVars, tcount, co, cancelled, response, orphan>>
vars        == <<lifeVars, answerVars, work, facadeVars, runtimeVars>>

TState == {"created", "disabled", "not_active", "accepting", "draining", "closed"}
Code == {"none", "complete", "refuse", "input_error", "capacity_exceeded", "facade_draining",
         "facade_closed", "facade_not_active", "invalid_request", "internal_error", "no_response"}
TCounter == {"attempt", "admitted", "capacity", "completed", "error", "disconnect"}

Init ==
  /\ config \in {"disabled", "inactive", "active"}
  /\ starter = "idle"
  /\ tstate = "created"
  /\ attached = FALSE
  /\ tpermits = MaxInFlight
  /\ tin_flight = 0
  /\ tcount = [k \in TCounter |-> 0]
  /\ co = [r \in Requests |-> "none"]
  /\ cancelled = [r \in Requests |-> FALSE]
  /\ response = [r \in Requests |-> "none"]
  /\ orphan = {}
  /\ work = [r \in Requests |-> "none"]
  /\ pool = "open"
  /\ stopper = [s \in Stoppers |-> "idle"]
  /\ Facade!FacadeInit
  /\ Runtime!RuntimeInit

-------------------------------------------------------------------------------
(* start(): two critical sections with the facade's construction between them *)

BeginStart ==
  /\ starter = "idle"
  /\ IF config = "disabled"
       THEN starter' = "started" /\ tstate' = "disabled"
       ELSE starter' = "starting" /\ UNCHANGED tstate
  /\ UNCHANGED <<config, attached, pool, stopper, answerVars, work, facadeVars, runtimeVars>>

FinishStart ==
  /\ starter = "starting"
  /\ starter' = "started"
  /\ attached' = (config = "active")
  /\ tstate' = IF config = "active" THEN "accepting" ELSE "not_active"
  /\ UNCHANGED <<config, pool, stopper, answerVars, work, facadeVars, runtimeVars>>

-------------------------------------------------------------------------------
(* answer(), up to the admission lock *)

TBump(names) == tcount' = [k \in TCounter |-> IF k \in names THEN tcount[k] + 1 ELSE tcount[k]]

Answered(r, code, names) ==
  /\ co' = [co EXCEPT ![r] = "done"]
  /\ response' = [response EXCEPT ![r] = code]
  /\ TBump(names)

LifecycleCode(s) == CASE s = "draining" -> "facade_draining"
                      [] s = "closed"   -> "facade_closed"
                      [] OTHER          -> "facade_not_active"

\* The attempt is counted; without a facade, or once not accepting, that is all.
Arrive(r) ==
  /\ co[r] = "none"
  /\ IF attached /\ tstate = "accepting"
       THEN /\ co' = [co EXCEPT ![r] = "probing"]
            /\ TBump({"attempt"})
            /\ UNCHANGED response
       ELSE Answered(r, IF attached THEN LifecycleCode(tstate) ELSE "facade_not_active",
                     {"attempt", "error"})
  /\ UNCHANGED <<lifeVars, admitVars, cancelled, orphan, work, facadeVars, runtimeVars>>

\* The state property reads the facade's state after it let the lock go.
Probe(r) ==
  /\ co[r] = "probing"
  /\ IF fstate = "accepting"
       THEN co' = [co EXCEPT ![r] = "reading"] /\ UNCHANGED <<response, tcount>>
       ELSE Answered(r, LifecycleCode(fstate), {"error"})
  /\ UNCHANGED <<lifeVars, admitVars, cancelled, orphan, work, facadeVars, runtimeVars>>

\* The body is read and validated, then the connection is probed once.
ReadBody(r) ==
  /\ co[r] = "reading"
  /\ \/ /\ Answered(r, "no_response", {"disconnect"})
        /\ UNCHANGED cancelled
     \/ /\ Answered(r, "input_error", {"error"})
        /\ UNCHANGED cancelled
     \/ /\ co' = [co EXCEPT ![r] = "submitting"]
        /\ \E gone \in BOOLEAN : cancelled' = [cancelled EXCEPT ![r] = gone]
        /\ UNCHANGED <<response, tcount>>
  /\ UNCHANGED <<lifeVars, admitVars, orphan, work, facadeVars, runtimeVars>>

-------------------------------------------------------------------------------
(* The admission lock: state check, permit and submission in one section *)

RefuseLate(r) ==
  /\ co[r] = "submitting"
  /\ tstate # "accepting"
  /\ IF cancelled[r] THEN Answered(r, "no_response", {"disconnect"})
                     ELSE Answered(r, LifecycleCode(tstate), {"error"})
  /\ UNCHANGED <<lifeVars, admitVars, cancelled, orphan, work, facadeVars, runtimeVars>>

RefuseFull(r) ==
  /\ co[r] = "submitting"
  /\ tstate = "accepting"
  /\ tpermits = 0
  /\ IF cancelled[r] THEN Answered(r, "no_response", {"disconnect"})
                     ELSE Answered(r, "capacity_exceeded", {"capacity", "error"})
  /\ UNCHANGED <<lifeVars, admitVars, cancelled, orphan, work, facadeVars, runtimeVars>>

Submit(r) ==
  /\ co[r] = "submitting"
  /\ tstate = "accepting"
  /\ tpermits > 0
  /\ co' = [co EXCEPT ![r] = "awaiting"]
  /\ TBump({"admitted"})
  /\ tpermits' = tpermits - 1
  /\ tin_flight' = tin_flight + 1
  /\ work' = [work EXCEPT ![r] = "queued"]
  /\ UNCHANGED <<lifeVars, cancelled, response, orphan, facadeVars, runtimeVars>>

\* Seeded fault: a failed submission does not take the permit back.
SubmitFailsKeepsPermit(r) ==
  /\ co[r] = "submitting"
  /\ tstate = "accepting"
  /\ tpermits > 0
  /\ Cardinality(orphan) < MaxSubmitFailures
  /\ Answered(r, "internal_error", {"admitted", "error"})
  /\ tpermits' = tpermits - 1
  /\ orphan' = orphan \cup {r}
  /\ work' = [work EXCEPT ![r] = "queued"]
  /\ UNCHANGED <<lifeVars, tin_flight, cancelled, facadeVars, runtimeVars>>

\* The executor raises RuntimeError: permit and in-flight count are taken back,
\* the admission stays counted.  The pool raises when it cannot start a thread,
\* after it has queued the item, so a worker it already has may still run it.
SubmitFails(r) ==
  /\ co[r] = "submitting"
  /\ tstate = "accepting"
  /\ tpermits > 0
  /\ Cardinality(orphan) < MaxSubmitFailures
  /\ Answered(r, "internal_error", {"admitted", "error"})
  /\ orphan' = orphan \cup {r}
  /\ work' = [work EXCEPT ![r] = "queued"]
  /\ UNCHANGED <<lifeVars, admitVars, cancelled, facadeVars, runtimeVars>>

-------------------------------------------------------------------------------
(* The worker thread: facade.invoke() and, inside it, runtime.run() *)

Running == {r \in Requests : work[r] = "running"}

\* Seeded fault: the executor has more workers than there are permits.
StartWorkUnbounded(r) ==
  /\ work[r] = "queued"
  /\ pool = "open"
  /\ work' = [work EXCEPT ![r] = "running"]
  /\ Facade!Begin(r)
  /\ UNCHANGED <<lifeVars, answerVars, runtimeVars>>

StartWork(r) ==
  /\ work[r] = "queued"
  /\ pool = "open"
  /\ Cardinality(Running) < MaxInFlight
  /\ work' = [work EXCEPT ![r] = "running"]
  /\ Facade!Begin(r)
  /\ UNCHANGED <<lifeVars, answerVars, runtimeVars>>

\* The payload schema already refuses what the facade would call invalid.
FacadeStep(r) ==
  /\ \/ Facade!RejectLifecycle(r)
     \/ Facade!Admit(r)
     \/ cancelled[r] /\ Facade!CancelBeforeDispatch(r)
     \/ ~cancelled[r] /\ Facade!Dispatch(r)
     \/ Facade!Leave(r)
  /\ UNCHANGED <<lifeVars, answerVars, work, runtimeVars>>

RuntimeStep(r) ==
  /\ \/ /\ fpc[r] = "dispatched" /\ rresult[r] = "none"
        /\ Runtime!Attempt(r, r)
     \/ /\ Runtime!Continue(r)
        /\ rtoken'[r] \in {r, NoToken}
  /\ UNCHANGED <<lifeVars, answerVars, work, facadeVars>>

\* Seeded fault: every runtime error is taken for the capacity error.
RuntimeReturnsBroadly(r) ==
  /\ rat[r] = "idle"
  /\ \/ rresult[r] = "run" /\ \E refused \in BOOLEAN : Facade!Complete(r, refused)
     \/ rresult[r] \in {"error", "capacity"} /\ Facade!RuntimeAtCapacity(r)
  /\ UNCHANGED <<lifeVars, answerVars, work, runtimeVars>>

\* run() has given its permit back before the facade sees how it ended.
RuntimeReturns(r) ==
  /\ rat[r] = "idle"
  /\ \/ rresult[r] = "run" /\ \E refused \in BOOLEAN : Facade!Complete(r, refused)
     \/ rresult[r] \in {"run", "error"} /\ Facade!DownstreamError(r)
     \/ rresult[r] = "capacity" /\ Facade!RuntimeAtCapacity(r)
  /\ UNCHANGED <<lifeVars, answerVars, work, runtimeVars>>

FinishWork(r) ==
  /\ work[r] = "running"
  /\ fpc[r] = "out"
  /\ work' = [work EXCEPT ![r] = "returned"]
  /\ UNCHANGED <<lifeVars, answerVars, facadeVars, runtimeVars>>

\* What the client is told of the facade's outcome, and what is counted.
Mapped(outcome) ==
  CASE outcome = "cancelled_before_dispatch" -> [code |-> "no_response", names |-> {"disconnect"}]
    [] outcome \in {"complete", "refuse"}    -> [code |-> outcome, names |-> {"completed"}]
    [] outcome = "capacity_exceeded"         -> [code |-> outcome, names |-> {"error", "capacity"}]
    [] outcome \in {"facade_draining", "facade_closed", "invalid_request"}
                                             -> [code |-> outcome, names |-> {"error"}]
    [] OTHER                                 -> [code |-> "internal_error", names |-> {"error"}]

\* Back on the loop: the outcome is mapped and counted, then the finally block
\* gives the permit back.
Deliver(r) ==
  /\ co[r] = "awaiting"
  /\ work[r] = "returned"
  /\ LET m == Mapped(fevent[r].outcome) IN Answered(r, m.code, m.names)
  /\ tin_flight' = tin_flight - 1
  /\ tpermits' = tpermits + 1
  /\ UNCHANGED <<lifeVars, cancelled, orphan, work, facadeVars, runtimeVars>>

-------------------------------------------------------------------------------
(* shutdown(), which the lifespan calls once start() has returned *)

\* Seeded fault: shutdown() drains the facade before it refuses requests itself.
StopTransportLate(s) ==
  /\ starter = "started"
  /\ stopper[s] = "idle"
  /\ tstate # "closed"
  /\ IF attached
       THEN stopper' = [stopper EXCEPT ![s] = "facade"] /\ UNCHANGED tstate
       ELSE tstate' = "closed" /\ UNCHANGED stopper
  /\ UNCHANGED <<config, starter, attached, pool, answerVars, work, facadeVars, runtimeVars>>

StopTransport(s) ==
  /\ starter = "started"
  /\ stopper[s] = "idle"
  /\ tstate # "closed"
  /\ IF attached
       THEN tstate' = "draining" /\ stopper' = [stopper EXCEPT ![s] = "facade"]
       ELSE tstate' = "closed" /\ UNCHANGED stopper
  /\ UNCHANGED <<config, starter, attached, pool, answerVars, work, facadeVars, runtimeVars>>

\* facade.shutdown() returns at once, or waits for the facade's calls.
StopFacade(s) ==
  /\ \/ stopper[s] = "facade" /\ fstate # "closed" /\ Facade!Shutdown(s)
     \/ stopper[s] = "facade" /\ fstate = "closed" /\ UNCHANGED facadeVars
     \/ stopper[s] = "draining" /\ Facade!ResumeShutdown(s)
  /\ stopper' = [stopper EXCEPT ![s] = IF fcloser'[s] = "waiting" THEN "draining" ELSE "joining"]
  /\ UNCHANGED <<config, starter, tstate, attached, pool, answerVars, work, runtimeVars>>

\* Seeded fault: shutdown(wait=False).
JoinWithoutWaiting(s) ==
  /\ stopper[s] = "joining"
  /\ pool' = "shut"
  /\ stopper' = [stopper EXCEPT ![s] = "closing"]
  /\ UNCHANGED <<config, starter, tstate, attached, answerVars, work, facadeVars, runtimeVars>>

\* executor.shutdown(wait=True): the workers finish what is queued; an orphan
\* stays behind when no worker was ever started to take it.
JoinExecutor(s) ==
  /\ stopper[s] = "joining"
  /\ \A r \in Requests : work[r] = "queued" => r \in orphan
  /\ Running = {}
  /\ pool' = "shut"
  /\ stopper' = [stopper EXCEPT ![s] = "closing"]
  /\ UNCHANGED <<config, starter, tstate, attached, answerVars, work, facadeVars, runtimeVars>>

FinishStop(s) ==
  /\ stopper[s] = "closing"
  /\ tstate' = "closed"
  /\ stopper' = [stopper EXCEPT ![s] = "idle"]
  /\ UNCHANGED <<config, starter, attached, pool, answerVars, work, facadeVars, runtimeVars>>

-------------------------------------------------------------------------------
Loop(r)   == Probe(r) \/ ReadBody(r) \/ RefuseLate(r) \/ RefuseFull(r)
             \/ Submit(r) \/ SubmitFails(r) \/ Deliver(r)
Worker(r) == StartWork(r) \/ FacadeStep(r) \/ RuntimeStep(r) \/ RuntimeReturns(r) \/ FinishWork(r)
Stop(s)   == StopFacade(s) \/ JoinExecutor(s) \/ FinishStop(s)

Next == \/ BeginStart \/ FinishStart
        \/ \E r \in Requests : Arrive(r) \/ Loop(r) \/ Worker(r)
        \/ \E s \in Stoppers : StopTransport(s) \/ Stop(s)

Spec == Init /\ [][Next]_vars

\* The loop and the threads run; clients and the shutdown call come or do not.
\* A body is read to its end, its error or its disconnect.
FairSpec == /\ Spec
            /\ WF_vars(FinishStart)
            /\ \A r \in Requests : WF_vars(Loop(r)) /\ WF_vars(Worker(r))
            /\ \A s \in Stoppers : WF_vars(Stop(s))

-------------------------------------------------------------------------------
Awaiting == {r \in Requests : co[r] = "awaiting"}
Done     == {r \in Requests : co[r] = "done"}

TypeOK ==
  /\ config \in {"disabled", "inactive", "active"}
  /\ starter \in {"idle", "starting", "started"}
  /\ tstate \in TState
  /\ attached \in BOOLEAN
  /\ tpermits \in 0 .. MaxInFlight
  /\ tin_flight \in 0 .. MaxInFlight
  /\ tcount \in [TCounter -> Nat]
  /\ co \in [Requests -> {"none", "probing", "reading", "submitting", "awaiting", "done"}]
  /\ cancelled \in [Requests -> BOOLEAN]
  /\ response \in [Requests -> Code]
  /\ orphan \subseteq Requests
  /\ work \in [Requests -> {"none", "queued", "running", "returned"}]
  /\ pool \in {"open", "shut"}
  /\ stopper \in [Stoppers -> {"idle", "facade", "draining", "joining", "closing"}]
  /\ Facade!TypeOK
  /\ Runtime!TypeOK

\* Permits, the in-flight count and the waiting coroutines agree, and every
\* request is counted once when it arrives and once when it ends.
TransportBooks ==
  /\ tin_flight = Cardinality(Awaiting)
  /\ tpermits = MaxInFlight - tin_flight
  /\ tcount["attempt"] = Cardinality({r \in Requests : co[r] # "none"})
  /\ tcount["completed"] + tcount["error"] + tcount["disconnect"] = Cardinality(Done)

\* Two layers admit four calls each.  The inner one never turns away what the
\* outer one let through, so no admitted request dies of a capacity error: the
\* runtime's permit is back before the worker is free for another call.
RuntimeNeverSaturated == \A r \in Requests : rat[r] # "refused" /\ rresult[r] # "capacity"

\* A closed transport left nothing running behind it: facade closed, no worker
\* inside a call, every runtime permit home.
ClosedMeansStopped ==
  tstate = "closed" /\ attached =>
    /\ fstate = "closed"
    /\ Running = {}
    /\ rpermits = MaxInFlight

\* An answer was produced by a run that completed for this very request; a refusal
\* (lifecycle, capacity) never reached the runtime, and neither did a request known
\* to be disconnected before dispatch.
AnswersAreEarned ==
  \A r \in Requests :
    /\ response[r] \in {"complete", "refuse"} => rresult[r] = "run" /\ rprofile[r] = r
    /\ \/ response[r] \in {"facade_draining", "facade_closed", "facade_not_active",
                           "capacity_exceeded", "no_response", "input_error"}
       \/ cancelled[r]
       => rat[r] = "idle" /\ rresult[r] = "none"

\* Until a shutdown begins: no request is turned away because of a drain, at any
\* layer, and a known disconnect is answered with nothing.  Only a submission the
\* executor refused is told of an error instead.
PromisesKeptUntilShutdown ==
  tstate = "accepting" =>
    \A r \in Requests \ orphan :
      /\ response[r] \notin {"facade_draining", "facade_closed"}
      /\ cancelled[r] /\ co[r] = "done" => response[r] = "no_response"

\* What a client is told is what happened to its request, in the layers below and
\* to the service.
ResponsesAreTruthful == AnswersAreEarned /\ PromisesKeptUntilShutdown

\* Every request that arrives gets its outcome.
RequestsEnd == \A r \in Requests : co[r] # "none" ~> co[r] = "done"

\* A shutdown that began ends with the transport closed.
ShutdownEnds == \A s \in Stoppers : stopper[s] # "idle" ~> tstate = "closed"

\* docs/primeqa_hybrid_agent_http_transport_validation.md: "Shutdown first rejects
\* new requests, then waits naturally for in-flight requests to complete."
\* An admitted request whose client is still there is not refused by the drain.
AdmittedDrainsNaturally ==
  \A r \in Requests \ orphan :
    work[r] = "returned" /\ ~cancelled[r] =>
      response[r] \notin {"facade_draining", "facade_closed"}

\* Same document: "A known pre-dispatch disconnect produces no ASGI response frame".
KnownDisconnectGetsNoFrame ==
  \A r \in Requests : cancelled[r] /\ co[r] = "done" => response[r] = "no_response"

===============================================================================
