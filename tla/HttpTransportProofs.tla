-------------------------- MODULE HttpTransportProofs --------------------------
(***************************************************************************)
(* Proofs about the HTTP transport over its facade and its runtime, for    *)
(* any number of requests, stoppers and permits.  First that the composed  *)
(* system runs each inner component as its own specification says, so that *)
(* what was proved of the components alone is known of it; then what the   *)
(* three layers promise together.                                          *)
(***************************************************************************)
EXTENDS HttpTransport, FiniteSetTheorems, TLAPS

FacadeP == INSTANCE RequestFacadeProofs WITH
  Callers <- Requests, Closers <- Stoppers, Watchers <- {},
  MaxInvocations <- Cardinality(Requests),
  state <- fstate, current_in_flight <- fin_flight, max_observed_in_flight <- fmax,
  count <- fcount, pc <- fpc, event <- fevent, closer <- fcloser,
  watcher <- fwatcher, target <- ftarget, parked <- fparked

RuntimeP == INSTANCE ConcurrentRuntimeProofs WITH
  Threads <- Requests, Questions <- Requests, Tokens <- Requests,
  MaxAttempts <- Cardinality(Requests),
  permits <- rpermits, in_flight <- rin_flight, max_in_flight <- rmax, tally <- rtally,
  at <- rat, question <- rquestion, result <- rresult, token <- rtoken,
  pending <- rpending, profile <- rprofile

-------------------------------------------------------------------------------
(* The layers below run as they would alone *)

\* The transport takes the facade through steps of its own specification only.
THEOREM FacadeKept == Spec => Facade!FacadeSpec
<1>1. Init => Facade!FacadeInit
  BY DEF Init
<1>2. [Next]_vars => [Facade!FacadeNext]_(Facade!facadeVars)
  <2>. SUFFICES ASSUME [Next]_vars
                PROVE  Facade!FacadeNext \/ UNCHANGED facadeVars
    BY DEF facadeVars, Facade!facadeVars, Facade!callVars, Facade!waitVars
  <2>1. CASE UNCHANGED vars
    BY <2>1 DEF vars
  <2>2. CASE BeginStart \/ FinishStart
    BY <2>2 DEF BeginStart, FinishStart
  <2>3. ASSUME NEW r \in Requests, Arrive(r) \/ Loop(r)
        PROVE  UNCHANGED facadeVars
    BY <2>3 DEF Arrive, Loop, Probe, ReadBody, RefuseLate, RefuseFull, Submit, SubmitFails, Deliver
  <2>4. ASSUME NEW r \in Requests, Worker(r)
        PROVE  Facade!FacadeNext \/ UNCHANGED facadeVars
    <3>1. CASE StartWork(r)
      BY <3>1 DEF StartWork, Facade!FacadeNext
    <3>2. CASE FacadeStep(r)
      BY <3>2 DEF FacadeStep, Facade!FacadeNext, Facade!Proceed
    <3>3. CASE RuntimeReturns(r)
      BY <3>3 DEF RuntimeReturns, Facade!FacadeNext, Facade!Proceed, Facade!RuntimeOutcome
    <3>4. CASE RuntimeStep(r) \/ FinishWork(r)
      BY <3>4 DEF RuntimeStep, FinishWork
    <3>. QED
      BY <2>4, <3>1, <3>2, <3>3, <3>4 DEF Worker
  <2>5. ASSUME NEW s \in Stoppers, StopTransport(s) \/ Stop(s)
        PROVE  Facade!FacadeNext \/ UNCHANGED facadeVars
    BY <2>5 DEF StopTransport, Stop, StopFacade, JoinExecutor, FinishStop, Facade!FacadeNext
  <2>. QED
    BY <2>1, <2>2, <2>3, <2>4, <2>5 DEF Next
<1>. QED
  BY <1>1, <1>2, PTL DEF Spec, Facade!FacadeSpec

\* And the runtime through steps of the runtime's.
THEOREM RuntimeKept == Spec => Runtime!RuntimeSpec
<1>1. Init => Runtime!RuntimeInit
  BY DEF Init
<1>2. [Next]_vars => [Runtime!RuntimeNext]_(Runtime!runtimeVars)
  <2>. SUFFICES ASSUME [Next]_vars
                PROVE  Runtime!RuntimeNext \/ UNCHANGED runtimeVars
    BY DEF runtimeVars, Runtime!runtimeVars, Runtime!admissionVars, Runtime!retrieverVars
  <2>1. CASE UNCHANGED vars
    BY <2>1 DEF vars
  <2>2. CASE BeginStart \/ FinishStart
    BY <2>2 DEF BeginStart, FinishStart
  <2>3. ASSUME NEW r \in Requests, Arrive(r) \/ Loop(r)
        PROVE  UNCHANGED runtimeVars
    BY <2>3 DEF Arrive, Loop, Probe, ReadBody, RefuseLate, RefuseFull, Submit, SubmitFails, Deliver
  <2>4. ASSUME NEW r \in Requests, Worker(r)
        PROVE  Runtime!RuntimeNext \/ UNCHANGED runtimeVars
    <3>1. CASE RuntimeStep(r)
      BY <3>1 DEF RuntimeStep, Runtime!RuntimeNext
    <3>2. CASE StartWork(r) \/ FacadeStep(r) \/ RuntimeReturns(r) \/ FinishWork(r)
      BY <3>2 DEF StartWork, FacadeStep, RuntimeReturns, FinishWork
    <3>. QED
      BY <2>4, <3>1, <3>2 DEF Worker
  <2>5. ASSUME NEW s \in Stoppers, StopTransport(s) \/ Stop(s)
        PROVE  UNCHANGED runtimeVars
    BY <2>5 DEF StopTransport, Stop, StopFacade, JoinExecutor, FinishStop
  <2>. QED
    BY <2>1, <2>2, <2>3, <2>4, <2>5 DEF Next
<1>. QED
  BY <1>1, <1>2, PTL DEF Spec, Runtime!RuntimeSpec

LEMMA RequestsCount ==
  /\ IsFiniteSet(Requests) /\ Cardinality(Requests) \in Nat
  /\ FacadeP!IsFiniteSet(Requests) /\ RuntimeP!IsFiniteSet(Requests)
<1>1. IsFiniteSet(Requests) /\ Cardinality(Requests) \in Nat
  BY TransportAssumption, FS_CardinalityType DEF TransportAssumption
<1>. QED
  BY <1>1 DEF IsFiniteSet, FacadeP!IsFiniteSet, RuntimeP!IsFiniteSet

\* The specification the facade's theorems are about is the one kept here.
LEMMA SameFacade == Facade!FacadeSpec => FacadeP!FacadeSpec
<1>1. Facade!FacadeInit => FacadeP!FacadeInit
  BY DEF Facade!FacadeInit, FacadeP!FacadeInit, Facade!Counter, FacadeP!Counter,
         Facade!NoEvent, FacadeP!NoEvent
<1>2. [Facade!FacadeNext]_(Facade!facadeVars) => [FacadeP!FacadeNext]_(FacadeP!facadeVars)
  <2>. USE DEF Facade!callVars, FacadeP!callVars, Facade!waitVars, FacadeP!waitVars,
               Facade!Goto, FacadeP!Goto, Facade!Bump, FacadeP!Bump, Facade!Counter, FacadeP!Counter,
               Facade!Record, FacadeP!Record, Facade!Event, FacadeP!Event,
               Facade!NotifyAll, FacadeP!NotifyAll
  <2>1. UNCHANGED Facade!facadeVars => UNCHANGED FacadeP!facadeVars
    BY DEF Facade!facadeVars, FacadeP!facadeVars
  <2>2. ASSUME NEW c \in Requests
        PROVE  /\ Facade!Begin(c) => FacadeP!Begin(c)
               /\ Facade!RejectInvalid(c) => FacadeP!RejectInvalid(c)
               /\ Facade!RejectLifecycle(c) => FacadeP!RejectLifecycle(c)
               /\ Facade!Admit(c) => FacadeP!Admit(c)
    BY DEF Facade!Begin, FacadeP!Begin, Facade!NoEvent, FacadeP!NoEvent,
           Facade!RejectInvalid, FacadeP!RejectInvalid,
           Facade!RejectLifecycle, FacadeP!RejectLifecycle, Facade!Admit, FacadeP!Admit
  <2>3. ASSUME NEW c \in Requests
        PROVE  /\ Facade!CancelBeforeDispatch(c) => FacadeP!CancelBeforeDispatch(c)
               /\ Facade!Dispatch(c) => FacadeP!Dispatch(c)
               /\ Facade!Leave(c) => FacadeP!Leave(c)
    BY DEF Facade!CancelBeforeDispatch, FacadeP!CancelBeforeDispatch,
           Facade!Dispatch, FacadeP!Dispatch, Facade!Leave, FacadeP!Leave
  <2>4. ASSUME NEW c \in Requests
        PROVE  Facade!RuntimeOutcome(c) => FacadeP!RuntimeOutcome(c)
    BY DEF Facade!RuntimeOutcome, FacadeP!RuntimeOutcome, Facade!Complete, FacadeP!Complete,
           Facade!RuntimeAtCapacity, FacadeP!RuntimeAtCapacity,
           Facade!DownstreamError, FacadeP!DownstreamError
  <2>5. ASSUME NEW s \in Stoppers
        PROVE  /\ Facade!Shutdown(s) => FacadeP!Shutdown(s)
               /\ Facade!ResumeShutdown(s) => FacadeP!ResumeShutdown(s)
    BY DEF Facade!Shutdown, FacadeP!Shutdown, Facade!DrainOrSleep, FacadeP!DrainOrSleep,
           Facade!ResumeShutdown, FacadeP!ResumeShutdown
  <2>6. ASSUME NEW c \in Requests PROVE Facade!Proceed(c) => FacadeP!Proceed(c)
    BY <2>2, <2>3, <2>4 DEF Facade!Proceed, FacadeP!Proceed
  <2>. QED
    BY <2>1, <2>2, <2>5, <2>6 DEF Facade!FacadeNext, FacadeP!FacadeNext
<1>. QED
  BY <1>1, <1>2, PTL DEF Facade!FacadeSpec, FacadeP!FacadeSpec

LEMMA SameRuntime == Runtime!RuntimeSpec => RuntimeP!RuntimeSpec
<1>1. Runtime!RuntimeInit => RuntimeP!RuntimeInit
  BY DEF Runtime!RuntimeInit, RuntimeP!RuntimeInit, Runtime!Tally, RuntimeP!Tally
<1>2. [Runtime!RuntimeNext]_(Runtime!runtimeVars) => [RuntimeP!RuntimeNext]_(RuntimeP!runtimeVars)
  <2>. USE DEF Runtime!admissionVars, RuntimeP!admissionVars, Runtime!retrieverVars,
               RuntimeP!retrieverVars, Runtime!Move, RuntimeP!Move, Runtime!Add, RuntimeP!Add
  <2>1. UNCHANGED Runtime!runtimeVars => UNCHANGED RuntimeP!runtimeVars
    BY DEF Runtime!runtimeVars, RuntimeP!runtimeVars
  <2>2. ASSUME NEW t \in Requests, NEW q \in Requests
        PROVE  Runtime!Attempt(t, q) => RuntimeP!Attempt(t, q)
    BY DEF Runtime!Attempt, RuntimeP!Attempt
  <2>3. ASSUME NEW t \in Requests
        PROVE  /\ Runtime!AcquirePermit(t) => RuntimeP!AcquirePermit(t)
               /\ Runtime!FindNoPermit(t) => RuntimeP!FindNoPermit(t)
               /\ Runtime!RaiseCapacity(t) => RuntimeP!RaiseCapacity(t)
               /\ Runtime!CountAdmission(t) => RuntimeP!CountAdmission(t)
               /\ Runtime!CountDownstream(t) => RuntimeP!CountDownstream(t)
    BY DEF Runtime!AcquirePermit, RuntimeP!AcquirePermit, Runtime!FindNoPermit, RuntimeP!FindNoPermit,
           Runtime!RaiseCapacity, RuntimeP!RaiseCapacity,
           Runtime!CountAdmission, RuntimeP!CountAdmission,
           Runtime!CountDownstream, RuntimeP!CountDownstream
  <2>4. ASSUME NEW t \in Requests
        PROVE  /\ Runtime!PrepareRequest(t) => RuntimeP!PrepareRequest(t)
               /\ Runtime!Retrieve(t) => RuntimeP!Retrieve(t)
               /\ Runtime!EntrypointReturns(t) => RuntimeP!EntrypointReturns(t)
               /\ Runtime!EntrypointRaises(t) => RuntimeP!EntrypointRaises(t)
    BY DEF Runtime!PrepareRequest, RuntimeP!PrepareRequest, Runtime!LiveTokens, RuntimeP!LiveTokens,
           Runtime!Retrieve, RuntimeP!Retrieve,
           Runtime!EntrypointReturns, RuntimeP!EntrypointReturns,
           Runtime!EntrypointRaises, RuntimeP!EntrypointRaises
  <2>5. ASSUME NEW t \in Requests
        PROVE  /\ Runtime!TakeRun(t) => RuntimeP!TakeRun(t)
               /\ Runtime!DiscardRun(t) => RuntimeP!DiscardRun(t)
               /\ Runtime!TraceRaises(t) => RuntimeP!TraceRaises(t)
    BY DEF Runtime!TakeRun, RuntimeP!TakeRun, Runtime!DiscardRun, RuntimeP!DiscardRun,
           Runtime!TraceRaises, RuntimeP!TraceRaises
  <2>6. ASSUME NEW t \in Requests
        PROVE  /\ Runtime!CountCompleted(t) => RuntimeP!CountCompleted(t)
               /\ Runtime!CountFailed(t) => RuntimeP!CountFailed(t)
               /\ Runtime!LeaveFlight(t) => RuntimeP!LeaveFlight(t)
               /\ Runtime!ReleasePermit(t) => RuntimeP!ReleasePermit(t)
    BY DEF Runtime!CountCompleted, RuntimeP!CountCompleted, Runtime!CountFailed, RuntimeP!CountFailed,
           Runtime!LeaveFlight, RuntimeP!LeaveFlight, Runtime!ReleasePermit, RuntimeP!ReleasePermit
  <2>7. ASSUME NEW t \in Requests PROVE Runtime!Continue(t) => RuntimeP!Continue(t)
    BY <2>3, <2>4, <2>5, <2>6 DEF Runtime!Continue, RuntimeP!Continue
  <2>. QED
    BY <2>1, <2>2, <2>7 DEF Runtime!RuntimeNext, RuntimeP!RuntimeNext
<1>. QED
  BY <1>1, <1>2, PTL DEF Runtime!RuntimeSpec, RuntimeP!RuntimeSpec

\* What the components' own proofs give the composition.
Inherited ==
  /\ Facade!TypeOK
  /\ Runtime!TypeOK
  /\ rpermits + Cardinality(Runtime!Holding) = MaxInFlight
  /\ Runtime!ProfileIsOwn

LEMMA InheritedHolds == Spec => []Inherited
<1>1. Spec => []FacadeP!TypeOK
  <2>1. Stoppers \cap {} = {}
    OBVIOUS
  <2>2. FacadeP!FacadeSpec => []FacadeP!TypeOK
    BY <2>1, RequestsCount, FacadeP!TypeCorrect, PTL
  <2>. QED
    BY <2>2, FacadeKept, SameFacade, PTL
<1>2. Spec => []RuntimeP!TypeOK /\ []RuntimeP!PermitsConserved /\ []RuntimeP!ProfileIsOwn
  <2>1. NoToken \notin Requests /\ NoRun \notin Requests /\ MaxInFlight \in Nat \ {0}
    BY TransportAssumption DEF TransportAssumption
  <2>2. RuntimeP!RuntimeSpec => []RuntimeP!TypeOK
    BY <2>1, RequestsCount, RuntimeP!RuntimeTypes, PTL
  <2>3. RuntimeP!RuntimeSpec => []RuntimeP!PermitsConserved
    BY <2>1, RequestsCount, RuntimeP!PermitsCorrect, PTL
  <2>4. RuntimeP!RuntimeSpec => []RuntimeP!ProfileIsOwn
    BY <2>1, RequestsCount, RuntimeP!ProfilesIsolated, PTL
  <2>. QED
    BY <2>2, <2>3, <2>4, RuntimeKept, SameRuntime, PTL
<1>3. FacadeP!TypeOK => Facade!TypeOK
  BY DEF FacadeP!TypeOK, Facade!TypeOK, FacadeP!State, Facade!State, FacadeP!Counter, Facade!Counter,
         FacadeP!PublicEvent, Facade!PublicEvent, FacadeP!Outcome, Facade!Outcome
<1>4. RuntimeP!TypeOK => Runtime!TypeOK
  BY DEF RuntimeP!TypeOK, Runtime!TypeOK, RuntimeP!Tally, Runtime!Tally, RuntimeP!Place, Runtime!Place
<1>5. RuntimeP!PermitsConserved => rpermits + Cardinality(Runtime!Holding) = MaxInFlight
  BY DEF RuntimeP!PermitsConserved, RuntimeP!Holding, Runtime!Holding, RuntimeP!Cardinality, Cardinality
<1>6. RuntimeP!ProfileIsOwn => Runtime!ProfileIsOwn
  BY DEF RuntimeP!ProfileIsOwn, Runtime!ProfileIsOwn
<1>. QED
  BY <1>1, <1>2, <1>3, <1>4, <1>5, <1>6, PTL DEF Inherited

-------------------------------------------------------------------------------
(* The inductive invariant *)

Coroutine == {"none", "probing", "reading", "submitting", "awaiting", "done"}
Answers   == {"complete", "refuse"}
Refusals  == {"facade_draining", "facade_closed", "facade_not_active",
              "capacity_exceeded", "no_response", "input_error"}

\* The runtime has not been asked.
Untouched(r) == rat[r] = "idle" /\ rresult[r] = "none"

\* What a request's coroutine, its item, its call of the facade, its call of the
\* runtime and its answer say of one another.
CallNested(r) ==
  /\ co[r] \in {"none", "probing", "reading", "submitting"} => work[r] = "none"
  /\ fpc[r] # "out" => work[r] = "running"
  /\ rat[r] # "idle" => fpc[r] = "dispatched"

CallEarned(r) ==
  /\ work[r] \in {"none", "queued"} \/ fpc[r] \in {"validating", "admitted"} => Untouched(r)
  /\ fpc[r] = "dispatched" \/ rresult[r] # "none" => ~cancelled[r]
  /\ fpc[r] \in {"validating", "admitted", "dispatched"} => fevent[r].outcome = "none"
  /\ rresult[r] # "none" /\ fpc[r] # "dispatched"
       => fevent[r].outcome \in Answers \cup {"downstream_error"}
  /\ fevent[r].outcome \in Answers => rresult[r] = "run"

RunEarned(r) ==
  /\ rat[r] \notin {"idle", "leaving", "releasing"} => rresult[r] = "none"
  /\ rat[r] # "refused" /\ rresult[r] # "capacity"
  /\ rat[r] = "completing" \/ rresult[r] = "run" => rprofile[r] # NoRun
  /\ rquestion[r] \in {r, NoRun}

AnswerEarned(r) ==
  /\ co[r] # "done" => response[r] = "none"
  /\ response[r] \in Answers => work[r] = "returned" /\ rresult[r] = "run"
  /\ response[r] \in Refusals => work[r] \in {"none", "returned"} /\ Untouched(r)

OnCourse == \A r \in Requests : CallNested(r) /\ CallEarned(r) /\ RunEarned(r) /\ AnswerEarned(r)

WorkersBounded == Cardinality(Running) <= MaxInFlight

\* How far a shutdown got, and what holds from there on.
Life ==
  /\ starter # "started" => ~attached /\ tstate = "created"
  /\ \A s \in Stoppers :
       /\ stopper[s] # "idle" => attached
       /\ fcloser[s] = "waiting" => stopper[s] = "draining"
       /\ stopper[s] \in {"joining", "closing"} => fstate = "closed"
       /\ stopper[s] = "closing" => pool = "shut"
  /\ pool = "shut" => Running = {} /\ fstate = "closed"
  /\ tstate = "closed" /\ attached => pool = "shut"

Inv == TypeOK /\ TransportBooks /\ WorkersBounded /\ OnCourse /\ Life

-------------------------------------------------------------------------------
(* Counting requests *)

Arrived == {r \in Requests : co[r] # "none"}

\* Two finite sets that differ in one member at most differ in size accordingly.
LEMMA OneMember ==
  ASSUME NEW S, NEW T, NEW c, IsFiniteSet(S), IsFiniteSet(T), S \ {c} = T \ {c}
  PROVE  Cardinality(T) = Cardinality(S) - (IF c \in S THEN 1 ELSE 0)
                                         + (IF c \in T THEN 1 ELSE 0)
<1>1. Cardinality(S) \in Nat /\ Cardinality(T) \in Nat
  BY FS_CardinalityType
<1>2. Cardinality(S \ {c}) = IF c \in S THEN Cardinality(S) - 1 ELSE Cardinality(S)
  BY FS_RemoveElement
<1>3. Cardinality(T \ {c}) = IF c \in T THEN Cardinality(T) - 1 ELSE Cardinality(T)
  BY FS_RemoveElement
<1>4. Cardinality(S \ {c}) = Cardinality(T \ {c})
  OBVIOUS
<1>5. ASSUME NEW a \in Nat, NEW b \in Nat, NEW d,
             d = IF c \in S THEN a - 1 ELSE a, d = IF c \in T THEN b - 1 ELSE b
      PROVE  b = a - (IF c \in S THEN 1 ELSE 0) + (IF c \in T THEN 1 ELSE 0)
  BY <1>5
<1>. QED
  BY <1>1, <1>2, <1>3, <1>4, <1>5

LEMMA RequestSets ==
  ASSUME NEW S \in SUBSET Requests
  PROVE  IsFiniteSet(S) /\ Cardinality(S) \in Nat
BY RequestsCount, FS_Subset, FS_CardinalityType

LEMMA CoroutineMoves ==
  ASSUME NEW r \in Requests, NEW to \in Coroutine \ {"none"},
         co \in [Requests -> Coroutine], co' = [co EXCEPT ![r] = to]
  PROVE  /\ Cardinality(Awaiting') = Cardinality(Awaiting)
                - (IF co[r] = "awaiting" THEN 1 ELSE 0) + (IF to = "awaiting" THEN 1 ELSE 0)
         /\ Cardinality(Done') = Cardinality(Done)
                - (IF co[r] = "done" THEN 1 ELSE 0) + (IF to = "done" THEN 1 ELSE 0)
         /\ Cardinality(Arrived') = Cardinality(Arrived)
                + (IF co[r] = "none" THEN 1 ELSE 0)
<1>1. /\ IsFiniteSet(Awaiting) /\ IsFiniteSet(Awaiting')
      /\ IsFiniteSet(Done) /\ IsFiniteSet(Done')
      /\ IsFiniteSet(Arrived) /\ IsFiniteSet(Arrived')
  BY RequestSets DEF Awaiting, Done, Arrived
<1>2. /\ Awaiting \ {r} = Awaiting' \ {r} /\ (r \in Awaiting <=> co[r] = "awaiting")
      /\ (r \in Awaiting' <=> to = "awaiting")
  BY DEF Awaiting
<1>3. /\ Done \ {r} = Done' \ {r} /\ (r \in Done <=> co[r] = "done")
      /\ (r \in Done' <=> to = "done")
  BY DEF Done
<1>4. /\ Arrived \ {r} = Arrived' \ {r} /\ (r \in Arrived <=> co[r] # "none")
      /\ (r \in Arrived' <=> to # "none")
  BY DEF Arrived
<1>5. Cardinality(Awaiting') = Cardinality(Awaiting) - (IF r \in Awaiting THEN 1 ELSE 0)
                                                     + (IF r \in Awaiting' THEN 1 ELSE 0)
  BY <1>1, <1>2, OneMember
<1>6. Cardinality(Done') = Cardinality(Done) - (IF r \in Done THEN 1 ELSE 0)
                                             + (IF r \in Done' THEN 1 ELSE 0)
  BY <1>1, <1>3, OneMember
<1>7. Cardinality(Arrived') = Cardinality(Arrived) - (IF r \in Arrived THEN 1 ELSE 0)
                                                   + (IF r \in Arrived' THEN 1 ELSE 0)
  BY <1>1, <1>4, OneMember
<1>8. Cardinality(Awaiting) \in Nat /\ Cardinality(Done) \in Nat /\ Cardinality(Arrived) \in Nat
  BY RequestSets DEF Awaiting, Done, Arrived
<1>. QED
  BY <1>2, <1>3, <1>4, <1>5, <1>6, <1>7, <1>8

\* An answer ends its request and counts one ending.
LEMMA AnsweredBooks ==
  ASSUME TypeOK, NEW r \in Requests, NEW code \in Code, NEW names,
         Answered(r, code, names),
         \E k \in {"completed", "error", "disconnect"} :
           names \cap {"completed", "error", "disconnect"} = {k}
  PROVE  /\ co' = [co EXCEPT ![r] = "done"] /\ co' \in [Requests -> Coroutine]
         /\ response' \in [Requests -> Code]
         /\ tcount' \in [TCounter -> Nat]
         /\ tcount'["attempt"] = tcount["attempt"] + (IF "attempt" \in names THEN 1 ELSE 0)
         /\ tcount'["completed"] + tcount'["error"] + tcount'["disconnect"]
              = tcount["completed"] + tcount["error"] + tcount["disconnect"] + 1
<1>1. /\ tcount' \in [TCounter -> Nat]
      /\ \A k \in TCounter : tcount'[k] = IF k \in names THEN tcount[k] + 1 ELSE tcount[k]
  BY DEF Answered, TBump, TypeOK
<1>2. \A k \in TCounter : tcount[k] \in Nat
  BY DEF TypeOK
<1>3. PICK k \in {"completed", "error", "disconnect"} :
        names \cap {"completed", "error", "disconnect"} = {k}
  OBVIOUS
<1>4. /\ "completed" \in names <=> k = "completed"
      /\ "error" \in names <=> k = "error"
      /\ "disconnect" \in names <=> k = "disconnect"
  BY <1>3
<1>5. /\ co' = [co EXCEPT ![r] = "done"] /\ co' \in [Requests -> Coroutine]
      /\ response' \in [Requests -> Code]
  BY DEF Answered, TypeOK, Coroutine
<1>. QED
  BY <1>1, <1>2, <1>4, <1>5 DEF TCounter

-------------------------------------------------------------------------------
(* The books of the transport *)

\* The variables that the loop's sections of answer() write.
AnswerTypes ==
  /\ tpermits \in 0 .. MaxInFlight
  /\ tin_flight \in 0 .. MaxInFlight
  /\ tcount \in [TCounter -> Nat]
  /\ co \in [Requests -> Coroutine]
  /\ response \in [Requests -> Code]

LEMMA BooksStep ==
  ASSUME Inv, [Next]_vars, Facade!TypeOK
  PROVE  TransportBooks' /\ AnswerTypes'
<1>0. /\ TypeOK /\ AnswerTypes /\ MaxInFlight \in Nat /\ co \in [Requests -> Coroutine]
      /\ tin_flight = Cardinality(Awaiting) /\ tpermits = MaxInFlight - tin_flight
      /\ tcount["attempt"] = Cardinality(Arrived)
      /\ tcount["completed"] + tcount["error"] + tcount["disconnect"] = Cardinality(Done)
  BY TransportAssumption
  DEF Inv, TypeOK, AnswerTypes, Coroutine, TransportBooks, TransportAssumption, Arrived
<1>1. /\ Cardinality(Awaiting) \in Nat /\ Cardinality(Awaiting') \in Nat
      /\ Cardinality(Arrived) \in Nat /\ Cardinality(Done) \in Nat
  BY RequestSets DEF Awaiting, Arrived, Done
<1>. DEFINE Kept == /\ tin_flight' = Cardinality(Awaiting') /\ tpermits' = MaxInFlight - tin_flight'
                    /\ tcount'["attempt"] = Cardinality(Arrived')
                    /\ tcount'["completed"] + tcount'["error"] + tcount'["disconnect"]
                         = Cardinality(Done')
                    /\ AnswerTypes'
<1>. SUFFICES Kept
  BY DEF TransportBooks, Arrived
<1>2. CASE UNCHANGED <<tpermits, tin_flight, tcount, co, response>>
  BY <1>0, <1>2 DEF AnswerTypes, Awaiting, Arrived, Done
<1>3. ASSUME NEW r \in Requests, NEW code \in Code, NEW names, Answered(r, code, names),
             UNCHANGED admitVars, co[r] \in {"none", "probing", "reading", "submitting"},
             "attempt" \in names <=> co[r] = "none",
             \E k \in {"completed", "error", "disconnect"} :
               names \cap {"completed", "error", "disconnect"} = {k}
      PROVE  Kept
  BY <1>0, <1>1, <1>3, AnsweredBooks, CoroutineMoves DEF AnswerTypes, admitVars
<1>4. ASSUME NEW r \in Requests, Arrive(r)
      PROVE  Kept
  <2>1. CASE attached /\ tstate = "accepting"
    <3>1. /\ co[r] = "none" /\ co' = [co EXCEPT ![r] = "probing"] /\ TBump({"attempt"})
          /\ UNCHANGED <<response, tpermits, tin_flight>>
      BY <1>4, <2>1 DEF Arrive, admitVars
    <3>2. tcount' \in [TCounter -> Nat] /\ tcount'["attempt"] = tcount["attempt"] + 1
          /\ \A k \in TCounter \ {"attempt"} : tcount'[k] = tcount[k]
      BY <1>0, <3>1 DEF TBump, AnswerTypes, TCounter
    <3>3. co' \in [Requests -> Coroutine]
      BY <1>0, <3>1 DEF AnswerTypes, Coroutine
    <3>4. /\ Cardinality(Awaiting') = Cardinality(Awaiting) /\ Cardinality(Done') = Cardinality(Done)
          /\ Cardinality(Arrived') = Cardinality(Arrived) + 1
      <4>1. /\ Cardinality(Awaiting') = Cardinality(Awaiting) - (IF co[r] = "awaiting" THEN 1 ELSE 0)
                                                         + (IF "probing" = "awaiting" THEN 1 ELSE 0)
            /\ Cardinality(Done') = Cardinality(Done) - (IF co[r] = "done" THEN 1 ELSE 0)
                                                   + (IF "probing" = "done" THEN 1 ELSE 0)
            /\ Cardinality(Arrived') = Cardinality(Arrived) + (IF co[r] = "none" THEN 1 ELSE 0)
        <5>1. "probing" \in Coroutine \ {"none"}
          BY DEF Coroutine
        <5>. QED
          BY <1>0, <3>1, <5>1, CoroutineMoves
      <4>. QED
        BY <1>1, <3>1, <4>1
    <3>5. AnswerTypes'
      BY <1>0, <3>1, <3>2, <3>3 DEF AnswerTypes
    <3>. QED
      BY <1>0, <3>1, <3>2, <3>4, <3>5 DEF TCounter
  <2>2. CASE ~(attached /\ tstate = "accepting")
    <3>1. PICK code \in Code : Answered(r, code, {"attempt", "error"})
      BY <1>4, <2>2 DEF Arrive, LifecycleCode, Code
    <3>. QED
      BY <1>3, <1>4, <3>1 DEF Arrive
  <2>. QED
    BY <2>1, <2>2
<1>5. ASSUME NEW r \in Requests, NEW to \in {"reading", "submitting"},
             co[r] \in {"probing", "reading"}, co' = [co EXCEPT ![r] = to],
             UNCHANGED <<tpermits, tin_flight, tcount, response>>
      PROVE  Kept
  <2>1. co' \in [Requests -> Coroutine]
    BY <1>0, <1>5 DEF AnswerTypes, Coroutine
  <2>2. /\ Cardinality(Awaiting') = Cardinality(Awaiting) /\ Cardinality(Done') = Cardinality(Done)
        /\ Cardinality(Arrived') = Cardinality(Arrived)
    <3>1. /\ Cardinality(Awaiting') = Cardinality(Awaiting) - (IF co[r] = "awaiting" THEN 1 ELSE 0)
                                                       + (IF to = "awaiting" THEN 1 ELSE 0)
          /\ Cardinality(Done') = Cardinality(Done) - (IF co[r] = "done" THEN 1 ELSE 0)
                                                 + (IF to = "done" THEN 1 ELSE 0)
          /\ Cardinality(Arrived') = Cardinality(Arrived) + (IF co[r] = "none" THEN 1 ELSE 0)
      <4>1. to \in Coroutine \ {"none"}
        BY DEF Coroutine
      <4>. QED
        BY <1>0, <1>5, <4>1, CoroutineMoves
    <3>. QED
      BY <1>1, <1>5, <3>1
  <2>3. AnswerTypes'
    BY <1>0, <1>5, <2>1 DEF AnswerTypes
  <2>. QED
    BY <1>0, <1>5, <2>2, <2>3
<1>6. ASSUME NEW r \in Requests, Probe(r)
      PROVE  Kept
  <2>1. CASE fstate = "accepting"
    BY <1>5, <1>6, <2>1 DEF Probe, admitVars
  <2>2. CASE fstate # "accepting"
    <3>1. PICK code \in Code : Answered(r, code, {"error"})
      BY <1>6, <2>2 DEF Probe, LifecycleCode, Code
    <3>. QED
      BY <1>3, <1>6, <3>1 DEF Probe
  <2>. QED
    BY <2>1, <2>2
<1>7. ASSUME NEW r \in Requests, ReadBody(r)
      PROVE  Kept
  <2>1. CASE Answered(r, "no_response", {"disconnect"})
    BY <1>3, <1>7, <2>1 DEF ReadBody, Code
  <2>2. CASE Answered(r, "input_error", {"error"})
    BY <1>3, <1>7, <2>2 DEF ReadBody, Code
  <2>3. CASE co' = [co EXCEPT ![r] = "submitting"] /\ UNCHANGED <<response, tcount>>
    BY <1>5, <1>7, <2>3 DEF ReadBody, admitVars
  <2>. QED
    BY <1>7, <2>1, <2>2, <2>3 DEF ReadBody
<1>8. ASSUME NEW r \in Requests, RefuseLate(r)
      PROVE  Kept
  <2>1. CASE cancelled[r]
    BY <1>3, <1>8, <2>1 DEF RefuseLate, Code
  <2>2. CASE ~cancelled[r]
    <3>1. PICK code \in Code : Answered(r, code, {"error"})
      BY <1>8, <2>2 DEF RefuseLate, LifecycleCode, Code
    <3>. QED
      BY <1>3, <1>8, <3>1 DEF RefuseLate
  <2>. QED
    BY <2>1, <2>2
<1>9. ASSUME NEW r \in Requests, RefuseFull(r)
      PROVE  Kept
  <2>1. CASE cancelled[r]
    BY <1>3, <1>9, <2>1 DEF RefuseFull, Code
  <2>2. CASE ~cancelled[r]
    BY <1>3, <1>9, <2>2 DEF RefuseFull, Code
  <2>. QED
    BY <2>1, <2>2
<1>10. ASSUME NEW r \in Requests, Submit(r)
       PROVE  Kept
  <2>1. /\ co[r] = "submitting" /\ co' = [co EXCEPT ![r] = "awaiting"] /\ tpermits > 0
        /\ TBump({"admitted"}) /\ tpermits' = tpermits - 1 /\ tin_flight' = tin_flight + 1
        /\ UNCHANGED response
    BY <1>10 DEF Submit
  <2>2. tcount' \in [TCounter -> Nat] /\ \A k \in TCounter \ {"admitted"} : tcount'[k] = tcount[k]
    BY <1>0, <2>1 DEF TBump, AnswerTypes, TCounter
  <2>3. co' \in [Requests -> Coroutine]
    BY <1>0, <2>1 DEF AnswerTypes, Coroutine
  <2>4. /\ Cardinality(Awaiting') = Cardinality(Awaiting) + 1 /\ Cardinality(Done') = Cardinality(Done)
        /\ Cardinality(Arrived') = Cardinality(Arrived)
    <3>1. /\ Cardinality(Awaiting') = Cardinality(Awaiting) - (IF co[r] = "awaiting" THEN 1 ELSE 0)
                                                       + (IF "awaiting" = "awaiting" THEN 1 ELSE 0)
          /\ Cardinality(Done') = Cardinality(Done) - (IF co[r] = "done" THEN 1 ELSE 0)
                                                 + (IF "awaiting" = "done" THEN 1 ELSE 0)
          /\ Cardinality(Arrived') = Cardinality(Arrived) + (IF co[r] = "none" THEN 1 ELSE 0)
      <4>1. "awaiting" \in Coroutine \ {"none"}
        BY DEF Coroutine
      <4>. QED
        BY <1>0, <2>1, <4>1, CoroutineMoves
    <3>. QED
      BY <1>1, <2>1, <3>1
  <2>5. AnswerTypes'
    BY <1>0, <1>1, <2>1, <2>2, <2>3, <2>4 DEF AnswerTypes
  <2>. QED
    BY <1>0, <1>1, <2>1, <2>2, <2>4, <2>5 DEF TCounter
<1>11. ASSUME NEW r \in Requests, SubmitFails(r)
       PROVE  Kept
  BY <1>3, <1>11 DEF SubmitFails, Code
<1>12. ASSUME NEW r \in Requests, Deliver(r)
       PROVE  Kept
  <2>1. PICK code \in Code, k \in {"completed", "error", "disconnect"}, names \in SUBSET TCounter :
          /\ Answered(r, code, names) /\ "attempt" \notin names
          /\ names \cap {"completed", "error", "disconnect"} = {k}
    <3>. DEFINE m == Mapped(fevent[r].outcome)
    <3>1. /\ m.code \in Code /\ m.names \in SUBSET TCounter /\ "attempt" \notin m.names
          /\ \E k \in {"completed", "error", "disconnect"} :
               m.names \cap {"completed", "error", "disconnect"} = {k}
      BY DEF Mapped, Code, TCounter
    <3>2. Answered(r, m.code, m.names)
      BY <1>12 DEF Deliver
    <3>. QED
      BY <3>1, <3>2
  <2>2. co[r] = "awaiting" /\ tin_flight' = tin_flight - 1 /\ tpermits' = tpermits + 1
    BY <1>12 DEF Deliver
  <2>. QED
    BY <1>0, <1>1, <2>1, <2>2, AnsweredBooks, CoroutineMoves DEF AnswerTypes
<1>13. ASSUME NEW r \in Requests, Worker(r)
       PROVE  Kept
  BY <1>2, <1>13
  DEF Worker, StartWork, FacadeStep, RuntimeStep, RuntimeReturns, FinishWork, answerVars, admitVars
<1>14. ASSUME NEW s \in Stoppers, StopTransport(s) \/ Stop(s)
       PROVE  Kept
  BY <1>2, <1>14 DEF StopTransport, Stop, StopFacade, JoinExecutor, FinishStop, answerVars, admitVars
<1>15. CASE BeginStart \/ FinishStart
  BY <1>2, <1>15 DEF BeginStart, FinishStart, answerVars, admitVars
<1>16. CASE UNCHANGED vars
  BY <1>2, <1>16 DEF vars, answerVars, admitVars
<1>. QED
  BY <1>4, <1>6, <1>7, <1>8, <1>9, <1>10, <1>11, <1>12, <1>13, <1>14, <1>15, <1>16 DEF Next, Loop

-------------------------------------------------------------------------------
(* The life of the transport *)

\* What the steps of the loop and of the workers leave alone.
LEMMA LoopFrame ==
  ASSUME NEW r \in Requests, Arrive(r) \/ Loop(r)
  PROVE  UNCHANGED <<lifeVars, facadeVars, runtimeVars>>
BY DEF Arrive, Loop, Probe, ReadBody, RefuseLate, RefuseFull, Submit, SubmitFails, Deliver

LEMMA WorkerFrame ==
  ASSUME NEW r \in Requests, Worker(r)
  PROVE  UNCHANGED <<lifeVars, answerVars, fstate, fcloser>>
<1>. USE DEF facadeVars, Facade!waitVars
<1>1. CASE StartWork(r)
  BY <1>1 DEF StartWork, Facade!Begin
<1>2. CASE FacadeStep(r)
  BY <1>2 DEF FacadeStep, Facade!RejectLifecycle, Facade!Admit, Facade!CancelBeforeDispatch,
              Facade!Dispatch, Facade!Leave
<1>3. CASE RuntimeReturns(r)
  BY <1>3 DEF RuntimeReturns, Facade!Complete, Facade!DownstreamError, Facade!RuntimeAtCapacity
<1>4. CASE RuntimeStep(r) \/ FinishWork(r)
  BY <1>4 DEF RuntimeStep, FinishWork
<1>. QED
  BY <1>1, <1>2, <1>3, <1>4 DEF Worker

\* Who is running after a step: somebody new only by StartWork, in an open pool.
LEMMA RunningMoves ==
  ASSUME TypeOK, [Next]_vars
  PROVE  \/ Running' \subseteq Running
         \/ /\ pool = "open" /\ Cardinality(Running) < MaxInFlight
            /\ \E r \in Requests : Running' = Running \cup {r} /\ r \notin Running
<1>. /\ work \in [Requests -> {"none", "queued", "running", "returned"}]
  BY DEF TypeOK
<1>1. CASE UNCHANGED work
  BY <1>1 DEF Running
<1>2. ASSUME NEW r \in Requests, Submit(r) \/ SubmitFails(r)
      PROVE  Running' \subseteq Running
  BY <1>2 DEF Submit, SubmitFails, Running
<1>3. ASSUME NEW r \in Requests, FinishWork(r)
      PROVE  Running' \subseteq Running
  BY <1>3 DEF FinishWork, Running
<1>4. ASSUME NEW r \in Requests, StartWork(r)
      PROVE  /\ pool = "open" /\ Cardinality(Running) < MaxInFlight
             /\ Running' = Running \cup {r} /\ r \notin Running
  <2>1. work[r] = "queued" /\ work' = [work EXCEPT ![r] = "running"]
    BY <1>4 DEF StartWork
  <2>2. Running' = Running \cup {r} /\ r \notin Running
    BY <2>1 DEF Running
  <2>. QED
    BY <1>4, <2>2 DEF StartWork
<1>5. ASSUME NEW r \in Requests,
             Arrive(r) \/ Probe(r) \/ ReadBody(r) \/ RefuseLate(r) \/ RefuseFull(r) \/ Deliver(r)
             \/ FacadeStep(r) \/ RuntimeStep(r) \/ RuntimeReturns(r)
      PROVE  UNCHANGED work
  BY <1>5 DEF Arrive, Probe, ReadBody, RefuseLate, RefuseFull, Deliver,
              FacadeStep, RuntimeStep, RuntimeReturns
<1>6. ASSUME NEW s \in Stoppers, StopTransport(s) \/ Stop(s)
      PROVE  UNCHANGED work
  BY <1>6 DEF StopTransport, Stop, StopFacade, JoinExecutor, FinishStop
<1>7. CASE BeginStart \/ FinishStart \/ UNCHANGED vars
  BY <1>1, <1>7 DEF BeginStart, FinishStart, vars
<1>. QED
  BY <1>1, <1>2, <1>3, <1>4, <1>5, <1>6, <1>7 DEF Next, Loop, Worker

LEMMA WorkersStep ==
  ASSUME TypeOK, WorkersBounded, [Next]_vars
  PROVE  WorkersBounded'
<1>1. /\ IsFiniteSet(Running) /\ Cardinality(Running) \in Nat /\ MaxInFlight \in Nat
      /\ IsFiniteSet(Running') /\ Cardinality(Running') \in Nat
  BY RequestSets, TransportAssumption DEF Running, TransportAssumption
<1>2. CASE Running' \subseteq Running
  <2>1. Cardinality(Running') <= Cardinality(Running)
    BY <1>1, <1>2, FS_Subset
  <2>. QED
    BY <1>1, <2>1 DEF WorkersBounded
<1>3. ASSUME Cardinality(Running) < MaxInFlight,
             NEW r \in Requests, Running' = Running \cup {r}, r \notin Running
      PROVE  WorkersBounded'
  <2>1. Cardinality(Running') = Cardinality(Running) + 1
    BY <1>1, <1>3, FS_AddElement
  <2>. QED
    BY <1>1, <1>3, <2>1 DEF WorkersBounded
<1>. QED
  BY <1>2, <1>3, RunningMoves

LEMMA LifeStep ==
  ASSUME Inv, [Next]_vars
  PROVE  Life'
<1>. /\ Life /\ starter \in {"idle", "starting", "started"} /\ pool \in {"open", "shut"}
     /\ stopper \in [Stoppers -> {"idle", "facade", "draining", "joining", "closing"}]
     /\ fcloser \in [Stoppers -> {"idle", "waiting"}]
  BY DEF Inv, TypeOK, Facade!TypeOK
<1>0. pool = "shut" => Running' \subseteq Running
  BY RunningMoves DEF Inv
<1>1. CASE UNCHANGED <<lifeVars, fstate, fcloser>>
  BY <1>0, <1>1 DEF Life, lifeVars
<1>2. CASE BeginStart
  BY <1>2 DEF BeginStart, Life, facadeVars, Running
<1>3. CASE FinishStart
  BY <1>3 DEF FinishStart, Life, facadeVars, Running
<1>4. ASSUME NEW s \in Stoppers, StopTransport(s)
      PROVE  Life'
  BY <1>4 DEF StopTransport, Life, facadeVars, Running
<1>5. ASSUME NEW s \in Stoppers, StopFacade(s)
      PROVE  Life'
  <2>. /\ stopper' = [stopper EXCEPT ![s] = IF fcloser'[s] = "waiting" THEN "draining" ELSE "joining"]
       /\ UNCHANGED <<starter, tstate, attached, pool, work>>
    BY <1>5 DEF StopFacade
  <2>. stopper[s] \in {"facade", "draining"}
    BY <1>5 DEF StopFacade
  <2>1. CASE stopper[s] = "facade" /\ fstate # "closed" /\ Facade!Shutdown(s)
    BY <2>1 DEF Facade!Shutdown, Facade!DrainOrSleep, Life, Running
  <2>2. CASE stopper[s] = "facade" /\ fstate = "closed" /\ UNCHANGED facadeVars
    BY <2>2 DEF facadeVars, Life, Running
  <2>3. CASE stopper[s] = "draining" /\ Facade!ResumeShutdown(s)
    BY <2>3 DEF Facade!ResumeShutdown, Life, Running
  <2>. QED
    BY <1>5, <2>1, <2>2, <2>3 DEF StopFacade
<1>6. ASSUME NEW s \in Stoppers, JoinExecutor(s)
      PROVE  Life'
  BY <1>6 DEF JoinExecutor, Life, facadeVars, Running
<1>7. ASSUME NEW s \in Stoppers, FinishStop(s)
      PROVE  Life'
  BY <1>7 DEF FinishStop, Life, facadeVars, Running
<1>8. ASSUME NEW r \in Requests, Arrive(r) \/ Loop(r) \/ Worker(r)
      PROVE  Life'
  BY <1>1, <1>8, LoopFrame, WorkerFrame DEF facadeVars
<1>9. CASE UNCHANGED vars
  BY <1>1, <1>9 DEF vars, lifeVars, facadeVars
<1>. QED
  BY <1>2, <1>3, <1>4, <1>5, <1>6, <1>7, <1>8, <1>9 DEF Next, Stop

\* The types, given those of the books and of the two layers below.
LEMMA TypeStep ==
  ASSUME Inv, [Next]_vars, AnswerTypes', Facade!TypeOK', Runtime!TypeOK'
  PROVE  TypeOK'
<1>. DEFINE Rest == /\ config \in {"disabled", "inactive", "active"}
                    /\ starter \in {"idle", "starting", "started"}
                    /\ tstate \in TState
                    /\ attached \in BOOLEAN
                    /\ cancelled \in [Requests -> BOOLEAN]
                    /\ orphan \subseteq Requests
                    /\ work \in [Requests -> {"none", "queued", "running", "returned"}]
                    /\ pool \in {"open", "shut"}
                    /\ stopper \in [Stoppers -> {"idle", "facade", "draining", "joining", "closing"}]
<1>. SUFFICES Rest'
  BY DEF TypeOK, AnswerTypes, Coroutine
<1>0. Rest
  BY DEF Inv, TypeOK
<1>1. CASE UNCHANGED vars
  BY <1>0, <1>1 DEF vars, lifeVars, answerVars
<1>2. CASE BeginStart \/ FinishStart
  BY <1>0, <1>2 DEF BeginStart, FinishStart, answerVars, TState
<1>3. ASSUME NEW r \in Requests, Arrive(r) \/ Probe(r) \/ RefuseLate(r) \/ RefuseFull(r) \/ Deliver(r)
      PROVE  Rest'
  BY <1>0, <1>3 DEF Arrive, Probe, RefuseLate, RefuseFull, Deliver, lifeVars
<1>4. ASSUME NEW r \in Requests, ReadBody(r)
      PROVE  Rest'
  BY <1>0, <1>4 DEF ReadBody, lifeVars
<1>5. ASSUME NEW r \in Requests, Submit(r) \/ SubmitFails(r)
      PROVE  Rest'
  BY <1>0, <1>5 DEF Submit, SubmitFails, lifeVars
<1>6. ASSUME NEW r \in Requests, Worker(r)
      PROVE  Rest'
  <2>1. UNCHANGED <<lifeVars, cancelled, orphan>>
    BY <1>6, WorkerFrame DEF answerVars
  <2>2. work' \in [Requests -> {"none", "queued", "running", "returned"}]
    BY <1>0, <1>6 DEF Worker, StartWork, FacadeStep, RuntimeStep, RuntimeReturns, FinishWork
  <2>. QED
    BY <1>0, <2>1, <2>2 DEF lifeVars
<1>7. ASSUME NEW s \in Stoppers, StopTransport(s) \/ Stop(s)
      PROVE  Rest'
  BY <1>0, <1>7 DEF StopTransport, Stop, StopFacade, JoinExecutor, FinishStop, answerVars, TState
<1>. QED
  BY <1>1, <1>2, <1>3, <1>4, <1>5, <1>6, <1>7 DEF Next, Loop

-------------------------------------------------------------------------------
(* A request's course through the layers *)

\* A call that holds a permit of the runtime runs on a worker.
LEMMA HoldersRun ==
  ASSUME OnCourse
  PROVE  Runtime!Holding \subseteq Running
BY DEF OnCourse, CallNested, Runtime!Holding, Running

\* The runtime has as many permits as there are workers, and the caller that asks
\* for one is a worker that holds none.
LEMMA AlwaysAPermit ==
  ASSUME Inv, Inherited, NEW r \in Requests, rat[r] = "attempted"
  PROVE  rpermits # 0
<1>1. /\ IsFiniteSet(Running) /\ Cardinality(Running) \in Nat
      /\ IsFiniteSet(Runtime!Holding) /\ Cardinality(Runtime!Holding) \in Nat
  BY RequestSets DEF Running, Runtime!Holding
<1>2. r \in Running /\ Runtime!Holding \subseteq Running \ {r}
  <2>1. r \in Running
    BY DEF Inv, OnCourse, CallNested, Running
  <2>2. r \notin Runtime!Holding
    BY DEF Runtime!Holding
  <2>. QED
    BY <2>1, <2>2, HoldersRun DEF Inv
<1>3. Cardinality(Running \ {r}) = Cardinality(Running) - 1 /\ IsFiniteSet(Running \ {r})
  BY <1>1, <1>2, FS_RemoveElement
<1>4. Cardinality(Runtime!Holding) <= Cardinality(Running) - 1
  BY <1>2, <1>3, FS_Subset
<1>5. /\ Cardinality(Running) <= MaxInFlight /\ MaxInFlight \in Nat
      /\ rpermits + Cardinality(Runtime!Holding) = MaxInFlight /\ rpermits \in Nat
  BY TransportAssumption DEF Inv, WorkersBounded, Inherited, Runtime!TypeOK, TransportAssumption
<1>. QED
  BY <1>1, <1>4, <1>5

\* On the loop: what the coroutine writes.
LEMMA LoopCourse ==
  ASSUME Inv, NEW r \in Requests, Arrive(r) \/ Loop(r)
  PROVE  OnCourse'
<1>. /\ co \in [Requests -> Coroutine] /\ response \in [Requests -> Code]
     /\ work \in [Requests -> {"none", "queued", "running", "returned"}]
     /\ cancelled \in [Requests -> BOOLEAN] /\ OnCourse
  BY DEF Inv, TypeOK, Coroutine
<1>. UNCHANGED <<fpc, fevent, rat, rresult, rprofile, rquestion>>
  BY LoopFrame DEF facadeVars, runtimeVars
<1>. USE DEF OnCourse, CallNested, CallEarned, RunEarned, AnswerEarned, Untouched
<1>1. ASSUME NEW code \in Code, NEW names, Answered(r, code, names), UNCHANGED <<work, cancelled>>,
             work[r] = "none", code \notin Answers
      PROVE  OnCourse'
  BY <1>1 DEF Answered, Refusals
<1>2. CASE Arrive(r)
  <2>1. CASE attached /\ tstate = "accepting"
    BY <1>2, <2>1 DEF Arrive
  <2>2. CASE ~(attached /\ tstate = "accepting")
    BY <1>1, <1>2, <2>2 DEF Arrive, LifecycleCode, Code, Answers
  <2>. QED
    BY <2>1, <2>2
<1>3. CASE Probe(r)
  <2>1. CASE fstate = "accepting"
    BY <1>3, <2>1 DEF Probe
  <2>2. CASE fstate # "accepting"
    BY <1>1, <1>3, <2>2 DEF Probe, LifecycleCode, Code, Answers
  <2>. QED
    BY <2>1, <2>2
<1>4. CASE ReadBody(r)
  <2>1. CASE UNCHANGED cancelled
    BY <1>1, <1>4, <2>1 DEF ReadBody, Code, Answers
  <2>2. CASE /\ co' = [co EXCEPT ![r] = "submitting"]
             /\ \E gone \in BOOLEAN : cancelled' = [cancelled EXCEPT ![r] = gone]
             /\ UNCHANGED <<response, tcount>>
    BY <1>4, <2>2 DEF ReadBody
  <2>. QED
    BY <1>4, <2>1, <2>2 DEF ReadBody
<1>5. CASE RefuseLate(r)
  BY <1>1, <1>5 DEF RefuseLate, LifecycleCode, Code, Answers
<1>6. CASE RefuseFull(r)
  BY <1>1, <1>6 DEF RefuseFull, Code, Answers
<1>7. CASE Submit(r)
  BY <1>7 DEF Submit, Answers, Refusals
<1>8. CASE SubmitFails(r)
  BY <1>8 DEF SubmitFails, Answered, Answers, Refusals
<1>9. CASE Deliver(r)
  <2>. DEFINE m == Mapped(fevent[r].outcome)
  <2>1. /\ work[r] = "returned" /\ co[r] = "awaiting" /\ Answered(r, m.code, m.names)
        /\ UNCHANGED <<work, cancelled>>
    BY <1>9 DEF Deliver
  <2>2. /\ m.code \in Answers => fevent[r].outcome \in Answers
        /\ m.code \in Refusals => fevent[r].outcome \notin Answers \cup {"downstream_error"}
    BY DEF Mapped, Answers, Refusals
  <2>3. /\ m.code \in Answers => rresult[r] = "run"
        /\ m.code \in Refusals => Untouched(r)
    BY <2>1, <2>2
  <2>. HIDE DEF m
  <2>. QED
    BY <2>1, <2>3 DEF Answered
<1>. QED
  BY <1>2, <1>3, <1>4, <1>5, <1>6, <1>7, <1>8, <1>9 DEF Loop

\* On the worker, outside the runtime.
LEMMA FacadeCourse ==
  ASSUME Inv, Inherited, NEW r \in Requests,
         StartWork(r) \/ FacadeStep(r) \/ RuntimeReturns(r) \/ FinishWork(r)
  PROVE  OnCourse'
<1>. /\ co \in [Requests -> Coroutine] /\ response \in [Requests -> Code]
     /\ work \in [Requests -> {"none", "queued", "running", "returned"}]
     /\ fpc \in [Requests -> {"out", "validating", "admitted", "dispatched", "leaving"}]
     /\ fevent \in [Requests -> Facade!PublicEvent]
     /\ OnCourse
  BY DEF Inv, TypeOK, Coroutine, Inherited, Facade!TypeOK
<1>. UNCHANGED <<co, cancelled, response>>
  BY WorkerFrame DEF Worker, answerVars
<1>. UNCHANGED <<rat, rresult, rprofile, rquestion>>
  BY DEF StartWork, FacadeStep, RuntimeReturns, FinishWork, runtimeVars
<1>. USE DEF OnCourse, CallNested, CallEarned, RunEarned, AnswerEarned, Untouched,
             Facade!Goto, Facade!Record, Facade!Event
<1>1. CASE StartWork(r)
  BY <1>1 DEF StartWork, Facade!Begin, Facade!NoEvent, Answers
<1>2. CASE FacadeStep(r)
  <2>. UNCHANGED work
    BY <1>2 DEF FacadeStep
  <2>1. CASE Facade!RejectLifecycle(r)
    BY <2>1 DEF Facade!RejectLifecycle, Answers
  <2>2. CASE Facade!Admit(r)
    BY <2>2 DEF Facade!Admit
  <2>3. CASE cancelled[r] /\ Facade!CancelBeforeDispatch(r)
    BY <2>3 DEF Facade!CancelBeforeDispatch, Answers
  <2>4. CASE ~cancelled[r] /\ Facade!Dispatch(r)
    BY <2>4 DEF Facade!Dispatch
  <2>5. CASE Facade!Leave(r)
    BY <2>5 DEF Facade!Leave
  <2>. QED
    BY <1>2, <2>1, <2>2, <2>3, <2>4, <2>5 DEF FacadeStep
<1>3. CASE RuntimeReturns(r)
  <2>. UNCHANGED work /\ rat[r] = "idle" /\ rresult[r] # "capacity"
    BY <1>3 DEF RuntimeReturns
  <2>1. ASSUME rresult[r] = "run", NEW refused \in BOOLEAN, Facade!Complete(r, refused)
        PROVE  OnCourse'
    BY <2>1 DEF Facade!Complete, Answers
  <2>2. CASE Facade!DownstreamError(r)
    BY <2>2 DEF Facade!DownstreamError, Answers
  <2>. QED
    BY <1>3, <2>1, <2>2 DEF RuntimeReturns
<1>4. CASE FinishWork(r)
  <2>. work[r] = "running" /\ fpc[r] = "out" /\ work' = [work EXCEPT ![r] = "returned"]
       /\ UNCHANGED <<fpc, fevent>>
    BY <1>4 DEF FinishWork, facadeVars
  <2>. QED
    OBVIOUS
<1>. QED
  BY <1>1, <1>2, <1>3, <1>4

\* Inside the runtime: no step but the call's own writes what is said of it.
LEMMA RuntimeCourse ==
  ASSUME Inv, Inherited, NEW r \in Requests, RuntimeStep(r)
  PROVE  OnCourse'
<1>. /\ rat \in [Requests -> Runtime!Place] /\ rquestion \in [Requests -> Requests \cup {NoRun}]
     /\ rresult \in [Requests -> {"none", "run", "capacity", "error"}]
     /\ rprofile \in [Requests -> Requests \cup {NoRun}]
     /\ OnCourse
  BY DEF Inv, Inherited, Runtime!TypeOK
<1>. UNCHANGED <<co, cancelled, response, work, fpc, fevent>>
  BY DEF RuntimeStep, answerVars, facadeVars
<1>. USE DEF OnCourse, CallNested, CallEarned, RunEarned, AnswerEarned, Untouched,
             Runtime!Move, Runtime!Place
<1>1. CASE fpc[r] = "dispatched" /\ rresult[r] = "none" /\ Runtime!Attempt(r, r)
  BY <1>1 DEF Runtime!Attempt
<1>2. CASE Runtime!AcquirePermit(r)
  BY <1>2 DEF Runtime!AcquirePermit
<1>3. CASE Runtime!FindNoPermit(r)
  BY <1>3, AlwaysAPermit DEF Runtime!FindNoPermit
<1>4. CASE Runtime!RaiseCapacity(r)
  BY <1>4 DEF Runtime!RaiseCapacity
<1>5. CASE Runtime!CountAdmission(r)
  BY <1>5 DEF Runtime!CountAdmission
<1>6. CASE Runtime!CountDownstream(r)
  BY <1>6 DEF Runtime!CountDownstream
<1>7. CASE Runtime!PrepareRequest(r)
  BY <1>7 DEF Runtime!PrepareRequest
<1>8. CASE Runtime!Retrieve(r)
  BY <1>8 DEF Runtime!Retrieve
<1>9. CASE Runtime!EntrypointReturns(r)
  BY <1>9 DEF Runtime!EntrypointReturns
<1>10. CASE Runtime!EntrypointRaises(r)
  BY <1>10 DEF Runtime!EntrypointRaises
<1>11. CASE Runtime!TakeRun(r)
  <2>1. CASE rpending[rtoken[r]] # NoRun
    BY <1>11, <2>1 DEF Runtime!TakeRun
  <2>2. CASE rpending[rtoken[r]] = NoRun
    BY <1>11, <2>2 DEF Runtime!TakeRun
  <2>. QED
    BY <2>1, <2>2
<1>12. CASE Runtime!DiscardRun(r)
  BY <1>12 DEF Runtime!DiscardRun
<1>13. CASE Runtime!TraceRaises(r)
  BY <1>13 DEF Runtime!TraceRaises
<1>14. CASE Runtime!CountCompleted(r)
  BY <1>14 DEF Runtime!CountCompleted
<1>15. CASE Runtime!CountFailed(r)
  BY <1>15 DEF Runtime!CountFailed
<1>16. CASE Runtime!LeaveFlight(r)
  BY <1>16 DEF Runtime!LeaveFlight
<1>17. CASE Runtime!ReleasePermit(r)
  BY <1>17 DEF Runtime!ReleasePermit
<1>. QED
  BY <1>1, <1>2, <1>3, <1>4, <1>5, <1>6, <1>7, <1>8, <1>9, <1>10, <1>11, <1>12, <1>13, <1>14,
     <1>15, <1>16, <1>17 DEF RuntimeStep, Runtime!Continue

LEMMA CourseStep ==
  ASSUME Inv, Inherited, [Next]_vars
  PROVE  OnCourse'
<1>. USE DEF OnCourse, CallNested, CallEarned, RunEarned, AnswerEarned, Untouched
<1>1. ASSUME NEW s \in Stoppers, StopTransport(s) \/ Stop(s)
      PROVE  UNCHANGED <<co, cancelled, response, work, fpc, fevent, rat, rresult, rprofile, rquestion>>
  BY <1>1 DEF StopTransport, Stop, StopFacade, JoinExecutor, FinishStop, Facade!Shutdown,
              Facade!ResumeShutdown, Facade!callVars, answerVars, facadeVars, runtimeVars
<1>2. CASE BeginStart \/ FinishStart
  BY <1>2 DEF Inv, BeginStart, FinishStart, answerVars, facadeVars, runtimeVars
<1>3. CASE UNCHANGED vars
  BY <1>3 DEF Inv, vars, answerVars, facadeVars, runtimeVars
<1>4. ASSUME NEW s \in Stoppers, StopTransport(s) \/ Stop(s)
      PROVE  OnCourse'
  BY <1>1, <1>4 DEF Inv
<1>. QED
  BY <1>2, <1>3, <1>4, LoopCourse, FacadeCourse, RuntimeCourse DEF Next, Worker

-------------------------------------------------------------------------------
(* The theorems *)

LEMMA InvInit == Init => Inv
<1>. SUFFICES ASSUME Init PROVE Inv
  OBVIOUS
<1>. USE DEF Init
<1>1. Facade!TypeOK
  <2>1. Facade!NoEvent \in Facade!PublicEvent
    BY DEF Facade!NoEvent, Facade!PublicEvent, Facade!Outcome
  <2>. QED
    BY <2>1 DEF Facade!FacadeInit, Facade!TypeOK, Facade!State
<1>2. Runtime!TypeOK
  BY TransportAssumption
  DEF Runtime!RuntimeInit, Runtime!TypeOK, Runtime!Place, Runtime!Tally, TransportAssumption
<1>3. TypeOK
  <2>1. attached \in BOOLEAN /\ cancelled \in [Requests -> BOOLEAN]
    OBVIOUS
  <2>2. tpermits \in 0 .. MaxInFlight /\ tin_flight \in 0 .. MaxInFlight
    BY TransportAssumption DEF TransportAssumption
  <2>3. tcount \in [TCounter -> Nat]
    OBVIOUS
  <2>4. tstate \in TState /\ response \in [Requests -> Code] /\ orphan \subseteq Requests
    BY DEF TState, Code
  <2>5. co \in [Requests -> {"none", "probing", "reading", "submitting", "awaiting", "done"}]
    OBVIOUS
  <2>6. /\ work \in [Requests -> {"none", "queued", "running", "returned"}]
        /\ stopper \in [Stoppers -> {"idle", "facade", "draining", "joining", "closing"}]
    OBVIOUS
  <2>. QED
    BY <1>1, <1>2, <2>1, <2>2, <2>3, <2>4, <2>5, <2>6 DEF TypeOK
<1>4. Awaiting = {} /\ Done = {} /\ Arrived = {} /\ Running = {}
  BY DEF Awaiting, Done, Arrived, Running
<1>5. TransportBooks /\ WorkersBounded
  BY <1>4, TransportAssumption, FS_EmptySet
  DEF TransportBooks, WorkersBounded, Arrived, TCounter, TransportAssumption
<1>6. OnCourse
  BY DEF OnCourse, CallNested, CallEarned, RunEarned, AnswerEarned, Untouched, Answers, Refusals,
         Facade!FacadeInit, Facade!NoEvent, Runtime!RuntimeInit
<1>7. Life
  BY <1>4 DEF Life, Facade!FacadeInit
<1>. QED
  BY <1>3, <1>5, <1>6, <1>7 DEF Inv

\* The inductive invariant of the composition: the types, the books, the bound on
\* the workers, each request's course and the life of the transport.
THEOREM TransportInvariant == Spec => []Inv
<1>1. Inv /\ Inherited /\ Inherited' /\ [Next]_vars => Inv'
  BY BooksStep, WorkersStep, CourseStep, LifeStep, TypeStep DEF Inv, Inherited
<1>. QED
  BY InvInit, <1>1, InheritedHolds, PTL DEF Spec

\* The types of the transport's own variables and of the layers below.
THEOREM TransportTypes == Spec => []TypeOK
BY TransportInvariant, PTL DEF Inv

\* Permits, in-flight count, waiting coroutines and counters agree.
THEOREM BooksBalance == Spec => []TransportBooks
BY TransportInvariant, PTL DEF Inv

\* The runtime's limit is never met by what the transport let through, whatever
\* the two limits are, as long as they are the same.
THEOREM NeverSaturated == Spec => []RuntimeNeverSaturated
<1>1. Inv => RuntimeNeverSaturated
  BY DEF Inv, OnCourse, RunEarned, RuntimeNeverSaturated
<1>. QED
  BY <1>1, TransportInvariant, PTL

\* A closed transport left no worker, no permit out, and a closed facade.
THEOREM ClosedIsStopped == Spec => []ClosedMeansStopped
<1>1. Inv /\ Inherited => ClosedMeansStopped
  <2>. SUFFICES ASSUME Inv, Inherited, tstate = "closed", attached
                PROVE  fstate = "closed" /\ Running = {} /\ rpermits = MaxInFlight
    BY DEF ClosedMeansStopped
  <2>1. fstate = "closed" /\ Running = {}
    BY DEF Inv, Life
  <2>2. Runtime!Holding = {}
    BY <2>1, HoldersRun DEF Inv
  <2>3. rpermits + 0 = MaxInFlight /\ rpermits \in Nat
    BY <2>2, FS_EmptySet DEF Inherited, Runtime!TypeOK
  <2>. QED
    BY <2>1, <2>3
<1>. QED
  BY <1>1, TransportInvariant, InheritedHolds, PTL

-------------------------------------------------------------------------------
(* Until a shutdown begins *)

Drained == {"facade_draining", "facade_closed"}

\* What a request may have come to while nobody shuts anything down: no refusal by
\* a drain, neither told nor on its way; a signal set before the submission is what
\* the worker finds, and what the client's answer follows.
Undisturbed(r) ==
  /\ response[r] \notin Drained
  /\ fevent[r].outcome \notin Drained
  /\ co[r] \in {"none", "probing", "reading"} => ~cancelled[r]
  /\ cancelled[r] /\ (fpc[r] = "leaving" \/ (fpc[r] = "out" /\ work[r] \in {"running", "returned"}))
       => fevent[r].outcome = "cancelled_before_dispatch"
  /\ cancelled[r] /\ co[r] = "done" /\ r \notin orphan => response[r] = "no_response"

\* Before start() ends requests are turned away at the door.
Unstarted(r) == co[r] \in {"none", "done"} /\ ~cancelled[r]

Quiet ==
  /\ tstate = "accepting" \/ starter # "started" =>
       /\ fstate = "accepting"
       /\ \A s \in Stoppers : stopper[s] = "idle"
       /\ \A r \in Requests : Undisturbed(r)
  /\ starter # "started" => \A r \in Requests : Unstarted(r)

LEMMA QuietInit == Init => Quiet
BY DEF Init, Quiet, Undisturbed, Unstarted, Drained, Facade!FacadeInit, Facade!NoEvent

\* On the loop.
LEMMA QuietLoop ==
  ASSUME Inv, Quiet, NEW r \in Requests, Arrive(r) \/ Loop(r)
  PROVE  Quiet'
<1>. /\ co \in [Requests -> Coroutine] /\ response \in [Requests -> Code]
     /\ work \in [Requests -> {"none", "queued", "running", "returned"}]
     /\ cancelled \in [Requests -> BOOLEAN] /\ orphan \subseteq Requests
     /\ OnCourse /\ Life
  BY DEF Inv, TypeOK, Coroutine
<1>0. /\ UNCHANGED <<tstate, starter, attached, stopper, fstate, fpc, fevent>>
      /\ \A q \in Requests \ {r} :
           UNCHANGED <<co[q], cancelled[q], response[q], work[q]>> /\ (q \in orphan' <=> q \in orphan)
  <2>1. UNCHANGED <<tstate, starter, attached, stopper, fstate, fpc, fevent>>
    BY LoopFrame DEF lifeVars, facadeVars
  <2>2. \A q \in Requests \ {r} : UNCHANGED <<co[q], response[q]>>
    BY DEF Arrive, Loop, Probe, ReadBody, RefuseLate, RefuseFull, Submit, SubmitFails, Deliver, Answered
  <2>3. \A q \in Requests \ {r} : UNCHANGED <<cancelled[q], work[q]>> /\ (q \in orphan' <=> q \in orphan)
    BY DEF Arrive, Loop, Probe, ReadBody, RefuseLate, RefuseFull, Submit, SubmitFails, Deliver
  <2>. QED
    BY <2>1, <2>2, <2>3
<1>1. ASSUME NEW q \in Requests \ {r}
      PROVE  (Undisturbed(q) => Undisturbed(q)') /\ (Unstarted(q) => Unstarted(q)')
  BY <1>0, <1>1 DEF Undisturbed, Unstarted
<1>2. ASSUME starter # "started"
      PROVE  /\ Arrive(r) /\ UNCHANGED cancelled
             /\ Answered(r, "facade_not_active", {"attempt", "error"})
             /\ Unstarted(r)'
  <2>1. co[r] \in {"none", "done"} /\ ~cancelled[r] /\ ~attached
    BY <1>2 DEF Quiet, Unstarted, Life
  <2>2. ~Loop(r)
    BY <2>1 DEF Loop, Probe, ReadBody, RefuseLate, RefuseFull, Submit, SubmitFails, Deliver
  <2>3. Arrive(r) /\ Answered(r, "facade_not_active", {"attempt", "error"}) /\ UNCHANGED cancelled
    BY <2>1, <2>2 DEF Arrive
  <2>. QED
    BY <2>1, <2>3 DEF Answered, Unstarted
<1>3. ASSUME tstate = "accepting" \/ starter # "started"
      PROVE  Undisturbed(r)'
  <2>0. Undisturbed(r) /\ fstate = "accepting"
    BY <1>3 DEF Quiet
  <2>1. CASE starter # "started"
    <3>1. co' = [co EXCEPT ![r] = "done"] /\ response' = [response EXCEPT ![r] = "facade_not_active"]
          /\ UNCHANGED <<work, cancelled>> /\ ~cancelled[r]
      BY <1>2, <2>1 DEF Answered, Arrive, Quiet, Unstarted
    <3>. QED
      BY <2>0, <3>1, <1>0 DEF Undisturbed, Drained
  <2>2. CASE starter = "started" /\ tstate = "accepting"
    <3>1. CASE Arrive(r)
      <4>1. ~cancelled[r] /\ UNCHANGED <<cancelled, work>>
        BY <2>0, <3>1 DEF Arrive, Undisturbed
      <4>2. response'[r] \notin Drained
        BY <2>0, <2>2, <3>1 DEF Arrive, Answered, Drained, Undisturbed
      <4>. QED
        BY <1>0, <2>0, <4>1, <4>2 DEF Undisturbed
    <3>2. CASE Probe(r)
      BY <1>0, <2>0, <3>2 DEF Probe, Undisturbed
    <3>3. CASE ReadBody(r)
      <4>1. CASE Answered(r, "no_response", {"disconnect"}) /\ UNCHANGED <<cancelled, work>>
        BY <1>0, <2>0, <4>1 DEF Answered, Undisturbed, Drained
      <4>2. CASE Answered(r, "input_error", {"error"}) /\ UNCHANGED <<cancelled, work>>
        BY <1>0, <2>0, <3>3, <4>2 DEF ReadBody, Answered, Undisturbed, Drained
      <4>3. CASE /\ co' = [co EXCEPT ![r] = "submitting"]
                 /\ UNCHANGED <<response, work>>
        BY <1>0, <2>0, <3>3, <4>3 DEF ReadBody, Undisturbed, OnCourse, CallNested
      <4>. QED
        BY <3>3, <4>1, <4>2, <4>3 DEF ReadBody
    <3>4. CASE RefuseLate(r)
      BY <2>2, <3>4 DEF RefuseLate
    <3>5. CASE RefuseFull(r)
      <4>1. CASE cancelled[r]
        BY <1>0, <2>0, <3>5, <4>1 DEF RefuseFull, Answered, Undisturbed, Drained
      <4>2. CASE ~cancelled[r]
        BY <1>0, <2>0, <3>5, <4>2 DEF RefuseFull, Answered, Undisturbed, Drained
      <4>. QED
        BY <4>1, <4>2
    <3>6. CASE Submit(r)
      <4>1. /\ co[r] = "submitting" /\ co' = [co EXCEPT ![r] = "awaiting"]
            /\ work' = [work EXCEPT ![r] = "queued"] /\ UNCHANGED <<cancelled, response, orphan>>
        BY <3>6 DEF Submit
      <4>2. fpc[r] = "out"
        BY <4>1 DEF OnCourse, CallNested
      <4>. QED
        BY <1>0, <2>0, <4>1, <4>2 DEF Undisturbed
    <3>7. CASE SubmitFails(r)
      <4>1. /\ co[r] = "submitting" /\ co' = [co EXCEPT ![r] = "done"]
            /\ response' = [response EXCEPT ![r] = "internal_error"] /\ r \in orphan'
            /\ work' = [work EXCEPT ![r] = "queued"] /\ UNCHANGED cancelled
        BY <3>7 DEF SubmitFails, Answered
      <4>2. fpc[r] = "out"
        BY <4>1 DEF OnCourse, CallNested
      <4>. QED
        BY <1>0, <2>0, <4>1, <4>2 DEF Undisturbed, Drained
    <3>8. CASE Deliver(r)
      <4>. DEFINE m == Mapped(fevent[r].outcome)
      <4>1. /\ work[r] = "returned" /\ UNCHANGED <<work, cancelled, orphan>>
            /\ co' = [co EXCEPT ![r] = "done"] /\ response' = [response EXCEPT ![r] = m.code]
        BY <3>8 DEF Deliver, Answered
      <4>2. fpc[r] = "out"
        BY <4>1 DEF OnCourse, CallNested
      <4>3. cancelled[r] => m.code = "no_response"
        BY <2>0, <4>1, <4>2 DEF Undisturbed, Mapped
      <4>4. m.code \notin Drained
        BY <2>0 DEF Undisturbed, Mapped, Drained
      <4>. HIDE DEF m
      <4>. QED
        BY <1>0, <2>0, <4>1, <4>2, <4>3, <4>4 DEF Undisturbed
    <3>. QED
      BY <3>1, <3>2, <3>3, <3>4, <3>5, <3>6, <3>7, <3>8 DEF Loop
  <2>. QED
    BY <1>3, <2>1, <2>2
<1>. QED
  BY <1>0, <1>1, <1>2, <1>3 DEF Quiet

\* On the worker.
LEMMA QuietWorker ==
  ASSUME Inv, Inherited, Quiet, NEW r \in Requests, Worker(r)
  PROVE  Quiet'
<1>. /\ work \in [Requests -> {"none", "queued", "running", "returned"}]
     /\ fpc \in [Requests -> {"out", "validating", "admitted", "dispatched", "leaving"}]
     /\ fevent \in [Requests -> Facade!PublicEvent]
     /\ OnCourse
  BY DEF Inv, TypeOK, Inherited, Facade!TypeOK
<1>0. UNCHANGED <<tstate, starter, stopper, fstate, co, cancelled, response, orphan>>
  BY WorkerFrame DEF lifeVars, answerVars
<1>1. ASSUME NEW q \in Requests \ {r}
      PROVE  UNCHANGED <<work[q], fpc[q], fevent[q]>>
  <2>. USE DEF Facade!Goto, Facade!Record, Facade!Bump
  <2>1. CASE StartWork(r)
    BY <1>1, <2>1 DEF StartWork, Facade!Begin
  <2>2. CASE FacadeStep(r)
    BY <1>1, <2>2 DEF FacadeStep, Facade!RejectLifecycle, Facade!Admit, Facade!CancelBeforeDispatch,
                      Facade!Dispatch, Facade!Leave
  <2>3. CASE RuntimeReturns(r)
    BY <1>1, <2>3 DEF RuntimeReturns, Facade!Complete, Facade!DownstreamError, Facade!RuntimeAtCapacity
  <2>4. CASE RuntimeStep(r) \/ FinishWork(r)
    BY <1>1, <2>4 DEF RuntimeStep, FinishWork, facadeVars
  <2>. QED
    BY <2>1, <2>2, <2>3, <2>4 DEF Worker
<1>2. ASSUME NEW q \in Requests \ {r}
      PROVE  Undisturbed(q) => Undisturbed(q)'
  BY <1>0, <1>1, <1>2 DEF Undisturbed
<1>3. ASSUME tstate = "accepting" \/ starter # "started"
      PROVE  Undisturbed(r)'
  <2>0. Undisturbed(r) /\ fstate = "accepting"
    BY <1>3 DEF Quiet
  <2>1. SUFFICES /\ fevent'[r].outcome \notin Drained
                 /\ cancelled[r] /\ (fpc'[r] = "leaving" \/ (fpc'[r] = "out" /\ work'[r] \in {"running", "returned"}))
                      => fevent'[r].outcome = "cancelled_before_dispatch"
    BY <1>0, <2>0 DEF Undisturbed
  <2>2. CASE StartWork(r)
    <3>1. fpc' = [fpc EXCEPT ![r] = "validating"] /\ fevent' = [fevent EXCEPT ![r] = Facade!NoEvent]
      BY <2>2 DEF StartWork, Facade!Begin, Facade!Goto
    <3>2. fpc'[r] = "validating" /\ fevent'[r].outcome = "none"
      BY <3>1 DEF Facade!NoEvent
    <3>. QED
      BY <3>2 DEF Drained
  <2>3. CASE FacadeStep(r)
    <3>. USE DEF Facade!Goto
    <3>1. CASE Facade!RejectLifecycle(r)
      BY <2>0, <3>1 DEF Facade!RejectLifecycle
    <3>2. CASE Facade!Admit(r)
      BY <2>0, <3>2 DEF Facade!Admit, Undisturbed
    <3>3. CASE Facade!CancelBeforeDispatch(r)
      BY <3>3 DEF Facade!CancelBeforeDispatch, Facade!Record, Facade!Event, Drained
    <3>4. CASE ~cancelled[r] /\ Facade!Dispatch(r)
      BY <2>0, <3>4 DEF Facade!Dispatch, Undisturbed
    <3>5. CASE Facade!Leave(r)
      BY <2>0, <3>5 DEF Facade!Leave, Undisturbed
    <3>. QED
      BY <2>3, <3>1, <3>2, <3>3, <3>4, <3>5 DEF FacadeStep
  <2>4. CASE RuntimeReturns(r)
    <3>1. fpc[r] = "dispatched"
      BY <2>4 DEF RuntimeReturns, Facade!Complete, Facade!DownstreamError, Facade!RuntimeAtCapacity,
                  Facade!Goto
    <3>2. ~cancelled[r]
      BY <3>1 DEF OnCourse, CallEarned
    <3>3. fevent'[r].outcome \in {"refuse", "complete", "downstream_error", "capacity_exceeded"}
      <4>1. PICK o \in {"refuse", "complete", "downstream_error", "capacity_exceeded"},
                 d \in BOOLEAN : Facade!Record(r, o, d)
        BY <2>4 DEF RuntimeReturns, Facade!Complete, Facade!DownstreamError, Facade!RuntimeAtCapacity
      <4>2. fevent'[r] = Facade!Event(o, d)
        BY <4>1 DEF Facade!Record
      <4>. QED
        BY <4>2 DEF Facade!Event
    <3>. QED
      BY <3>2, <3>3 DEF Drained
  <2>5. CASE RuntimeStep(r)
    BY <2>0, <2>5 DEF RuntimeStep, facadeVars, Undisturbed
  <2>6. CASE FinishWork(r)
    BY <2>0, <2>6 DEF FinishWork, facadeVars, Undisturbed
  <2>. QED
    BY <2>2, <2>3, <2>4, <2>5, <2>6 DEF Worker
<1>4. \A q \in Requests : Unstarted(q) => Unstarted(q)'
  BY <1>0 DEF Unstarted
<1>. QED
  BY <1>0, <1>2, <1>3, <1>4 DEF Quiet

LEMMA QuietStep == Inv /\ Inherited /\ Quiet /\ [Next]_vars => Quiet'
<1>. SUFFICES ASSUME Inv, Inherited, Quiet, [Next]_vars PROVE Quiet'
  OBVIOUS
<1>1. ASSUME UNCHANGED <<answerVars, work, facadeVars>>,
             \/ tstate' = "accepting" \/ starter' # "started" => tstate = "accepting" \/ starter # "started",
             starter' # "started" => starter # "started", UNCHANGED stopper
      PROVE  Quiet'
  BY <1>1 DEF Quiet, Undisturbed, Unstarted, answerVars, facadeVars
<1>2. CASE BeginStart
  BY <1>1, <1>2 DEF BeginStart
<1>3. CASE FinishStart
  BY <1>1, <1>3 DEF FinishStart
<1>4. ASSUME NEW s \in Stoppers, StopTransport(s) \/ Stop(s)
      PROVE  Quiet'
  <2>. stopper \in [Stoppers -> {"idle", "facade", "draining", "joining", "closing"}]
    BY DEF Inv, TypeOK
  <2>1. starter = "started" /\ starter' = "started"
    BY <1>4 DEF StopTransport, Stop, StopFacade, JoinExecutor, FinishStop, Inv, Life
  <2>2. tstate' # "accepting"
    BY <1>4, <2>1 DEF StopTransport, Stop, StopFacade, JoinExecutor, FinishStop, Quiet
  <2>. QED
    BY <2>1, <2>2 DEF Quiet
<1>5. CASE UNCHANGED vars
  BY <1>1, <1>5 DEF vars, lifeVars
<1>. QED
  BY <1>2, <1>3, <1>4, <1>5, QuietLoop, QuietWorker DEF Next

\* Both promises of the transport's document that a drain breaks hold until a
\* shutdown begins, for any number of requests and permits.
THEOREM PromisesKept == Spec => []PromisesKeptUntilShutdown
<1>1. Quiet => PromisesKeptUntilShutdown
  BY DEF Quiet, Undisturbed, Drained, PromisesKeptUntilShutdown
<1>. QED
  BY <1>1, QuietInit, QuietStep, TransportInvariant, InheritedHolds, PTL DEF Spec

\* What a client is told is what the layers below did for its request, and no
\* client is told of a drain before a shutdown begins.
THEOREM ResponsesEarned == Spec => []ResponsesAreTruthful
<1>1. Inv /\ Inherited => AnswersAreEarned
  <2>. SUFFICES ASSUME Inv, Inherited, NEW r \in Requests
                PROVE  /\ response[r] \in Answers => rresult[r] = "run" /\ rprofile[r] = r
                       /\ response[r] \in Refusals \/ cancelled[r] => Untouched(r)
    BY DEF AnswersAreEarned, Answers, Refusals, Untouched
  <2>1. CallNested(r) /\ CallEarned(r) /\ RunEarned(r) /\ AnswerEarned(r)
    BY DEF Inv, OnCourse
  <2>2. rresult[r] = "run" => rprofile[r] = r
    BY <2>1, TransportAssumption
    DEF RunEarned, Inherited, Runtime!ProfileIsOwn, Runtime!TypeOK, TransportAssumption
  <2>3. cancelled[r] => Untouched(r)
    BY <2>1 DEF CallNested, CallEarned, Untouched
  <2>. QED
    BY <2>1, <2>2, <2>3 DEF AnswerEarned
<1>. QED
  BY <1>1, TransportInvariant, InheritedHolds, PromisesKept, PTL DEF ResponsesAreTruthful

================================================================================
