--------------------------- MODULE ConcurrentRuntime ---------------------------
(***************************************************************************)
(* PrimeQAHybridConcurrentSidecarAgentRuntime.run() on several threads:    *)
(* a nonblocking bounded semaphore, counters under a lock of their own,    *)
(* and RequestLocalProfiledCandidatePoolRetriever, whose per-context token *)
(* and shared table of pending profiles keep the threads' profiles apart.  *)
(* The semaphore and the counter lock are taken at different moments, so   *)
(* permits and the in-flight count are different numbers in between.       *)
(***************************************************************************)
EXTENDS Integers, FiniteSets

CONSTANTS
  Threads,       \* threads that call run(); a thread keeps its context
  Questions,     \* what is asked
  Tokens,        \* the identities object() can hand out
  NoToken,       \* None in place of a token
  NoRun,         \* no question, and no profile of one
  MaxInFlight,   \* _MAX_IN_FLIGHT
  MaxAttempts    \* bound: how many times run() is entered in all

ASSUME RuntimeAssumption ==
  /\ IsFiniteSet(Threads)
  /\ NoToken \notin Tokens
  /\ NoRun \notin Questions
  /\ MaxInFlight \in Nat \ {0}
  /\ MaxAttempts \in Nat

VARIABLES
  permits,                 \* value of the _admission semaphore
  in_flight,               \* _current_in_flight
  max_in_flight,           \* _max_observed_in_flight
  tally,                   \* the other counters, by name
  at,                      \* where each thread is inside run()
  question,                \* the question of the thread's call
  result,                  \* how the thread's last call ended
  token,                   \* _request_token in each thread's context
  pending,                 \* _pending_runs: whose profile each token holds
  profile                  \* the profile take_run() handed to the call

admissionVars == <<permits, in_flight, max_in_flight, tally>>
retrieverVars == <<token, pending>>
runtimeVars   == <<admissionVars, at, question, result, retrieverVars, profile>>

Tally == {"attempt", "admitted", "rejected", "downstream", "completed", "failed"}
Place == {"idle", "attempted", "refused", "permitted", "admitted", "downstream",
          "running", "returned", "raised", "completing", "failing", "leaving", "releasing"}

RuntimeInit ==
  /\ permits = MaxInFlight
  /\ in_flight = 0
  /\ max_in_flight = 0
  /\ tally = [k \in Tally |-> 0]
  /\ at = [t \in Threads |-> "idle"]
  /\ question = [t \in Threads |-> NoRun]
  /\ result = [t \in Threads |-> "none"]
  /\ token = [t \in Threads |-> NoToken]
  /\ pending = [k \in Tokens |-> NoRun]
  /\ profile = [t \in Threads |-> NoRun]

Move(t, from, to) == at[t] = from /\ at' = [at EXCEPT ![t] = to]
Add(name) == tally' = [tally EXCEPT ![name] = @ + 1]

-------------------------------------------------------------------------------
(* Admission *)

Attempt(t, q) ==
  /\ Move(t, "idle", "attempted")
  /\ tally["attempt"] < MaxAttempts
  /\ Add("attempt")
  /\ question' = [question EXCEPT ![t] = q]
  /\ result' = [result EXCEPT ![t] = "none"]
  /\ profile' = [profile EXCEPT ![t] = NoRun]
  /\ UNCHANGED <<permits, in_flight, max_in_flight, retrieverVars>>

\* acquire(blocking=False): the semaphore alone decides, no counter is read.
AcquirePermit(t) ==
  /\ permits > 0
  /\ Move(t, "attempted", "permitted")
  /\ permits' = permits - 1
  /\ UNCHANGED <<in_flight, max_in_flight, tally, question, result, retrieverVars, profile>>

FindNoPermit(t) ==
  /\ permits = 0
  /\ Move(t, "attempted", "refused")
  /\ UNCHANGED <<admissionVars, question, result, retrieverVars, profile>>

RaiseCapacity(t) ==
  /\ Move(t, "refused", "idle")
  /\ Add("rejected")
  /\ result' = [result EXCEPT ![t] = "capacity"]
  /\ UNCHANGED <<permits, in_flight, max_in_flight, question, retrieverVars, profile>>

CountAdmission(t) ==
  /\ Move(t, "permitted", "admitted")
  /\ Add("admitted")
  /\ in_flight' = in_flight + 1
  /\ max_in_flight' = IF in_flight' > max_in_flight THEN in_flight' ELSE max_in_flight
  /\ UNCHANGED <<permits, question, result, retrieverVars, profile>>

CountDownstream(t) ==
  /\ Move(t, "admitted", "downstream")
  /\ Add("downstream")
  /\ UNCHANGED <<permits, in_flight, max_in_flight, question, result, retrieverVars, profile>>

-------------------------------------------------------------------------------
(* The entrypoint and its request-local retriever *)

LiveTokens == {token[t] : t \in Threads} \cup {k \in Tokens : pending[k] # NoRun}

\* Seeded fault: the token is not an identity of its own.
PrepareSharedToken(t) ==
  /\ IF token[t] # NoToken
       THEN Move(t, "downstream", "failing") /\ UNCHANGED token
       ELSE /\ Move(t, "downstream", "running")
            /\ \E k \in Tokens : token' = [token EXCEPT ![t] = k]
  /\ UNCHANGED <<admissionVars, question, result, pending, profile>>

\* prepare_request(): a token left over in this context is an error, raised
\* before the block that would discard it.
PrepareRequest(t) ==
  /\ IF token[t] # NoToken
       THEN Move(t, "downstream", "failing") /\ UNCHANGED token
       ELSE /\ Move(t, "downstream", "running")
            /\ \E k \in Tokens \ LiveTokens : token' = [token EXCEPT ![t] = k]
  /\ UNCHANGED <<admissionVars, question, result, pending, profile>>

\* retrieve(): one profile per token; a second one raises.  The delegate runs
\* between two looks at the table, but only this context knows the token.
Retrieve(t) ==
  /\ at[t] = "running"
  /\ IF pending[token[t]] # NoRun
       THEN Move(t, "running", "raised") /\ UNCHANGED pending
       ELSE /\ pending' = [pending EXCEPT ![token[t]] = question[t]]
            /\ UNCHANGED at
  /\ UNCHANGED <<admissionVars, question, result, token, profile>>

EntrypointReturns(t) ==
  /\ Move(t, "running", "returned")
  /\ UNCHANGED <<admissionVars, question, result, retrieverVars, profile>>

\* The delegate, the workflow or the verifier raises.
EntrypointRaises(t) ==
  /\ Move(t, "running", "raised")
  /\ UNCHANGED <<admissionVars, question, result, retrieverVars, profile>>

\* take_run(): the profile leaves the table; the token goes in every case.
TakeRun(t) ==
  /\ at[t] = "returned"
  /\ Move(t, "returned", IF pending[token[t]] # NoRun THEN "completing" ELSE "raised")
  /\ profile' = [profile EXCEPT ![t] = pending[token[t]]]
  /\ pending' = [pending EXCEPT ![token[t]] = NoRun]
  /\ token' = [token EXCEPT ![t] = NoToken]
  /\ UNCHANGED <<admissionVars, question, result>>

\* Seeded fault: the profile is dropped and the token stays in the context.
DiscardKeepsToken(t) ==
  /\ Move(t, "raised", "failing")
  /\ pending' = [k \in Tokens |-> IF k = token[t] THEN NoRun ELSE pending[k]]
  /\ UNCHANGED <<admissionVars, question, result, token, profile>>

\* Seeded fault: the failure is counted here and again by run().
DiscardCounts(t) ==
  /\ Move(t, "raised", "failing")
  /\ Add("failed")
  /\ pending' = [k \in Tokens |-> IF k = token[t] THEN NoRun ELSE pending[k]]
  /\ token' = [token EXCEPT ![t] = NoToken]
  /\ UNCHANGED <<permits, in_flight, max_in_flight, question, result, profile>>

DiscardRun(t) ==
  /\ Move(t, "raised", "failing")
  /\ pending' = [k \in Tokens |-> IF k = token[t] THEN NoRun ELSE pending[k]]
  /\ token' = [token EXCEPT ![t] = NoToken]
  /\ UNCHANGED <<admissionVars, question, result, profile>>

-------------------------------------------------------------------------------
(* The end of run() *)

\* The public trace of a finished call is refused by its own allowlist check.
TraceRaises(t) ==
  /\ Move(t, "completing", "failing")
  /\ UNCHANGED <<admissionVars, question, result, retrieverVars, profile>>

CountCompleted(t) ==
  /\ Move(t, "completing", "leaving")
  /\ Add("completed")
  /\ result' = [result EXCEPT ![t] = "run"]
  /\ UNCHANGED <<permits, in_flight, max_in_flight, question, retrieverVars, profile>>

CountFailed(t) ==
  /\ Move(t, "failing", "leaving")
  /\ Add("failed")
  /\ result' = [result EXCEPT ![t] = "error"]
  /\ UNCHANGED <<permits, in_flight, max_in_flight, question, retrieverVars, profile>>

\* Seeded fault: a failed call keeps its permit.
LeaveKeepsPermit(t) ==
  /\ Move(t, "leaving", IF result[t] = "error" THEN "idle" ELSE "releasing")
  /\ in_flight' = in_flight - 1
  /\ UNCHANGED <<permits, max_in_flight, tally, question, result, retrieverVars, profile>>

\* The finally block: the count goes down under the lock, then the permit goes
\* back outside it.
LeaveFlight(t) ==
  /\ Move(t, "leaving", "releasing")
  /\ in_flight' = in_flight - 1
  /\ UNCHANGED <<permits, max_in_flight, tally, question, result, retrieverVars, profile>>

ReleasePermit(t) ==
  /\ Move(t, "releasing", "idle")
  /\ permits' = permits + 1
  /\ UNCHANGED <<in_flight, max_in_flight, tally, question, result, retrieverVars, profile>>

Continue(t) == \/ AcquirePermit(t) \/ FindNoPermit(t) \/ RaiseCapacity(t)
               \/ CountAdmission(t) \/ CountDownstream(t) \/ PrepareRequest(t)
               \/ Retrieve(t) \/ EntrypointReturns(t) \/ EntrypointRaises(t)
               \/ TakeRun(t) \/ DiscardRun(t) \/ TraceRaises(t)
               \/ CountCompleted(t) \/ CountFailed(t)
               \/ LeaveFlight(t) \/ ReleasePermit(t)

RuntimeNext == \E t \in Threads : Continue(t) \/ \E q \in Questions : Attempt(t, q)

RuntimeSpec == RuntimeInit /\ [][RuntimeNext]_runtimeVars

-------------------------------------------------------------------------------
\* The calls that hold a permit, and those counted as in flight.
Holding == {t \in Threads : at[t] \notin {"idle", "attempted", "refused"}}
Counted == {t \in Threads : at[t] \notin {"idle", "attempted", "refused", "permitted", "releasing"}}
Unended == {t \in Threads : at[t] \in {"admitted", "downstream", "running", "returned",
                                       "raised", "completing", "failing"}}
Undecided == {t \in Threads : at[t] \in {"attempted", "refused", "permitted"}}

TypeOK ==
  /\ permits \in Nat
  /\ in_flight \in Nat
  /\ max_in_flight \in Nat
  /\ tally \in [Tally -> Nat]
  /\ at \in [Threads -> Place]
  /\ question \in [Threads -> Questions \cup {NoRun}]
  /\ result \in [Threads -> {"none", "run", "capacity", "error"}]
  /\ token \in [Threads -> Tokens \cup {NoToken}]
  /\ pending \in [Tokens -> Questions \cup {NoRun}]
  /\ profile \in [Threads -> Questions \cup {NoRun}]

\* No permit is lost or minted: the free ones and the calls that hold one add up
\* to the configured capacity on every path, the failing ones included.
PermitsConserved == permits + Cardinality(Holding) = MaxInFlight

\* The in-flight count, taken under another lock than the permit, is the number
\* of calls between admission and the finally block, and never exceeds capacity.
InFlightBounded ==
  /\ in_flight = Cardinality(Counted)
  /\ in_flight <= max_in_flight
  /\ max_in_flight <= MaxInFlight

\* Two locks, one admission: permits and in-flight count agree with the calls that
\* hold a permit and the calls that are counted, neither ever beyond the capacity.
AdmissionIsExact == PermitsConserved /\ InFlightBounded

\* Each attempt is admitted or rejected once, each admission completes or fails once.
TalliesBalance ==
  /\ tally["attempt"] = tally["admitted"] + tally["rejected"] + Cardinality(Undecided)
  /\ tally["admitted"] = tally["completed"] + tally["failed"] + Cardinality(Unended)

\* The profile a call takes was retrieved for its own question: profiles never
\* cross contexts, nor leak from an earlier call of the same thread.
ProfileIsOwn == \A t \in Threads : profile[t] # NoRun => profile[t] = question[t]

\* Whatever way a call ends, it leaves no token in its context and no profile in
\* the shared table, so the context can serve the next request.
NothingLeftBehind ==
  /\ \A t \in Threads : at[t] \notin {"running", "returned", "raised"} => token[t] = NoToken
  /\ \A k \in Tokens : pending[k] # NoRun => \E t \in Threads : token[t] = k

\* Two contexts never hold the same token.
TokensDistinct == \A t, u \in Threads : token[t] = token[u] /\ token[t] # NoToken => t = u

===============================================================================
