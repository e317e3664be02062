----------------------------- MODULE RequestFacade -----------------------------
(***************************************************************************)
(* PrimeQAHybridAgentRequestFacade: one Condition guards a three-state     *)
(* lifecycle, the in-flight count and the call counters.  Every block the  *)
(* code runs under the condition's lock is one action, so the threads      *)
(* interleave exactly where the code releases the lock.  The runtime the   *)
(* facade calls is represented by its three kinds of outcome.              *)
(***************************************************************************)
EXTENDS Integers, FiniteSets

CONSTANTS
  Callers,         \* threads that call invoke()
  Closers,         \* threads that call shutdown()
  Watchers,        \* threads that call wait_until_state()
  MaxInvocations   \* bound: how many times invoke() is entered in all

ASSUME FacadeAssumption ==
  /\ IsFiniteSet(Callers)
  /\ MaxInvocations \in Nat
  /\ Closers \cap Watchers = {}

VARIABLES
  state,                   \* _state
  current_in_flight,       \* _current_in_flight
  max_observed_in_flight,  \* _max_observed_in_flight
  count,                   \* the other counters, by name
  pc,                      \* where each caller is inside invoke()
  event,                   \* _last_public_event in each caller's context
  closer,                  \* where each closer is inside shutdown()
  watcher,                 \* where each watcher is inside wait_until_state()
  target,                  \* the state a watcher waits for
  parked                   \* the threads asleep in _condition.wait()

callVars  == <<current_in_flight, max_observed_in_flight, count, pc, event>>
waitVars  == <<closer, watcher, target>>
facadeVars == <<state, callVars, waitVars, parked>>

State == {"accepting", "draining", "closed"}
Order == [s \in State |-> CASE s = "accepting" -> 0
                            [] s = "draining"  -> 1
                            [] s = "closed"    -> 2]

Counter == {"attempt", "accepted", "dispatch", "completed", "refused",
            "invalid", "lifecycle", "cancelled", "capacity", "downstream"}

Outcome == {"none", "invalid_request", "facade_draining", "facade_closed",
            "cancelled_before_dispatch", "capacity_exceeded", "downstream_error",
            "complete", "refuse"}
PublicEvent == [state: State \cup {"none"}, outcome: Outcome, dispatched: BOOLEAN]
NoEvent == [state |-> "none", outcome |-> "none", dispatched |-> FALSE]
Event(outcome, dispatched) ==
  [state |-> state, outcome |-> outcome, dispatched |-> dispatched]

FacadeInit ==
  /\ state = "accepting"
  /\ current_in_flight = 0
  /\ max_observed_in_flight = 0
  /\ count = [k \in Counter |-> 0]
  /\ pc = [c \in Callers |-> "out"]
  /\ event = [c \in Callers |-> NoEvent]
  /\ closer = [s \in Closers |-> "idle"]
  /\ watcher = [w \in Watchers |-> "idle"]
  /\ target = [w \in Watchers |-> "closed"]
  /\ parked = {}

-------------------------------------------------------------------------------
(* invoke() *)

Goto(c, from, to) == pc[c] = from /\ pc' = [pc EXCEPT ![c] = to]
Bump(names) == count' = [k \in Counter |-> IF k \in names THEN count[k] + 1
                                                          ELSE count[k]]
Record(c, outcome, dispatched) ==
  event' = [event EXCEPT ![c] = Event(outcome, dispatched)]

\* The event of the previous call is cleared and the attempt is counted.
Begin(c) ==
  /\ Goto(c, "out", "validating")
  /\ count["attempt"] < MaxInvocations
  /\ Bump({"attempt"})
  /\ event' = [event EXCEPT ![c] = NoEvent]
  /\ UNCHANGED <<state, current_in_flight, max_observed_in_flight, waitVars, parked>>

\* A request that fails validation is turned away whatever the lifecycle state.
RejectInvalid(c) ==
  /\ Goto(c, "validating", "out")
  /\ Bump({"invalid"})
  /\ Record(c, "invalid_request", FALSE)
  /\ UNCHANGED <<state, current_in_flight, max_observed_in_flight, waitVars, parked>>

RejectLifecycle(c) ==
  /\ state # "accepting"
  /\ Goto(c, "validating", "out")
  /\ Bump({"lifecycle"})
  /\ Record(c, IF state = "draining" THEN "facade_draining" ELSE "facade_closed", FALSE)
  /\ UNCHANGED <<state, current_in_flight, max_observed_in_flight, waitVars, parked>>

Admit(c) ==
  /\ state = "accepting"
  /\ Goto(c, "validating", "admitted")
  /\ Bump({"accepted"})
  /\ current_in_flight' = current_in_flight + 1
  /\ max_observed_in_flight' = IF current_in_flight' > max_observed_in_flight
                               THEN current_in_flight' ELSE max_observed_in_flight
  /\ UNCHANGED <<state, event, waitVars, parked>>

\* Seeded fault: the cancellation check sits before the try block.
CancelOutsideTry(c) ==
  /\ Goto(c, "admitted", "out")
  /\ Bump({"cancelled"})
  /\ Record(c, "cancelled_before_dispatch", FALSE)
  /\ UNCHANGED <<state, current_in_flight, max_observed_in_flight, waitVars, parked>>

\* The caller's cooperative signal is read once, before dispatch; its owner may
\* have set it or not.
CancelBeforeDispatch(c) ==
  /\ Goto(c, "admitted", "leaving")
  /\ Bump({"cancelled"})
  /\ Record(c, "cancelled_before_dispatch", FALSE)
  /\ UNCHANGED <<state, current_in_flight, max_observed_in_flight, waitVars, parked>>

Dispatch(c) ==
  /\ Goto(c, "admitted", "dispatched")
  /\ Bump({"dispatch"})
  /\ UNCHANGED <<state, current_in_flight, max_observed_in_flight, event, waitVars, parked>>

\* runtime.run() returned a verified answer that belongs to this request.
Complete(c, refused) ==
  /\ Goto(c, "dispatched", "leaving")
  /\ Bump({"completed"} \cup (IF refused THEN {"refused"} ELSE {}))
  /\ Record(c, IF refused THEN "refuse" ELSE "complete", TRUE)
  /\ UNCHANGED <<state, current_in_flight, max_observed_in_flight, waitVars, parked>>

\* runtime.run() raised its capacity error.
RuntimeAtCapacity(c) ==
  /\ Goto(c, "dispatched", "leaving")
  /\ Bump({"capacity"})
  /\ Record(c, "capacity_exceeded", FALSE)
  /\ UNCHANGED <<state, current_in_flight, max_observed_in_flight, waitVars, parked>>

\* runtime.run() raised anything else, or its answer carried another handle.
DownstreamError(c) ==
  /\ Goto(c, "dispatched", "leaving")
  /\ Bump({"downstream"})
  /\ Record(c, "downstream_error", TRUE)
  /\ UNCHANGED <<state, current_in_flight, max_observed_in_flight, waitVars, parked>>

NotifyAll == parked' = {}

\* Seeded fault: the finally block forgets notify_all().
LeaveSilently(c) ==
  /\ Goto(c, "leaving", "out")
  /\ current_in_flight' = current_in_flight - 1
  /\ UNCHANGED <<state, max_observed_in_flight, count, event, waitVars, parked>>

\* The finally block: the call is gone and everybody asleep is woken.
Leave(c) ==
  /\ Goto(c, "leaving", "out")
  /\ current_in_flight' = current_in_flight - 1
  /\ NotifyAll
  /\ UNCHANGED <<state, max_observed_in_flight, count, event, waitVars>>

-------------------------------------------------------------------------------
(* shutdown() *)

\* The loop "while in_flight: wait()", entered with the lock held.
DrainOrSleep(s) ==
  IF current_in_flight > 0
    THEN /\ state' = "draining"
         /\ closer' = [closer EXCEPT ![s] = "waiting"]
         /\ parked' = (IF state = "accepting" THEN {} ELSE parked) \cup {s}
    ELSE /\ state' = "closed"
         /\ closer' = [closer EXCEPT ![s] = "idle"]
         /\ NotifyAll

Shutdown(s) ==
  /\ closer[s] = "idle"
  /\ state # "closed"           \* a closed facade returns at once
  /\ DrainOrSleep(s)
  /\ UNCHANGED <<callVars, watcher, target>>

\* Seeded fault: "if in_flight: wait()" in place of the loop.
ResumeOnce(s) ==
  /\ closer[s] = "waiting"
  /\ s \notin parked
  /\ state' = "closed"
  /\ closer' = [closer EXCEPT ![s] = "idle"]
  /\ NotifyAll
  /\ UNCHANGED <<callVars, watcher, target>>

\* Seeded fault: CLOSED is entered without a second notify_all().
CloseSilently(s) ==
  /\ closer[s] = "waiting"
  /\ s \notin parked
  /\ IF current_in_flight > 0
       THEN parked' = parked \cup {s} /\ UNCHANGED <<state, closer>>
       ELSE /\ state' = "closed"
            /\ closer' = [closer EXCEPT ![s] = "idle"]
            /\ UNCHANGED parked
  /\ UNCHANGED <<callVars, watcher, target>>

\* A woken closer has the lock again; another closer may have finished first.
ResumeShutdown(s) ==
  /\ closer[s] = "waiting"
  /\ s \notin parked
  /\ IF current_in_flight > 0
       THEN parked' = parked \cup {s} /\ UNCHANGED <<state, closer>>
       ELSE /\ state' = "closed"
            /\ closer' = [closer EXCEPT ![s] = "idle"]
            /\ NotifyAll
  /\ UNCHANGED <<callVars, watcher, target>>

-------------------------------------------------------------------------------
(* wait_until_state() *)

\* One turn of the loop: done, too late, or asleep again.
LookForTarget(w, t) ==
  /\ watcher' = [watcher EXCEPT ![w] = IF state = t THEN "returned"
                                       ELSE IF Order[state] > Order[t] THEN "raised"
                                       ELSE "waiting"]
  /\ parked' = IF Order[state] < Order[t] THEN parked \cup {w} ELSE parked
  /\ UNCHANGED <<state, callVars, closer>>

Watch(w, t) ==
  /\ watcher[w] = "idle"
  /\ target' = [target EXCEPT ![w] = t]
  /\ LookForTarget(w, t)

ResumeWatch(w) ==
  /\ watcher[w] = "waiting"
  /\ w \notin parked
  /\ LookForTarget(w, target[w])
  /\ UNCHANGED target

-------------------------------------------------------------------------------
RuntimeOutcome(c) == \/ \E refused \in BOOLEAN : Complete(c, refused)
                     \/ RuntimeAtCapacity(c)
                     \/ DownstreamError(c)

\* What a caller does once it is inside invoke().
Proceed(c) == \/ RejectInvalid(c) \/ RejectLifecycle(c) \/ Admit(c)
              \/ CancelBeforeDispatch(c) \/ Dispatch(c)
              \/ RuntimeOutcome(c)
              \/ Leave(c)

FacadeNext == \/ \E c \in Callers : Begin(c) \/ Proceed(c)
              \/ \E s \in Closers : Shutdown(s) \/ ResumeShutdown(s)
              \/ \E w \in Watchers : ResumeWatch(w) \/ \E t \in State : Watch(w, t)

FacadeSpec == FacadeInit /\ [][FacadeNext]_facadeVars

\* A thread inside a call keeps running, the runtime call included (it has no
\* timeout and ends by returning or raising); nobody is bound to make a call.
FacadeFairness ==
  /\ \A c \in Callers : WF_facadeVars(Proceed(c))
  /\ \A s \in Closers : WF_facadeVars(ResumeShutdown(s))
  /\ \A w \in Watchers : WF_facadeVars(ResumeWatch(w))

FairFacadeSpec == FacadeSpec /\ FacadeFairness

-------------------------------------------------------------------------------
(* What is inside the facade, read off the program counters *)

Validating == {c \in Callers : pc[c] = "validating"}
Dispatched == {c \in Callers : pc[c] = "dispatched"}
Undecided  == {c \in Callers : pc[c] \in {"admitted", "dispatched"}}
Inside     == {c \in Callers : pc[c] \in {"admitted", "dispatched", "leaving"}}

Settled == count["completed"] + count["cancelled"] + count["capacity"] + count["downstream"]

TypeOK ==
  /\ state \in State
  /\ current_in_flight \in Nat
  /\ max_observed_in_flight \in Nat
  /\ count \in [Counter -> Nat]
  /\ pc \in [Callers -> {"out", "validating", "admitted", "dispatched", "leaving"}]
  /\ event \in [Callers -> PublicEvent]
  /\ closer \in [Closers -> {"idle", "waiting"}]
  /\ watcher \in [Watchers -> {"idle", "waiting", "returned", "raised"}]
  /\ target \in [Watchers -> State]
  /\ parked \subseteq Closers \cup Watchers

\* The in-flight count shutdown() waits on is the number of admitted calls that
\* have not run their finally block: no path through invoke() may skip either side.
InFlightIsInside == current_in_flight = Cardinality(Inside)

\* shutdown() closes only an empty facade: once CLOSED, no admitted call is left,
\* so none can still be dispatched to a runtime whose owner thinks it is quiet.
ClosedMeansQuiet == state = "closed" => Inside = {}

\* Every call is counted exactly once at each boundary it crosses, whatever the
\* interleaving: attempts split into rejected and accepted, accepted calls into
\* the four ways invoke() can end, dispatched calls into the three runtime outcomes.
CountersBalance ==
  /\ count["attempt"] = count["invalid"] + count["lifecycle"] + count["accepted"]
                        + Cardinality(Validating)
  /\ count["accepted"] = Settled + Cardinality(Undecided)
  /\ count["dispatch"] = Settled - count["cancelled"] + Cardinality(Dispatched)
  /\ count["refused"] <= count["completed"]

\* What the facade counts is what happens in it: the calls inside now and the
\* calls that came and went, on every path and in every interleaving.
CountsAreExact == InFlightIsInside /\ CountersBalance

\* No wakeup is lost: a closer sleeps only while a call is in flight (its Leave
\* will wake it), and a watcher sleeps only while its state is still ahead.
SleepersHaveAWaker ==
  /\ \A s \in Closers \cap parked : Inside # {}
  /\ \A w \in Watchers \cap parked : Order[state] < Order[target[w]]

\* A thread that started to drain reaches CLOSED, however many new calls arrive.
DrainCompletes == \A s \in Closers : closer[s] = "waiting" ~> state = "closed" /\ closer[s] = "idle"

\* A watcher is never left asleep over a lifecycle that has gone as far as it goes.
WatchersReleased ==
  \A w \in Watchers : watcher[w] = "waiting" /\ state = "closed" ~> watcher[w] \in {"returned", "raised"}

\* The facade is a drain gate around the calls it has admitted: they enter only
\* while it accepts, the gate shuts one way, and it closes over an empty room.
GateMode == CASE state = "accepting" -> "open"
              [] state = "draining"  -> "closing"
              [] state = "closed"    -> "closed"

Gate == INSTANCE DrainGate WITH Work <- Callers, mode <- GateMode, inside <- Inside

GateRefined == Gate!GateSpec

===============================================================================
