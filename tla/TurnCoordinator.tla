---------------------------- MODULE TurnCoordinator ----------------------------
(***************************************************************************)
(* BoundedDynamicAgentServiceCoordinator, the bounded dynamic transport    *)
(* that submits admitted turns to its single worker, and the runtime's     *)
(* run_turn() over the thread ledger.  Clients open and close threads and  *)
(* ask for turns; one whole-turn slot protects the GPU; shutdown drains.   *)
(***************************************************************************)
EXTENDS ThreadLedger, FiniteSets

CONSTANTS
  Clients,            \* HTTP clients, one request of each at a time
  Stoppers,           \* threads that call shutdown()
  MaxAdmissions,      \* bound: turns admitted in all
  MaxRejections,      \* bound: capacity rejections in all
  MaxSubmitFailures,  \* bound: submissions on which the executor raises
  NoHandle            \* not a handle

ASSUME CoordinatorAssumption ==
  /\ IsFiniteSet(Clients)
  /\ NoHandle \notin Handles
  /\ MaxAdmissions \in Nat
  /\ MaxRejections \in Nat
  /\ MaxSubmitFailures \in Nat

VARIABLES
  enabled,     \* the two settings flags; never changes
  state,       \* the coordinator's _state
  open_handles,\* _open_handles
  active,      \* _active_turns: the handle each client's admission token holds
  max_active,  \* _max_observed_in_flight_turns
  tally,       \* the other counters, by name
  executor,    \* none, open (no thread yet), running (its one thread exists), shut
  started,     \* the transport's _started
  asked,       \* the handle of each client's turn
  work,        \* where the turn of each client is
  snapshot,    \* the history run_turn() loaded
  outcome,     \* how the turn ended, as the worker reports it
  orphan,      \* clients whose submission raised after the item was queued
  reply,       \* outcome code of the client's last answered request
  stopper      \* where each stopper is inside shutdown()

slotVars   == <<open_handles, active, max_active, tally>>
workVars   == <<asked, work, snapshot, outcome, orphan, reply>>
lifeVars   == <<enabled, state, executor, started, stopper>>
vars == <<slotVars, workVars, lifeVars, ledgerVars>>

CState == {"created", "accepting", "draining", "closed"}
Tally  == {"admitted", "rejected", "completed", "failed"}
Outcome == {"none", "turn_completed", "turn_execution_failed", "thread_state_limit_exceeded",
            "internal_error"}
Refusal == {"service_not_active", "service_draining", "service_closed", "thread_opened",
            "thread_already_open", "thread_closed", "thread_not_found", "thread_busy",
            "gpu_capacity_exceeded"}
WorkPlace == {"none", "queued", "loading", "working", "committing",
              "committed", "failing", "releasing", "returned"}

Init ==
  /\ enabled \in BOOLEAN
  /\ state = "created"
  /\ open_handles = {}
  /\ active = [c \in Clients |-> NoHandle]
  /\ max_active = 0
  /\ tally = [k \in Tally |-> 0]
  /\ executor = "none"
  /\ started = FALSE
  /\ asked = [c \in Clients |-> NoHandle]
  /\ work = [c \in Clients |-> "none"]
  /\ snapshot = [c \in Clients |-> Empty]
  /\ outcome = [c \in Clients |-> "none"]
  /\ orphan = {}
  /\ reply = [c \in Clients |-> "none"]
  /\ stopper = [s \in Stoppers |-> "idle"]
  /\ LedgerInit

Active == {c \in Clients : active[c] # NoHandle}
Busy   == {active[c] : c \in Active}
Idle(c) == work[c] = "none"
Add(name) == tally' = [tally EXCEPT ![name] = @ + 1]
Reply(c, code) == reply' = [reply EXCEPT ![c] = code]

-------------------------------------------------------------------------------
(* start(): the pool is made first; the coordinator refuses to start after a   *)
(* shutdown, and then the pool stays behind.                                   *)

Start ==
  /\ ~started
  /\ started' = TRUE
  /\ IF enabled
       THEN /\ executor' = "open"
            /\ state' = IF state = "created" THEN "accepting" ELSE state
       ELSE UNCHANGED <<executor, state>>
  /\ UNCHANGED <<enabled, stopper, slotVars, workVars, ledgerVars>>

-------------------------------------------------------------------------------
(* Short operations, whole under the coordinator's lock *)

NotAccepting == CASE state = "created"  -> "service_not_active"
                  [] state = "draining" -> "service_draining"
                  [] state = "closed"   -> "service_closed"

OpenThread(c, h) ==
  /\ Idle(c)
  /\ IF state # "accepting" THEN Reply(c, NotAccepting) /\ UNCHANGED <<open_handles, ledgerVars>>
     ELSE IF h \in open_handles \cup opened
       THEN Reply(c, "thread_already_open") /\ UNCHANGED <<open_handles, ledgerVars>>
       ELSE /\ LedgerOpen(h)
            /\ open_handles' = open_handles \cup {h}
            /\ Reply(c, "thread_opened")
  /\ UNCHANGED <<active, max_active, tally, asked, work, snapshot, outcome, orphan, lifeVars>>

\* Seeded fault: a thread with a turn in progress may be closed.
CloseThreadAnyway(c, h) ==
  /\ Idle(c)
  /\ state = "accepting"
  /\ h \in open_handles \cap opened
  /\ LedgerClose(h)
  /\ open_handles' = open_handles \ {h}
  /\ Reply(c, "thread_closed")
  /\ UNCHANGED <<active, max_active, tally, asked, work, snapshot, outcome, orphan, lifeVars>>

\* Seeded fault: the coordinator forgets the handle and the ledger keeps it.
CloseThreadHalf(c, h) ==
  /\ Idle(c)
  /\ state = "accepting"
  /\ h \in open_handles \ Busy
  /\ open_handles' = open_handles \ {h}
  /\ Reply(c, "thread_closed")
  /\ UNCHANGED <<active, max_active, tally, asked, work, snapshot, outcome, orphan,
                 lifeVars, ledgerVars>>

CloseThread(c, h) ==
  /\ Idle(c)
  /\ IF state # "accepting" THEN Reply(c, NotAccepting) /\ UNCHANGED <<open_handles, ledgerVars>>
     ELSE IF h \notin open_handles
       THEN Reply(c, "thread_not_found") /\ UNCHANGED <<open_handles, ledgerVars>>
     ELSE IF h \in Busy
       THEN Reply(c, "thread_busy") /\ UNCHANGED <<open_handles, ledgerVars>>
     ELSE IF h \notin opened       \* the ledger no longer has it
       THEN Reply(c, "thread_not_found") /\ UNCHANGED <<open_handles, ledgerVars>>
       ELSE /\ LedgerClose(h)
            /\ open_handles' = open_handles \ {h}
            /\ Reply(c, "thread_closed")
  /\ UNCHANGED <<active, max_active, tally, asked, work, snapshot, outcome, orphan, lifeVars>>

-------------------------------------------------------------------------------
(* A turn: admission and submission in one section of the transport's lock *)

RefuseTurn(c, h) ==
  /\ Idle(c)
  /\ \/ state # "accepting" /\ Reply(c, NotAccepting)
     \/ state = "accepting" /\ h \notin open_handles /\ Reply(c, "thread_not_found")
     \/ state = "accepting" /\ h \in open_handles \cap Busy /\ Reply(c, "thread_busy")
  /\ UNCHANGED <<slotVars, asked, work, snapshot, outcome, orphan, lifeVars, ledgerVars>>

RefuseCapacity(c, h) ==
  /\ Idle(c)
  /\ state = "accepting"
  /\ h \in open_handles \ Busy
  /\ Active # {}
  /\ tally["rejected"] < MaxRejections
  /\ Add("rejected")
  /\ Reply(c, "gpu_capacity_exceeded")
  /\ UNCHANGED <<open_handles, active, max_active, asked, work, snapshot, outcome, orphan,
                 lifeVars, ledgerVars>>

\* Seeded fault: the lifecycle is not checked again under the lock.
CanAdmitWhileDraining(c, h) ==
  /\ Idle(c)
  /\ executor \in {"open", "running"}
  /\ h \in open_handles \cap opened
  /\ Active = {}
  /\ tally["admitted"] < MaxAdmissions

CanAdmit(c, h) ==
  /\ Idle(c)
  /\ state = "accepting"
  /\ h \in open_handles \cap opened       \* thread_summary() finds the thread
  /\ Active = {}
  /\ tally["admitted"] < MaxAdmissions

AdmitTurn(c, h) ==
  /\ CanAdmit(c, h)
  /\ active' = [active EXCEPT ![c] = h]
  /\ max_active' = IF Cardinality(Active) + 1 > max_active THEN Cardinality(Active) + 1 ELSE max_active
  /\ Add("admitted")
  /\ asked' = [asked EXCEPT ![c] = h]
  /\ work' = [work EXCEPT ![c] = "queued"]
  /\ outcome' = [outcome EXCEPT ![c] = "none"]
  /\ executor' = "running"
  /\ Reply(c, "none")
  /\ UNCHANGED <<open_handles, snapshot, orphan, enabled, state, started, stopper, ledgerVars>>

\* Seeded fault: the admission of a failed submission is not cancelled.
SubmitFailsKeepsSlot(c, h) ==
  /\ CanAdmit(c, h)
  /\ executor = "open"
  /\ Cardinality(orphan) < MaxSubmitFailures
  /\ active' = [active EXCEPT ![c] = h]
  /\ max_active' = 1
  /\ Add("admitted")
  /\ asked' = [asked EXCEPT ![c] = h]
  /\ work' = [work EXCEPT ![c] = "queued"]
  /\ outcome' = [outcome EXCEPT ![c] = "none"]
  /\ orphan' = orphan \cup {c}
  /\ Reply(c, "internal_error")
  /\ UNCHANGED <<open_handles, snapshot, lifeVars, ledgerVars>>

\* The pool raises because it cannot start its thread, after it has queued the
\* item: the admission is cancelled, the client told, and the item waits for the
\* thread that a later submission starts.
SubmitFails(c, h) ==
  /\ CanAdmit(c, h)
  /\ executor = "open"
  /\ Cardinality(orphan) < MaxSubmitFailures
  /\ max_active' = IF Cardinality(Active) + 1 > max_active THEN Cardinality(Active) + 1 ELSE max_active
  /\ Add("admitted")
  /\ asked' = [asked EXCEPT ![c] = h]
  /\ work' = [work EXCEPT ![c] = "queued"]
  /\ outcome' = [outcome EXCEPT ![c] = "none"]
  /\ orphan' = orphan \cup {c}
  /\ Reply(c, "internal_error")
  /\ UNCHANGED <<open_handles, active, snapshot, lifeVars, ledgerVars>>

-------------------------------------------------------------------------------
(* run_admitted_turn() on the one worker, around runtime.run_turn() *)

Step(c, from, to) == work[c] = from /\ work' = [work EXCEPT ![c] = to]
OnWorker == {c \in Clients : work[c] \notin {"none", "queued", "returned"}}

\* Seeded fault: the worker trusts the item it was handed.
StartTurnUnchecked(c) ==
  /\ executor = "running"
  /\ OnWorker = {}
  /\ Step(c, "queued", "loading")
  /\ UNCHANGED <<slotVars, asked, snapshot, outcome, orphan, reply, lifeVars, ledgerVars>>

\* The admission token must still be active, or nothing is run at all.
StartTurn(c) ==
  /\ executor = "running"
  /\ OnWorker = {}
  /\ IF active[c] = asked[c]
       THEN Step(c, "queued", "loading") /\ UNCHANGED outcome
       ELSE /\ Step(c, "queued", "returned")
            /\ outcome' = [outcome EXCEPT ![c] = "internal_error"]
  /\ UNCHANGED <<slotVars, asked, snapshot, orphan, reply, lifeVars, ledgerVars>>

Fail(c, from, code) ==
  /\ Step(c, from, "failing")
  /\ outcome' = [outcome EXCEPT ![c] = code]

LoadHistory(c) ==
  /\ IF asked[c] \in opened
       THEN /\ Step(c, "loading", "working")
            /\ snapshot' = [snapshot EXCEPT ![c] = history[asked[c]]]
            /\ UNCHANGED outcome
       ELSE Fail(c, "loading", "turn_execution_failed") /\ UNCHANGED snapshot
  /\ UNCHANGED <<slotVars, asked, orphan, reply, lifeVars, ledgerVars>>

WorkflowEnds(c) ==
  /\ Step(c, "working", "committing")
  /\ UNCHANGED <<slotVars, asked, snapshot, outcome, orphan, reply, lifeVars, ledgerVars>>

WorkflowRaises(c) ==
  /\ Fail(c, "working", "turn_execution_failed")
  /\ UNCHANGED <<slotVars, asked, snapshot, orphan, reply, lifeVars, ledgerVars>>

\* The turn is appended under the number that follows the history it was run
\* on; whatever the ledger objects to is reported as a state limit.
Commit(c, size) ==
  /\ IF Acceptable(asked[c], snapshot[c].count + 1, size)
       THEN /\ Step(c, "committing", "committed")
            /\ AppendTurn(asked[c], snapshot[c].count + 1, size)
            /\ outcome' = [outcome EXCEPT ![c] = "turn_completed"]
       ELSE /\ Fail(c, "committing", "thread_state_limit_exceeded")
            /\ UNCHANGED ledgerVars
  /\ UNCHANGED <<slotVars, asked, snapshot, orphan, reply, lifeVars>>

\* Seeded fault: completions are counted in the finally block.
CountTurnFinally(c) ==
  /\ \/ Step(c, "committed", "releasing") /\ Add("completed")
     \/ /\ Step(c, "failing", "releasing")
        /\ tally' = [tally EXCEPT !["failed"] = @ + 1, !["completed"] = @ + 1]
  /\ UNCHANGED <<open_handles, active, max_active, asked, snapshot, outcome, orphan, reply,
                 lifeVars, ledgerVars>>

CountTurn(c) ==
  /\ \/ Step(c, "committed", "releasing") /\ Add("completed")
     \/ Step(c, "failing", "releasing") /\ Add("failed")
  /\ UNCHANGED <<open_handles, active, max_active, asked, snapshot, outcome, orphan, reply,
                 lifeVars, ledgerVars>>

\* The finally block gives the slot back before the future is resolved.
ReleaseTurn(c) ==
  /\ Step(c, "releasing", "returned")
  /\ active' = [active EXCEPT ![c] = NoHandle]
  /\ UNCHANGED <<open_handles, max_active, tally, asked, snapshot, outcome, orphan, reply,
                 lifeVars, ledgerVars>>

\* The loop answers the client; nobody awaits the item of an orphan.
Deliver(c) ==
  /\ Step(c, "returned", "none")
  /\ IF c \in orphan THEN UNCHANGED reply ELSE Reply(c, outcome[c])
  /\ orphan' = orphan \ {c}
  /\ UNCHANGED <<slotVars, asked, snapshot, outcome, lifeVars, ledgerVars>>

-------------------------------------------------------------------------------
(* shutdown() *)

BeginDraining(s) ==
  /\ stopper[s] = "idle"
  /\ state' = CASE state = "created" -> "closed"
                [] state = "closed"  -> "closed"
                [] OTHER             -> "draining"
  /\ stopper' = [stopper EXCEPT ![s] = IF executor = "none" THEN "closing" ELSE "joining"]
  /\ UNCHANGED <<enabled, executor, started, slotVars, workVars, ledgerVars>>

\* Seeded fault: shutdown(wait=False).
JoinWithoutWaiting(s) ==
  /\ stopper[s] = "joining"
  /\ executor' = "shut"
  /\ stopper' = [stopper EXCEPT ![s] = "closing"]
  /\ UNCHANGED <<enabled, state, started, slotVars, workVars, ledgerVars>>

\* executor.shutdown(wait=True): the thread finishes what is queued; without a
\* thread there is nothing to wait for.
JoinExecutor(s) ==
  /\ stopper[s] = "joining"
  /\ executor = "running" => \A c \in Clients : work[c] \in {"none", "returned"}
  /\ executor' = "shut"
  /\ stopper' = [stopper EXCEPT ![s] = "closing"]
  /\ UNCHANGED <<enabled, state, started, slotVars, workVars, ledgerVars>>

\* close(): refuses to pull threads from under a turn, else closes them all.
Close(s) ==
  /\ stopper[s] = "closing"
  /\ IF state = "closed"
       THEN stopper' = [stopper EXCEPT ![s] = "done"] /\ UNCHANGED <<state, open_handles, ledgerVars>>
     ELSE IF Active # {}
       THEN stopper' = [stopper EXCEPT ![s] = "raised"] /\ UNCHANGED <<state, open_handles, ledgerVars>>
       ELSE /\ CloseAll
            /\ open_handles' = {}
            /\ state' = "closed"
            /\ stopper' = [stopper EXCEPT ![s] = "done"]
  /\ UNCHANGED <<enabled, executor, started, active, max_active, tally, workVars>>

-------------------------------------------------------------------------------
TurnStep(c) == \/ StartTurn(c) \/ LoadHistory(c) \/ WorkflowEnds(c) \/ WorkflowRaises(c)
           \/ \E size \in Sizes : Commit(c, size)
           \/ CountTurn(c) \/ ReleaseTurn(c) \/ Deliver(c)

Next == \/ Start
        \/ \E c \in Clients, h \in Handles :
             \/ OpenThread(c, h) \/ CloseThread(c, h)
             \/ RefuseTurn(c, h) \/ RefuseCapacity(c, h) \/ AdmitTurn(c, h) \/ SubmitFails(c, h)
        \/ \E c \in Clients : TurnStep(c)
        \/ \E s \in Stoppers : BeginDraining(s) \/ JoinExecutor(s) \/ Close(s)

Spec == Init /\ [][Next]_vars

\* The worker and the loop run on, and a shutdown that began goes on; clients
\* and the shutdown call come or do not.
FairSpec == /\ Spec
            /\ \A c \in Clients : WF_vars(TurnStep(c))
            /\ \A s \in Stoppers : WF_vars(JoinExecutor(s) \/ Close(s))

-------------------------------------------------------------------------------
Running == {c \in Clients : work[c] \in {"loading", "working", "committing", "committed",
                                         "failing", "releasing"}}

TypeOK ==
  /\ enabled \in BOOLEAN
  /\ state \in CState
  /\ open_handles \subseteq Handles
  /\ active \in [Clients -> Handles \cup {NoHandle}]
  /\ max_active \in 0 .. 1
  /\ tally \in [Tally -> Nat]
  /\ executor \in {"none", "open", "running", "shut"}
  /\ started \in BOOLEAN
  /\ asked \in [Clients -> Handles \cup {NoHandle}]
  /\ work \in [Clients -> WorkPlace]
  /\ snapshot \in [Clients -> [count: Nat, bytes: Nat]]
  /\ outcome \in [Clients -> Outcome]
  /\ orphan \subseteq Clients
  /\ reply \in [Clients -> Outcome \cup Refusal]
  /\ stopper \in [Stoppers -> {"idle", "joining", "closing", "done", "raised"}]
  /\ LedgerTypeOK

\* The two locks agree: the coordinator's open handles and the ledger's threads
\* are the same set, although closing touches them one after the other.
HandlesAgree == open_handles = opened

\* An admission that was cancelled never runs the model, even when the executor
\* kept its item: the token check stops it.
CancelledNeverRuns == \A c \in orphan : active[c] = NoHandle /\ c \notin Running

\* One whole turn at a time, on a thread nobody moves: the slot has one holder, only
\* the holder's turn is on the worker and no cancelled one, its thread stays open, and
\* the history the turn was run on is still the thread's when the turn commits.
HistoryIsStable ==
  /\ CancelledNeverRuns
  /\ \A c, d \in Active : c = d
  /\ Running \subseteq Active
  /\ Busy \subseteq opened
  /\ \A c \in Clients :
       /\ work[c] \in {"working", "committing"} => history[asked[c]] = snapshot[c]
       /\ work[c] = "committed" => history[asked[c]].count = snapshot[c].count + 1

\* Each admitted turn is completed, failed or still holding the slot, except the
\* ones whose submission failed; none is counted twice and none is forgotten.
TurnsBalance ==
  LET holding == {c \in Active : work[c] # "releasing"}
  IN  tally["admitted"] - tally["completed"] - tally["failed"] - Cardinality(holding)
        \in 0 .. MaxSubmitFailures

\* Shutdown never meets an admitted turn, and once closed nothing is retained.
CloseIsClean ==
  /\ \A s \in Stoppers : stopper[s] # "raised"
  /\ state = "closed" => Active = {} /\ opened = {} /\ open_handles = {}

\* The coordinator is a drain gate around the turns it has admitted.
GateMode == CASE state \in {"created", "accepting"} -> "open"
              [] state = "draining" -> "closing"
              [] state = "closed"   -> "closed"

Gate == INSTANCE DrainGate WITH Work <- Clients, mode <- GateMode, inside <- Active

GateRefined == Gate!GateSpec

\* The turn of a client as the abstract specification sees it: it is called when the
\* worker takes it up and over when the ledger has answered.
TurnOf(c) ==
  CASE work[c] = "loading" -> [phase |-> "called", handle |-> asked[c]]
    [] work[c] = "working" ->
         [phase |-> "working", handle |-> asked[c], read |-> snapshot[c].count]
    [] work[c] = "committing" ->
         [phase |-> "worked", handle |-> asked[c], read |-> snapshot[c].count]
    [] OTHER -> [phase |-> "idle"]

Contract == INSTANCE TurnContract WITH Workers <- Clients, turn <- [c \in Clients |-> TurnOf(c)]

\* Under the coordinator a turn is still a turn: none reaches the ledger but through
\* an item the worker took up, once, and a shutdown closes threads around turns only.
TurnsRefined == Contract!ContractSpec

\* Every turn that was submitted is answered, and the slot is free again by then.
TurnsEnd ==
  \A c \in Clients : work[c] = "queued" /\ c \notin orphan ~> work[c] = "none" /\ active[c] = NoHandle

\* A shutdown that began ends with the coordinator closed.
ShutdownEnds == \A s \in Stoppers : stopper[s] # "idle" ~> stopper[s] = "done" /\ state = "closed"

===============================================================================
