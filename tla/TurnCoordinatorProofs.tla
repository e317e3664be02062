-------------------------- MODULE TurnCoordinatorProofs --------------------------
(***************************************************************************)
(* Proofs about the coordinator, its transport's single worker and the     *)
(* thread ledger, for any clients, stoppers, threads, turn sizes and       *)
(* limits.  The invariant: the types; who holds the one whole-turn slot    *)
(* (Slot); what the lifecycle and the executor say of it (Life); that the  *)
(* history a turn was run on stays its thread's (History); and how the     *)
(* counters add up (Balance).  The ledger's limits come first: they hold   *)
(* whoever calls it.                                                       *)
(***************************************************************************)
EXTENDS TurnCoordinator, FiniteSetTheorems, TLAPS

-------------------------------------------------------------------------------
(* The ledger alone: its limits hold whoever calls it and in whatever order *)

LedgerInv == LedgerTypeOK /\ WithinLimits

\* What one append may do to the history of its thread, and to no other.
LEMMA AppendKeepsLimits ==
  ASSUME LedgerInv, NEW h \in Handles, NEW n, NEW size \in Sizes, AppendTurn(h, n, size)
  PROVE  LedgerInv'
<1>1. /\ h \in opened /\ opened' = opened
      /\ history[h].count + 1 <= MaxTurns /\ history[h].bytes + size <= MaxBytes
      /\ history' = [history EXCEPT ![h] = [count |-> history[h].count + 1,
                                            bytes |-> history[h].bytes + size]]
  BY DEF AppendTurn, Acceptable
<1>2. /\ history \in [Handles -> [count: Nat, bytes: Nat]] /\ opened \subseteq Handles
      /\ history[h].count + 1 \in Nat /\ history[h].bytes + size \in Nat
  BY LedgerAssumption DEF LedgerInv, LedgerTypeOK, LedgerAssumption
<1>3. LedgerTypeOK'
  BY <1>1, <1>2 DEF LedgerTypeOK
<1>4. ASSUME NEW g \in opened
      PROVE  history'[g].count <= MaxTurns /\ history'[g].bytes <= MaxBytes
  BY <1>1, <1>2 DEF LedgerInv, WithinLimits
<1>5. ASSUME NEW g \in Handles \ opened
      PROVE  history'[g] = Empty
  BY <1>1, <1>2 DEF LedgerInv, WithinLimits
<1>. QED
  BY <1>1, <1>3, <1>4, <1>5 DEF LedgerInv, WithinLimits

\* Opening, closing and dropping threads: a history starts and ends empty.
LEMMA LedgerStep ==
  ASSUME LedgerInv, [LedgerNext]_ledgerVars
  PROVE  LedgerInv'
<1>. USE LedgerAssumption DEF LedgerAssumption, Empty
<1>1. ASSUME NEW h \in Handles, LedgerOpen(h)
      PROVE  LedgerInv'
  BY <1>1 DEF LedgerOpen, LedgerInv, LedgerTypeOK, WithinLimits
<1>2. ASSUME NEW h \in Handles, LedgerClose(h)
      PROVE  LedgerInv'
  BY <1>2 DEF LedgerClose, LedgerInv, LedgerTypeOK, WithinLimits
<1>3. ASSUME NEW h \in Handles, NEW n \in 1 .. MaxTurns, NEW size \in Sizes, AppendTurn(h, n, size)
      PROVE  LedgerInv'
  BY <1>3, AppendKeepsLimits
<1>4. CASE CloseAll
  BY <1>4 DEF CloseAll, LedgerInv, LedgerTypeOK, WithinLimits
<1>5. CASE UNCHANGED ledgerVars
  BY <1>5 DEF ledgerVars, LedgerInv, LedgerTypeOK, WithinLimits
<1>. QED
  BY <1>1, <1>2, <1>3, <1>4, <1>5 DEF LedgerNext

\* No thread passes its limits, and a closed thread retains nothing.
THEOREM LimitsHold == LedgerSpec => []WithinLimits
<1>1. LedgerInit => LedgerInv
  BY LedgerAssumption DEF LedgerInit, LedgerInv, LedgerTypeOK, WithinLimits, Empty, LedgerAssumption
<1>2. LedgerInv /\ [LedgerNext]_ledgerVars => LedgerInv'
  BY LedgerStep
<1>3. LedgerInv => WithinLimits
  BY DEF LedgerInv
<1>. QED
  BY <1>1, <1>2, <1>3, PTL DEF LedgerSpec

-------------------------------------------------------------------------------
(* The coordinator *)

RunPlaces == {"loading", "working", "committing", "committed", "failing", "releasing"}

\* The slot has one holder, whose turn is the only one on the worker; an orphan
\* never holds it.
Slot ==
  /\ open_handles = opened
  /\ \A c, d \in Clients : active[c] # NoHandle /\ active[d] # NoHandle => c = d
  /\ \A c \in Clients : active[c] # NoHandle =>
       /\ active[c] = asked[c] /\ active[c] \in opened
       /\ work[c] \in RunPlaces \cup {"queued"} /\ c \notin orphan
  /\ \A c \in Clients : work[c] \in RunPlaces => active[c] # NoHandle
  /\ \A c \in Clients : work[c] = "queued" => asked[c] # NoHandle
  /\ \A c \in orphan : work[c] \in {"queued", "returned"}

Life ==
  /\ \A c \in Clients : active[c] # NoHandle => executor = "running"
  /\ executor # "none" => started
  /\ state = "accepting" => executor \in {"open", "running"}
  /\ executor \in {"none", "open"} => \A c \in Clients : work[c] \in {"none", "queued"}
  /\ \A s \in Stoppers :
       /\ stopper[s] # "idle" => state \in {"draining", "closed"}
       /\ stopper[s] = "joining" => executor # "none"
       /\ stopper[s] = "closing" => \A c \in Clients : active[c] = NoHandle
       /\ stopper[s] # "raised"
  /\ state \in {"created", "closed"} => opened = {} /\ \A c \in Clients : active[c] = NoHandle

History ==
  \A c \in Clients :
    /\ work[c] \in {"working", "committing"} => history[asked[c]] = snapshot[c]
    /\ work[c] = "committed" => history[asked[c]].count = snapshot[c].count + 1

\* Whether an admitted turn is neither completed nor failed yet.
Held == \E c \in Clients : active[c] # NoHandle /\ work[c] # "releasing"

Strays == tally["admitted"] - tally["completed"] - tally["failed"] - (IF Held THEN 1 ELSE 0)

\* While the executor has no thread every failed submission still has its item.
Balance ==
  /\ Strays \in 0 .. MaxSubmitFailures
  /\ executor \in {"none", "open"} => Strays = Cardinality(orphan)

Inv == TypeOK /\ Slot /\ Life /\ History /\ Balance

LEMMA Initially == Init => Inv
<1>. SUFFICES ASSUME Init PROVE Inv
  OBVIOUS
<1>. USE CoordinatorAssumption, LedgerAssumption DEF CoordinatorAssumption
<1>1. TypeOK
  <2>1. enabled \in BOOLEAN
    BY Zenon DEF Init
  <2>2. Empty \in [count: Nat, bytes: Nat] /\ LedgerTypeOK
    BY DEF Init, LedgerInit, LedgerTypeOK, Empty
  <2>3. tally \in [Tally -> Nat] /\ snapshot \in [Clients -> [count: Nat, bytes: Nat]]
    BY <2>2 DEF Init
  <2>4. /\ active \in [Clients -> Handles \cup {NoHandle}] 
        /\ asked \in [Clients -> Handles \cup {NoHandle}]
        /\ work \in [Clients -> WorkPlace] /\ outcome \in [Clients -> Outcome]
        /\ reply \in [Clients -> Outcome \cup Refusal]
        /\ stopper \in [Stoppers -> {"idle", "joining", "closing", "done", "raised"}]
    BY DEF Init, WorkPlace, Outcome
  <2>5. /\ state \in CState /\ open_handles \subseteq Handles /\ max_active \in 0 .. 1
        /\ executor \in {"none", "open", "running", "shut"} /\ orphan \subseteq Clients
    BY DEF Init, CState
  <2>6. started \in BOOLEAN
    BY Zenon DEF Init
  <2>. QED
    BY <2>1, <2>2, <2>3, <2>4, <2>5, <2>6 DEF TypeOK
<1>2. Slot /\ Life /\ History
  BY DEF Init, Slot, Life, History, LedgerInit, RunPlaces
<1>3. ~Held /\ Strays = 0
  BY DEF Init, Held, Strays, Tally
<1>4. Cardinality(orphan) = 0
  BY FS_EmptySet DEF Init
<1>. QED
  BY <1>1, <1>2, <1>3, <1>4 DEF Inv, Balance

\* Every operation keeps the types.
LEMMA TypesStep ==
  ASSUME Inv, [Next]_vars PROVE TypeOK'
<1>. USE CoordinatorAssumption, LedgerAssumption DEF CoordinatorAssumption
<1>. USE DEF Inv, TypeOK, LedgerTypeOK, Empty, CState, Tally, WorkPlace, Outcome,
     Refusal, NotAccepting, slotVars, workVars, lifeVars, ledgerVars
<1>1. CASE Start
  BY <1>1 DEF Start
<1>2. ASSUME NEW c \in Clients, NEW h \in Handles, OpenThread(c, h) PROVE TypeOK'
  BY <1>2 DEF OpenThread, LedgerOpen, Idle, Reply
<1>3. ASSUME NEW c \in Clients, NEW h \in Handles, CloseThread(c, h) PROVE TypeOK'
  <2>1. CASE UNCHANGED <<open_handles, ledgerVars>>
    BY <1>3, <2>1 DEF CloseThread, Idle, Reply
  <2>2. CASE LedgerClose(h) /\ open_handles' = open_handles \ {h} /\ Reply(c, "thread_closed")
    <3>1. Empty \in [count: Nat, bytes: Nat]
      OBVIOUS
    <3>2. LedgerTypeOK'
      BY <2>2, <3>1 DEF LedgerClose
    <3>. QED
      BY <1>3, <2>2, <3>2 DEF CloseThread, Reply
  <2>. QED
    BY <1>3, <2>1, <2>2 DEF CloseThread
<1>4. ASSUME NEW c \in Clients, NEW h \in Handles, RefuseTurn(c, h) PROVE TypeOK'
  BY <1>4 DEF RefuseTurn, Idle, Reply
<1>5. ASSUME NEW c \in Clients, NEW h \in Handles, RefuseCapacity(c, h) PROVE TypeOK'
  BY <1>5 DEF RefuseCapacity, Add, Idle, Reply
<1>6. ASSUME NEW c \in Clients, NEW h \in Handles, AdmitTurn(c, h) PROVE TypeOK'
  <2>1. tally' \in [Tally -> Nat]
    BY <1>6 DEF AdmitTurn, Add
  <2>2. Cardinality(Active) = 0
    BY <1>6, FS_EmptySet DEF AdmitTurn, CanAdmit
  <2>3. max_active' \in 0 .. 1
    BY <1>6, <2>2 DEF AdmitTurn
  <2>. QED
    BY <1>6, <2>1, <2>3 DEF AdmitTurn, CanAdmit, Idle, Reply
<1>7. ASSUME NEW c \in Clients, NEW h \in Handles, SubmitFails(c, h) PROVE TypeOK'
  <2>1. tally' \in [Tally -> Nat]
    BY <1>7 DEF SubmitFails, Add
  <2>2. Cardinality(Active) = 0
    BY <1>7, FS_EmptySet DEF SubmitFails, CanAdmit
  <2>3. max_active' \in 0 .. 1
    BY <1>7, <2>2 DEF SubmitFails
  <2>. QED
    BY <1>7, <2>1, <2>3 DEF SubmitFails, CanAdmit, Idle, Reply
<1>8. ASSUME NEW c \in Clients, StartTurn(c) PROVE TypeOK'
  BY <1>8 DEF StartTurn, Step, OnWorker
<1>9. ASSUME NEW c \in Clients, LoadHistory(c) PROVE TypeOK'
  <2>1. snapshot' \in [Clients -> [count: Nat, bytes: Nat]]
    BY <1>9 DEF LoadHistory
  <2>. QED
    BY <1>9, <2>1 DEF LoadHistory, Step, Fail
<1>10. ASSUME NEW c \in Clients, WorkflowEnds(c) PROVE TypeOK'
  BY <1>10 DEF WorkflowEnds, Step
<1>11. ASSUME NEW c \in Clients, WorkflowRaises(c) PROVE TypeOK'
  BY <1>11 DEF WorkflowRaises, Step, Fail
<1>12. ASSUME NEW c \in Clients, NEW size \in Sizes, Commit(c, size) PROVE TypeOK'
  <2>1. CASE AppendTurn(asked[c], snapshot[c].count + 1, size)
    <3>1. LedgerTypeOK'
      BY <2>1 DEF AppendTurn, Acceptable
    <3>. QED
      BY <1>12, <2>1, <3>1 DEF Commit, Step, Fail, AppendTurn
  <2>2. CASE UNCHANGED ledgerVars
    BY <1>12, <2>2 DEF Commit, Step, Fail
  <2>. QED
    BY <1>12, <2>1, <2>2 DEF Commit
<1>13. ASSUME NEW c \in Clients, CountTurn(c) PROVE TypeOK'
  <2>1. tally' \in [Tally -> Nat]
    <3>1. tally' = [tally EXCEPT !["completed"] = @ + 1] \/ tally' = [tally EXCEPT !["failed"] = @ + 1]
      BY <1>13 DEF CountTurn, Add
    <3>2. tally["completed"] + 1 \in Nat /\ tally["failed"] + 1 \in Nat /\ tally \in [Tally -> Nat]
      OBVIOUS
    <3>. QED
      BY <3>1, <3>2
  <2>. QED
    BY <1>13, <2>1 DEF CountTurn, Step
<1>14. ASSUME NEW c \in Clients, ReleaseTurn(c) PROVE TypeOK'
  BY <1>14 DEF ReleaseTurn, Step
<1>15. ASSUME NEW c \in Clients, Deliver(c) PROVE TypeOK'
  BY <1>15 DEF Deliver, Step, Reply
<1>16. ASSUME NEW s \in Stoppers, BeginDraining(s) PROVE TypeOK'
  BY <1>16 DEF BeginDraining
<1>17. ASSUME NEW s \in Stoppers, JoinExecutor(s) PROVE TypeOK'
  BY <1>17 DEF JoinExecutor
<1>18. ASSUME NEW s \in Stoppers, Close(s) PROVE TypeOK'
  BY <1>18 DEF Close, CloseAll
<1>19. CASE UNCHANGED vars
  BY <1>19 DEF vars
<1>. QED
  BY <1>1, <1>2, <1>3, <1>4, <1>5, <1>6, <1>7, <1>8, <1>9, <1>10, <1>11, <1>12, <1>13, <1>14,
     <1>15, <1>16, <1>17, <1>18, <1>19 DEF Next, TurnStep

\* Every operation keeps the slot with its one holder.
LEMMA SlotStep ==
  ASSUME Inv, [Next]_vars PROVE Slot'
<1>. USE CoordinatorAssumption DEF CoordinatorAssumption
<1>. USE DEF Inv, TypeOK, Slot, Life, LedgerTypeOK, RunPlaces, Active, Busy, slotVars,
     workVars, lifeVars, ledgerVars
<1>1. CASE Start
  BY <1>1 DEF Start
<1>2. ASSUME NEW c \in Clients, NEW h \in Handles, OpenThread(c, h) PROVE Slot'
  BY <1>2 DEF OpenThread, LedgerOpen, Idle, Reply
<1>3. ASSUME NEW c \in Clients, NEW h \in Handles, CloseThread(c, h) PROVE Slot'
  <2>1. CASE UNCHANGED <<open_handles, ledgerVars>>
    BY <1>3, <2>1 DEF CloseThread
  <2>2. CASE LedgerClose(h) /\ open_handles' = open_handles \ {h} /\ h \notin Busy
    <3>1. \A d \in Clients : active[d] # NoHandle => active[d] # h
      BY <2>2
    <3>. QED
      BY <1>3, <2>2, <3>1 DEF CloseThread, LedgerClose
  <2>. QED
    BY <1>3, <2>1, <2>2 DEF CloseThread
<1>4. ASSUME NEW c \in Clients, NEW h \in Handles, RefuseTurn(c, h) PROVE Slot'
  BY <1>4 DEF RefuseTurn, Idle, Reply
<1>5. ASSUME NEW c \in Clients, NEW h \in Handles, RefuseCapacity(c, h) PROVE Slot'
  BY <1>5 DEF RefuseCapacity, Add, Idle, Reply
<1>6. ASSUME NEW c \in Clients, NEW h \in Handles, AdmitTurn(c, h) PROVE Slot'
  BY <1>6 DEF AdmitTurn, CanAdmit, Add, Idle, Reply
<1>7. ASSUME NEW c \in Clients, NEW h \in Handles, SubmitFails(c, h) PROVE Slot'
  BY <1>7 DEF SubmitFails, CanAdmit, Add, Idle, Reply
<1>8. ASSUME NEW c \in Clients, StartTurn(c) PROVE Slot'
  BY <1>8 DEF StartTurn, Step, OnWorker
<1>9. ASSUME NEW c \in Clients, LoadHistory(c) PROVE Slot'
  BY <1>9 DEF LoadHistory, Step, Fail
<1>10. ASSUME NEW c \in Clients, WorkflowEnds(c) PROVE Slot'
  BY <1>10 DEF WorkflowEnds, Step
<1>11. ASSUME NEW c \in Clients, WorkflowRaises(c) PROVE Slot'
  BY <1>11 DEF WorkflowRaises, Step, Fail
<1>12. ASSUME NEW c \in Clients, NEW size \in Sizes, Commit(c, size) PROVE Slot'
  BY <1>12 DEF Commit, Step, Fail, AppendTurn, Acceptable
<1>13. ASSUME NEW c \in Clients, CountTurn(c) PROVE Slot'
  BY <1>13 DEF CountTurn, Step, Add
<1>14. ASSUME NEW c \in Clients, ReleaseTurn(c) PROVE Slot'
  BY <1>14 DEF ReleaseTurn, Step
<1>15. ASSUME NEW c \in Clients, Deliver(c) PROVE Slot'
  BY <1>15 DEF Deliver, Step, Reply
<1>16. ASSUME NEW s \in Stoppers, BeginDraining(s) PROVE Slot'
  BY <1>16 DEF BeginDraining
<1>17. ASSUME NEW s \in Stoppers, JoinExecutor(s) PROVE Slot'
  BY <1>17 DEF JoinExecutor
<1>18. ASSUME NEW s \in Stoppers, Close(s) PROVE Slot'
  BY <1>18 DEF Close, CloseAll
<1>19. CASE UNCHANGED vars
  BY <1>19 DEF vars
<1>. QED
  BY <1>1, <1>2, <1>3, <1>4, <1>5, <1>6, <1>7, <1>8, <1>9, <1>10, <1>11, <1>12, <1>13, <1>14,
     <1>15, <1>16, <1>17, <1>18, <1>19 DEF Next, TurnStep

\* Every operation keeps what the lifecycle and the executor say of the slot.
LEMMA LifeStep ==
  ASSUME Inv, [Next]_vars PROVE Life'
<1>. USE CoordinatorAssumption DEF CoordinatorAssumption
<1>. USE DEF Inv, TypeOK, Slot, Life, RunPlaces, CState, WorkPlace, Active, slotVars,
     workVars, lifeVars, ledgerVars
<1>1. CASE Start
  BY <1>1 DEF Start
<1>2. ASSUME NEW c \in Clients, NEW h \in Handles, OpenThread(c, h) PROVE Life'
  BY <1>2 DEF OpenThread, LedgerOpen, Idle, Reply
<1>3. ASSUME NEW c \in Clients, NEW h \in Handles, CloseThread(c, h) PROVE Life'
  BY <1>3 DEF CloseThread, LedgerClose, Idle, Reply
<1>4. ASSUME NEW c \in Clients, NEW h \in Handles, RefuseTurn(c, h) PROVE Life'
  BY <1>4 DEF RefuseTurn, Idle, Reply
<1>5. ASSUME NEW c \in Clients, NEW h \in Handles, RefuseCapacity(c, h) PROVE Life'
  BY <1>5 DEF RefuseCapacity, Add, Idle, Reply
<1>6. ASSUME NEW c \in Clients, NEW h \in Handles, AdmitTurn(c, h) PROVE Life'
  BY <1>6 DEF AdmitTurn, CanAdmit, Add, Idle, Reply
<1>7. ASSUME NEW c \in Clients, NEW h \in Handles, SubmitFails(c, h) PROVE Life'
  BY <1>7 DEF SubmitFails, CanAdmit, Add, Idle, Reply
<1>8. ASSUME NEW c \in Clients, StartTurn(c) PROVE Life'
  BY <1>8 DEF StartTurn, Step, OnWorker
<1>9. ASSUME NEW c \in Clients, LoadHistory(c) PROVE Life'
  BY <1>9 DEF LoadHistory, Step, Fail
<1>10. ASSUME NEW c \in Clients, WorkflowEnds(c) PROVE Life'
  BY <1>10 DEF WorkflowEnds, Step
<1>11. ASSUME NEW c \in Clients, WorkflowRaises(c) PROVE Life'
  BY <1>11 DEF WorkflowRaises, Step, Fail
<1>12. ASSUME NEW c \in Clients, NEW size \in Sizes, Commit(c, size) PROVE Life'
  BY <1>12 DEF Commit, Step, Fail, AppendTurn, Acceptable
<1>13. ASSUME NEW c \in Clients, CountTurn(c) PROVE Life'
  BY <1>13 DEF CountTurn, Step, Add
<1>14. ASSUME NEW c \in Clients, ReleaseTurn(c) PROVE Life'
  BY <1>14 DEF ReleaseTurn, Step
<1>15. ASSUME NEW c \in Clients, Deliver(c) PROVE Life'
  BY <1>15 DEF Deliver, Step, Reply
<1>16. ASSUME NEW s \in Stoppers, BeginDraining(s) PROVE Life'
  BY <1>16 DEF BeginDraining
<1>17. ASSUME NEW s \in Stoppers, JoinExecutor(s) PROVE Life'
  BY <1>17 DEF JoinExecutor
<1>18. ASSUME NEW s \in Stoppers, Close(s) PROVE Life'
  BY <1>18 DEF Close, CloseAll
<1>19. CASE UNCHANGED vars
  BY <1>19 DEF vars
<1>. QED
  BY <1>1, <1>2, <1>3, <1>4, <1>5, <1>6, <1>7, <1>8, <1>9, <1>10, <1>11, <1>12, <1>13, <1>14,
     <1>15, <1>16, <1>17, <1>18, <1>19 DEF Next, TurnStep

\* Nobody but the holder of the slot changes the history of its thread.
LEMMA HistoryStep ==
  ASSUME Inv, [Next]_vars PROVE History'
<1>. USE CoordinatorAssumption, LedgerAssumption DEF CoordinatorAssumption
<1>. USE DEF Inv, TypeOK, Slot, History, LedgerTypeOK, RunPlaces, Active, Busy, slotVars,
     workVars, lifeVars, ledgerVars
<1>1. CASE Start
  BY <1>1 DEF Start
<1>2. ASSUME NEW c \in Clients, NEW h \in Handles, OpenThread(c, h) PROVE History'
  BY <1>2 DEF OpenThread, LedgerOpen, Idle, Reply
<1>3. ASSUME NEW c \in Clients, NEW h \in Handles, CloseThread(c, h) PROVE History'
  BY <1>3 DEF CloseThread, LedgerClose, Idle, Reply
<1>4. ASSUME NEW c \in Clients, NEW h \in Handles, RefuseTurn(c, h) PROVE History'
  BY <1>4 DEF RefuseTurn, Idle, Reply
<1>5. ASSUME NEW c \in Clients, NEW h \in Handles, RefuseCapacity(c, h) PROVE History'
  BY <1>5 DEF RefuseCapacity, Add, Idle, Reply
<1>6. ASSUME NEW c \in Clients, NEW h \in Handles, AdmitTurn(c, h) PROVE History'
  BY <1>6 DEF AdmitTurn, CanAdmit, Add, Idle, Reply
<1>7. ASSUME NEW c \in Clients, NEW h \in Handles, SubmitFails(c, h) PROVE History'
  BY <1>7 DEF SubmitFails, CanAdmit, Add, Idle, Reply
<1>8. ASSUME NEW c \in Clients, StartTurn(c) PROVE History'
  BY <1>8 DEF StartTurn, Step, OnWorker
<1>9. ASSUME NEW c \in Clients, LoadHistory(c) PROVE History'
  BY <1>9 DEF LoadHistory, Step, Fail
<1>10. ASSUME NEW c \in Clients, WorkflowEnds(c) PROVE History'
  BY <1>10 DEF WorkflowEnds, Step
<1>11. ASSUME NEW c \in Clients, WorkflowRaises(c) PROVE History'
  BY <1>11 DEF WorkflowRaises, Step, Fail
<1>12. ASSUME NEW c \in Clients, NEW size \in Sizes, Commit(c, size) PROVE History'
  BY <1>12 DEF Commit, Step, Fail, AppendTurn, Acceptable
<1>13. ASSUME NEW c \in Clients, CountTurn(c) PROVE History'
  BY <1>13 DEF CountTurn, Step, Add
<1>14. ASSUME NEW c \in Clients, ReleaseTurn(c) PROVE History'
  BY <1>14 DEF ReleaseTurn, Step
<1>15. ASSUME NEW c \in Clients, Deliver(c) PROVE History'
  BY <1>15 DEF Deliver, Step, Reply
<1>16. ASSUME NEW s \in Stoppers, BeginDraining(s) PROVE History'
  BY <1>16 DEF BeginDraining
<1>17. ASSUME NEW s \in Stoppers, JoinExecutor(s) PROVE History'
  BY <1>17 DEF JoinExecutor
<1>18. ASSUME NEW s \in Stoppers, Close(s) PROVE History'
  BY <1>18 DEF Close, CloseAll
<1>19. CASE UNCHANGED vars
  BY <1>19 DEF vars
<1>. QED
  BY <1>1, <1>2, <1>3, <1>4, <1>5, <1>6, <1>7, <1>8, <1>9, <1>10, <1>11, <1>12, <1>13, <1>14,
     <1>15, <1>16, <1>17, <1>18, <1>19 DEF Next, TurnStep

\* Who is holding does not change while the slot and the places before the
\* count do not.
LEMMA HeldStays ==
  ASSUME Inv, \A c \in Clients : /\ active'[c] = active[c]
                                   /\ (work'[c] = "releasing" <=> work[c] = "releasing")
  PROVE  Held' = Held
BY DEF Held

LEMMA StraysStay ==
  ASSUME Balance, tally' = tally, Held' = Held, orphan' = orphan,
         executor' \in {"none", "open"} => executor \in {"none", "open"}
  PROVE  Balance'
BY DEF Balance, Strays

\* Every operation keeps the balance of the counters.
LEMMA BalanceStep ==
  ASSUME Inv, [Next]_vars PROVE Balance'
<1>. USE CoordinatorAssumption DEF CoordinatorAssumption
<1>. USE DEF Inv, Balance, TypeOK, Slot, Life, RunPlaces, Active, slotVars, workVars,
     lifeVars, ledgerVars
<1>1. CASE Start
  <2>1. Held' = Held
    BY <1>1, HeldStays DEF Start
  <2>2. /\ tally' = tally /\ orphan' = orphan
        /\ (executor' \in {"none", "open"} => executor \in {"none", "open"})
    BY <1>1 DEF Start
  <2>. QED
    BY <2>1, <2>2, StraysStay
<1>2. ASSUME NEW c \in Clients, NEW h \in Handles, OpenThread(c, h) PROVE Balance'
  <2>1. Held' = Held
    BY <1>2, HeldStays DEF OpenThread, LedgerOpen, Idle, Reply
  <2>2. /\ tally' = tally /\ orphan' = orphan
        /\ (executor' \in {"none", "open"} => executor \in {"none", "open"})
    BY <1>2 DEF OpenThread, LedgerOpen, Idle, Reply
  <2>. QED
    BY <2>1, <2>2, StraysStay
<1>3. ASSUME NEW c \in Clients, NEW h \in Handles, CloseThread(c, h) PROVE Balance'
  <2>1. Held' = Held
    BY <1>3, HeldStays DEF CloseThread, LedgerClose, Idle, Reply
  <2>2. /\ tally' = tally /\ orphan' = orphan
        /\ (executor' \in {"none", "open"} => executor \in {"none", "open"})
    BY <1>3 DEF CloseThread, LedgerClose, Idle, Reply
  <2>. QED
    BY <2>1, <2>2, StraysStay
<1>4. ASSUME NEW c \in Clients, NEW h \in Handles, RefuseTurn(c, h) PROVE Balance'
  <2>1. Held' = Held
    BY <1>4, HeldStays DEF RefuseTurn, Idle, Reply
  <2>2. /\ tally' = tally /\ orphan' = orphan
        /\ (executor' \in {"none", "open"} => executor \in {"none", "open"})
    BY <1>4 DEF RefuseTurn, Idle, Reply
  <2>. QED
    BY <2>1, <2>2, StraysStay
<1>5. ASSUME NEW c \in Clients, NEW h \in Handles, RefuseCapacity(c, h) PROVE Balance'
  <2>1. Held' = Held
    BY <1>5, HeldStays DEF RefuseCapacity
  <2>2. Strays' = Strays
    BY <1>5, <2>1 DEF RefuseCapacity, Add, Strays, Tally
  <2>. QED
    BY <1>5, <2>2 DEF RefuseCapacity
<1>6. ASSUME NEW c \in Clients, NEW h \in Handles, AdmitTurn(c, h) PROVE Balance'
  <2>1. ~Held /\ Held'
    BY <1>6 DEF AdmitTurn, CanAdmit, Held, LedgerTypeOK
  <2>2. Strays' = Strays
    BY <1>6, <2>1 DEF AdmitTurn, Add, Strays, Tally
  <2>. QED
    BY <1>6, <2>2 DEF AdmitTurn
<1>7. ASSUME NEW c \in Clients, NEW h \in Handles, SubmitFails(c, h) PROVE Balance'
  <2>1. ~Held /\ ~Held'
    BY <1>7 DEF SubmitFails, CanAdmit, Held
  <2>2. Strays' = Strays + 1
    BY <1>7, <2>1 DEF SubmitFails, Add, Strays, Tally
  <2>3. /\ IsFiniteSet(orphan) /\ Cardinality(orphan) \in Nat /\ c \notin orphan
        /\ Cardinality(orphan) < MaxSubmitFailures /\ orphan' = orphan \cup {c} /\ executor = "open"
    BY <1>7, FS_Subset, FS_CardinalityType DEF SubmitFails, CanAdmit, Idle
  <2>4. Cardinality(orphan') = Cardinality(orphan) + 1
    BY <2>3, FS_AddElement
  <2>5. Strays = Cardinality(orphan)
    BY <2>3
  <2>. QED
    BY <1>7, <2>2, <2>3, <2>4, <2>5
<1>8. ASSUME NEW c \in Clients, StartTurn(c) PROVE Balance'
  <2>1. Held' = Held
    BY <1>8, HeldStays DEF StartTurn, Step, OnWorker
  <2>2. /\ tally' = tally /\ orphan' = orphan
        /\ (executor' \in {"none", "open"} => executor \in {"none", "open"})
    BY <1>8 DEF StartTurn, Step, OnWorker
  <2>. QED
    BY <2>1, <2>2, StraysStay
<1>9. ASSUME NEW c \in Clients, LoadHistory(c) PROVE Balance'
  <2>1. Held' = Held
    BY <1>9, HeldStays DEF LoadHistory, Step, Fail
  <2>2. /\ tally' = tally /\ orphan' = orphan
        /\ (executor' \in {"none", "open"} => executor \in {"none", "open"})
    BY <1>9 DEF LoadHistory, Step, Fail
  <2>. QED
    BY <2>1, <2>2, StraysStay
<1>10. ASSUME NEW c \in Clients, WorkflowEnds(c) PROVE Balance'
  <2>1. Held' = Held
    BY <1>10, HeldStays DEF WorkflowEnds, Step
  <2>2. /\ tally' = tally /\ orphan' = orphan
        /\ (executor' \in {"none", "open"} => executor \in {"none", "open"})
    BY <1>10 DEF WorkflowEnds, Step
  <2>. QED
    BY <2>1, <2>2, StraysStay
<1>11. ASSUME NEW c \in Clients, WorkflowRaises(c) PROVE Balance'
  <2>1. Held' = Held
    BY <1>11, HeldStays DEF WorkflowRaises, Step, Fail
  <2>2. /\ tally' = tally /\ orphan' = orphan
        /\ (executor' \in {"none", "open"} => executor \in {"none", "open"})
    BY <1>11 DEF WorkflowRaises, Step, Fail
  <2>. QED
    BY <2>1, <2>2, StraysStay
<1>12. ASSUME NEW c \in Clients, NEW size \in Sizes, Commit(c, size) PROVE Balance'
  <2>1. Held' = Held
    BY <1>12, HeldStays DEF Commit, Step, Fail, AppendTurn, Acceptable
  <2>2. /\ tally' = tally /\ orphan' = orphan
        /\ (executor' \in {"none", "open"} => executor \in {"none", "open"})
    BY <1>12 DEF Commit, Step, Fail, AppendTurn, Acceptable
  <2>. QED
    BY <2>1, <2>2, StraysStay
<1>13. ASSUME NEW c \in Clients, CountTurn(c) PROVE Balance'
  <2>1. Held
    BY <1>13 DEF CountTurn, Step, Held
  <2>2. ~Held'
    BY <1>13 DEF CountTurn, Step, Held
  <2>3. Strays' = Strays
    BY <1>13, <2>1, <2>2 DEF CountTurn, Add, Strays, Tally
  <2>. QED
    BY <1>13, <2>3 DEF CountTurn
<1>14. ASSUME NEW c \in Clients, ReleaseTurn(c) PROVE Balance'
  <2>1. ~Held /\ ~Held'
    BY <1>14 DEF ReleaseTurn, Step, Held
  <2>2. Strays' = Strays
    BY <1>14, <2>1 DEF ReleaseTurn, Strays
  <2>. QED
    BY <1>14, <2>2 DEF ReleaseTurn
<1>15. ASSUME NEW c \in Clients, Deliver(c) PROVE Balance'
  <2>1. Held' = Held
    BY <1>15, HeldStays DEF Deliver, Step
  <2>2. Strays' = Strays
    BY <1>15, <2>1 DEF Deliver, Strays
  <2>3. executor \notin {"none", "open"} /\ executor' = executor
    BY <1>15 DEF Deliver, Step
  <2>. QED
    BY <2>2, <2>3
<1>16. ASSUME NEW s \in Stoppers, BeginDraining(s) PROVE Balance'
  <2>1. Held' = Held
    BY <1>16, HeldStays DEF BeginDraining
  <2>2. /\ tally' = tally /\ orphan' = orphan
        /\ (executor' \in {"none", "open"} => executor \in {"none", "open"})
    BY <1>16 DEF BeginDraining
  <2>. QED
    BY <2>1, <2>2, StraysStay
<1>17. ASSUME NEW s \in Stoppers, JoinExecutor(s) PROVE Balance'
  <2>1. Held' = Held
    BY <1>17, HeldStays DEF JoinExecutor
  <2>2. /\ tally' = tally /\ orphan' = orphan
        /\ (executor' \in {"none", "open"} => executor \in {"none", "open"})
    BY <1>17 DEF JoinExecutor
  <2>. QED
    BY <2>1, <2>2, StraysStay
<1>18. ASSUME NEW s \in Stoppers, Close(s) PROVE Balance'
  <2>1. Held' = Held
    BY <1>18, HeldStays DEF Close, CloseAll
  <2>2. /\ tally' = tally /\ orphan' = orphan
        /\ (executor' \in {"none", "open"} => executor \in {"none", "open"})
    BY <1>18 DEF Close, CloseAll
  <2>. QED
    BY <2>1, <2>2, StraysStay
<1>19. CASE UNCHANGED vars
  BY <1>19 DEF vars, Strays, Held
<1>. QED
  BY <1>1, <1>2, <1>3, <1>4, <1>5, <1>6, <1>7, <1>8, <1>9, <1>10, <1>11, <1>12, <1>13, <1>14,
     <1>15, <1>16, <1>17, <1>18, <1>19 DEF Next, TurnStep

\* The coordinator's inductive invariant.
THEOREM CoordinatorInvariant == Spec => []Inv
<1>1. Init => Inv
  BY Initially
<1>2. Inv /\ [Next]_vars => Inv'
  BY TypesStep, SlotStep, LifeStep, HistoryStep, BalanceStep DEF Inv
<1>. QED
  BY <1>1, <1>2, PTL DEF Spec

\* Every variable stays in its type (TypeOK).
THEOREM TypesHold == Spec => []TypeOK
<1>1. Inv => TypeOK
  BY DEF Inv
<1>. QED
  BY <1>1, CoordinatorInvariant, PTL

\* The coordinator's open handles and the ledger's threads are the same set
\* (HandlesAgree), although two locks guard them.
THEOREM HandlesOfBothAgree == Spec => []HandlesAgree
<1>1. Inv => HandlesAgree
  BY DEF Inv, Slot, HandlesAgree
<1>. QED
  BY <1>1, CoordinatorInvariant, PTL

\* One whole turn at a time, on a thread nobody moves (HistoryIsStable): what the
\* turn was run on is still the thread's history when it commits, and an admission
\* that was cancelled never runs (CancelledNeverRuns).
THEOREM HistoriesStay == Spec => []HistoryIsStable
<1>1. Inv => HistoryIsStable
  <2>. SUFFICES ASSUME Inv PROVE HistoryIsStable
    OBVIOUS
  <2>1. /\ \A c, d \in Active : c = d
        /\ Running \subseteq Active /\ Busy \subseteq opened
    BY DEF Inv, Slot, Active, Running, Busy, RunPlaces
  <2>2. CancelledNeverRuns
    BY DEF Inv, TypeOK, Slot, CancelledNeverRuns, Running, RunPlaces
  <2>. QED
    BY <2>1, <2>2 DEF Inv, History, HistoryIsStable
<1>. QED
  BY <1>1, CoordinatorInvariant, PTL

\* Each admitted turn is completed, failed or still holding the slot, but for the
\* ones whose submission failed (TurnsBalance).
THEOREM TurnsCounted == Spec => []TurnsBalance
<1>1. Inv => TurnsBalance
  <2>. SUFFICES ASSUME Inv PROVE TurnsBalance
    OBVIOUS
  <2>. DEFINE holding == {c \in Active : work[c] # "releasing"}
  <2>1. Cardinality(holding) = IF Held THEN 1 ELSE 0
    <3>1. CASE Held
      <4>1. PICK c \in Clients : active[c] # NoHandle /\ work[c] # "releasing"
        BY <3>1 DEF Held
      <4>2. holding = {c}
        BY <4>1 DEF Inv, Slot, Active
      <4>. QED
        BY <3>1, <4>2, FS_Singleton
    <3>2. CASE ~Held
      <4>1. holding = {}
        BY <3>2 DEF Held, Active
      <4>. QED
        BY <3>2, <4>1, FS_EmptySet
    <3>. QED
      BY <3>1, <3>2
  <2>. QED
    BY <2>1 DEF Inv, Balance, Strays, TurnsBalance
<1>. QED
  BY <1>1, CoordinatorInvariant, PTL

\* Shutdown never meets an admitted turn, and once closed nothing is retained
\* (CloseIsClean).
THEOREM ClosesClean == Spec => []CloseIsClean
<1>1. Inv => CloseIsClean
  BY DEF Inv, Slot, Life, CloseIsClean, Active
<1>. QED
  BY <1>1, CoordinatorInvariant, PTL

\* Whatever the coordinator does to the ledger is one of the ledger's operations.
LEMMA LedgerMoves ==
  ASSUME Inv, [Next]_vars
  PROVE  [LedgerNext]_ledgerVars
<1>1. ASSUME NEW c \in Clients, NEW h \in Handles, OpenThread(c, h) PROVE [LedgerNext]_ledgerVars
  BY <1>1 DEF OpenThread, LedgerNext
<1>2. ASSUME NEW c \in Clients, NEW h \in Handles, CloseThread(c, h) PROVE [LedgerNext]_ledgerVars
  BY <1>2 DEF CloseThread, LedgerNext
<1>3. ASSUME NEW c \in Clients, NEW size \in Sizes, Commit(c, size) PROVE [LedgerNext]_ledgerVars
  <2>1. CASE AppendTurn(asked[c], snapshot[c].count + 1, size)
    <3>1. /\ asked[c] \in Handles /\ snapshot[c].count + 1 = history[asked[c]].count + 1
          /\ snapshot[c].count \in Nat /\ history[asked[c]].count + 1 <= MaxTurns
      BY <2>1 DEF AppendTurn, Acceptable, Inv, TypeOK, LedgerTypeOK
    <3>2. snapshot[c].count + 1 \in 1 .. MaxTurns
      BY <3>1, LedgerAssumption
    <3>. QED
      BY <2>1, <3>1, <3>2 DEF LedgerNext
  <2>. QED
    BY <1>3, <2>1 DEF Commit
<1>4. ASSUME NEW s \in Stoppers, Close(s) PROVE [LedgerNext]_ledgerVars
  BY <1>4 DEF Close, LedgerNext
<1>5. CASE Start \/ UNCHANGED vars
  BY <1>5 DEF Start, vars
<1>6. ASSUME NEW s \in Stoppers, BeginDraining(s) \/ JoinExecutor(s) PROVE UNCHANGED ledgerVars
  BY <1>6 DEF BeginDraining, JoinExecutor
<1>7. ASSUME NEW c \in Clients, NEW h \in Handles,
             RefuseTurn(c, h) \/ RefuseCapacity(c, h) \/ AdmitTurn(c, h) \/ SubmitFails(c, h)
      PROVE  UNCHANGED ledgerVars
  BY <1>7 DEF RefuseTurn, RefuseCapacity, AdmitTurn, SubmitFails
<1>8. ASSUME NEW c \in Clients, 
             StartTurn(c) \/ LoadHistory(c) \/ WorkflowEnds(c) \/ WorkflowRaises(c)
      PROVE  UNCHANGED ledgerVars
  BY <1>8 DEF StartTurn, LoadHistory, WorkflowEnds, WorkflowRaises
<1>9. ASSUME NEW c \in Clients, CountTurn(c) \/ ReleaseTurn(c) \/ Deliver(c)
      PROVE  UNCHANGED ledgerVars
  BY <1>9 DEF CountTurn, ReleaseTurn, Deliver
<1>. QED
  BY <1>1, <1>2, <1>3, <1>4, <1>5, <1>6, <1>7, <1>8, <1>9 DEF Next, TurnStep

\* The coordinator's history limits are the ledger's (WithinLimits): a commit that
\* would pass them is refused, and a closed thread retains nothing.
THEOREM CoordinatorKeepsLimits == Spec => []WithinLimits
<1>1. Init => LedgerInv
  BY LedgerAssumption DEF Init, LedgerInit, LedgerInv, LedgerTypeOK, WithinLimits, Empty
<1>2. Inv /\ LedgerInv /\ [Next]_vars => LedgerInv'
  BY LedgerMoves, LedgerStep
<1>3. LedgerInv => WithinLimits
  BY DEF LedgerInv
<1>. QED
  BY <1>1, <1>2, <1>3, CoordinatorInvariant, PTL DEF Spec

\* A step that leaves the state and the slot alone is a stutter of the gate.
LEMMA GateStays ==
  ASSUME Inv, Inv', GateMode' = GateMode, \A c \in Clients : active'[c] = active[c]
  PROVE  UNCHANGED Gate!gateVars
BY DEF Gate!gateVars, Active

LEMMA GateStep ==
  ASSUME Inv, Inv', [Next]_vars
  PROVE  [Gate!GateNext]_(Gate!gateVars)
<1>. USE DEF slotVars, lifeVars
<1>1. ASSUME NEW c \in Clients, NEW h \in Handles, AdmitTurn(c, h) PROVE Gate!Enter(c)
  <2>1. GateMode = "open" /\ GateMode' = "open" /\ c \in Clients \ Active
    BY <1>1 DEF AdmitTurn, CanAdmit, GateMode
  <2>2. Active' = Active \cup {c}
    BY <1>1, CoordinatorAssumption DEF AdmitTurn, Active, Inv, TypeOK
  <2>. QED
    BY <2>1, <2>2 DEF Gate!Enter
<1>2. ASSUME NEW c \in Clients, ReleaseTurn(c) PROVE Gate!Leave(c)
  <2>1. c \in Active /\ Active' = Active \ {c} /\ GateMode' = GateMode
    BY <1>2 DEF ReleaseTurn, Step, Active, GateMode, Inv, TypeOK, Slot, RunPlaces
  <2>. QED
    BY <2>1 DEF Gate!Leave
<1>3. ASSUME NEW s \in Stoppers, BeginDraining(s) PROVE [Gate!GateNext]_(Gate!gateVars)
  <2>1. Active' = Active
    BY <1>3 DEF BeginDraining, Active
  <2>2. CASE state = "created"
    <3>1. Active = {} /\ GateMode = "open" /\ GateMode' = "closed"
      BY <1>3, <2>2 DEF BeginDraining, Inv, Life, Active, GateMode
    <3>. QED
      BY <2>1, <3>1 DEF Gate!FinishClosing, Gate!GateNext
  <2>3. CASE state = "accepting"
    <3>1. GateMode = "open" /\ GateMode' = "closing"
      BY <1>3, <2>3 DEF BeginDraining, GateMode
    <3>. QED
      BY <2>1, <3>1 DEF Gate!BeginClosing, Gate!GateNext
  <2>4. CASE state \in {"draining", "closed"}
    <3>1. state' = state
      BY <1>3, <2>4 DEF BeginDraining
    <3>. QED
      BY <2>1, <3>1 DEF Gate!gateVars, GateMode
  <2>. QED
    BY <2>2, <2>3, <2>4 DEF Inv, TypeOK, CState
<1>4. ASSUME NEW s \in Stoppers, Close(s) PROVE [Gate!GateNext]_(Gate!gateVars)
  <2>1. Active' = Active
    BY <1>4 DEF Close, Active
  <2>2. CASE state' = state
    BY <2>1, <2>2 DEF Gate!gateVars, GateMode
  <2>3. CASE state' # state
    <3>1. Active = {} /\ GateMode # "closed" /\ GateMode' = "closed"
      BY <1>4, <2>3 DEF Close, GateMode, Inv, TypeOK, CState
    <3>. QED
      BY <2>1, <3>1 DEF Gate!FinishClosing, Gate!GateNext
  <2>. QED
    BY <2>2, <2>3
<1>5. CASE Start \/ UNCHANGED vars
  <2>1. GateMode' = GateMode /\ active' = active
    BY <1>5 DEF Start, vars, GateMode
  <2>. QED
    BY <2>1, GateStays
<1>6. ASSUME NEW c \in Clients, NEW h \in Handles,
             \/ OpenThread(c, h) \/ CloseThread(c, h)
             \/ RefuseTurn(c, h) \/ RefuseCapacity(c, h) \/ SubmitFails(c, h)
      PROVE  UNCHANGED Gate!gateVars
  <2>1. state' = state /\ active' = active
    BY <1>6 DEF OpenThread, CloseThread, RefuseTurn, RefuseCapacity, SubmitFails
  <2>. QED
    BY <2>1, GateStays DEF GateMode
<1>7. ASSUME NEW c \in Clients,
             \/ StartTurn(c) \/ LoadHistory(c) \/ WorkflowEnds(c) \/ WorkflowRaises(c)
             \/ (\E size \in Sizes : Commit(c, size)) \/ CountTurn(c) \/ Deliver(c)
      PROVE  UNCHANGED Gate!gateVars
  <2>1. state' = state /\ active' = active
    BY <1>7 DEF StartTurn, LoadHistory, WorkflowEnds, WorkflowRaises, Commit, CountTurn, Deliver
  <2>. QED
    BY <2>1, GateStays DEF GateMode
<1>8. ASSUME NEW s \in Stoppers, JoinExecutor(s) PROVE UNCHANGED Gate!gateVars
  <2>1. state' = state /\ active' = active
    BY <1>8 DEF JoinExecutor
  <2>. QED
    BY <2>1, GateStays DEF GateMode
<1>9. (\E c \in Clients : Gate!Enter(c) \/ Gate!Leave(c)) => Gate!GateNext
  BY DEF Gate!GateNext
<1>. QED
  BY <1>1, <1>2, <1>3, <1>4, <1>5, <1>6, <1>7, <1>8, <1>9 DEF Next, TurnStep

\* The coordinator implements the abstract drain gate (GateRefined).
THEOREM CoordinatorRefinesGate == Spec => GateRefined
<1>1. Init => Gate!GateInit
  BY DEF Init, Gate!GateInit, GateMode, Active
<1>2. Inv /\ Inv' /\ [Next]_vars => [Gate!GateNext]_(Gate!gateVars)
  BY GateStep
<1>. QED
  BY <1>1, <1>2, CoordinatorInvariant, PTL DEF Spec, GateRefined, Gate!GateSpec

-------------------------------------------------------------------------------
(* The coordinated turn implements the abstract turn *)

LEMMA OneTurnMoves ==
  ASSUME Inv, NEW c \in Clients, NEW place, NEW s, NEW next,
         work' = [work EXCEPT ![c] = place],
         snapshot' = [snapshot EXCEPT ![c] = s],
         asked' = asked,
         TurnOf(c)' = next
  PROVE  Contract!Becomes(c, next)
<1>1. ASSUME NEW d \in Clients, d # c
      PROVE  TurnOf(d)' = TurnOf(d)
  BY <1>1 DEF TurnOf, Inv, TypeOK
<1>. QED
  BY <1>1 DEF Contract!Becomes

\* A client's turn that is not on its way to the ledger may move without being seen.
LEMMA TurnIsHidden ==
  ASSUME Inv, NEW c \in Clients, NEW place, NEW h,
         work[c] \notin {"loading", "working", "committing"},
         place \notin {"loading", "working", "committing"},
         work' = [work EXCEPT ![c] = place],
         asked' = [asked EXCEPT ![c] = h],
         snapshot' = snapshot
  PROVE  UNCHANGED [d \in Clients |-> TurnOf(d)]
<1>1. ASSUME NEW d \in Clients
      PROVE  TurnOf(d)' = TurnOf(d)
  <2>1. CASE d = c
    BY <2>1 DEF TurnOf, Inv, TypeOK
  <2>2. CASE d # c
    BY <2>2 DEF TurnOf, Inv, TypeOK
  <2>. QED
    BY <2>1, <2>2
<1>. QED
  BY <1>1

LEMMA FailingGivesUp ==
  ASSUME Inv, NEW c \in Clients,
         \/ work[c] = "loading" /\ asked[c] \notin opened
         \/ work[c] = "working",
         work' = [work EXCEPT ![c] = "failing"],
         UNCHANGED <<asked, snapshot, ledgerVars>>
  PROVE  Contract!GiveUp(c)
<1>1. snapshot' = [snapshot EXCEPT ![c] = snapshot[c]]
  BY DEF Inv, TypeOK
<1>2. TurnOf(c)' = [phase |-> "idle"]
  BY DEF TurnOf, Inv, TypeOK
<1>3. Contract!Becomes(c, Contract!NoTurn)
  BY <1>1, <1>2, OneTurnMoves DEF Contract!NoTurn
<1>4. \/ TurnOf(c).phase = "called" /\ TurnOf(c).handle \notin opened
      \/ TurnOf(c).phase = "working"
  BY DEF TurnOf
<1>. QED
  BY <1>3, <1>4 DEF Contract!GiveUp, Contract!ledgerVars, ledgerVars

\* The worker takes a turn up, or drops an item whose admission was cancelled.
LEMMA StartCalls ==
  ASSUME Inv, NEW c \in Clients, StartTurn(c)
  PROVE  Contract!WorkerStep(c) \/ UNCHANGED Contract!contractVars
<1>1. work[c] = "queued" /\ UNCHANGED <<asked, snapshot, ledgerVars>>
  BY DEF StartTurn, Step
<1>2. CASE active[c] = asked[c]
  <2>1. work' = [work EXCEPT ![c] = "loading"]
    BY <1>2 DEF StartTurn, Step
  <2>2. asked[c] \in Handles
    BY <1>1 DEF Inv, TypeOK, Slot
  <2>3. snapshot' = [snapshot EXCEPT ![c] = snapshot[c]]
    BY <1>1 DEF Inv, TypeOK
  <2>4. TurnOf(c)' = [phase |-> "called", handle |-> asked[c]]
    BY <1>1, <2>1 DEF TurnOf, Inv, TypeOK
  <2>5. Contract!Becomes(c, Contract!Called(asked[c]))
    BY <1>1, <2>1, <2>3, <2>4, OneTurnMoves DEF Contract!Called
  <2>6. TurnOf(c).phase = "idle"
    BY <1>1 DEF TurnOf
  <2>7. Contract!CallTurn(c, asked[c])
    BY <1>1, <2>5, <2>6 DEF Contract!CallTurn, Contract!ledgerVars, ledgerVars
  <2>. QED
    BY <2>2, <2>7 DEF Contract!WorkerStep
<1>3. CASE active[c] # asked[c]
  <2>1. work' = [work EXCEPT ![c] = "returned"]
    BY <1>3 DEF StartTurn, Step
  <2>2. asked' = [asked EXCEPT ![c] = asked[c]]
    BY <1>1 DEF Inv, TypeOK
  <2>3. UNCHANGED [d \in Clients |-> TurnOf(d)]
    BY <1>1, <2>1, <2>2, TurnIsHidden
  <2>. QED
    BY <1>1, <2>3 DEF Contract!contractVars, Contract!ledgerVars, ledgerVars
<1>. QED
  BY <1>2, <1>3

LEMMA LoadIsRead ==
  ASSUME Inv, NEW c \in Clients, LoadHistory(c)
  PROVE  Contract!ReadHistory(c) \/ Contract!GiveUp(c)
<1>1. work[c] = "loading" /\ UNCHANGED <<asked, ledgerVars>>
  BY DEF LoadHistory, Step, Fail
<1>2. CASE asked[c] \in opened
  <2>1. /\ work' = [work EXCEPT ![c] = "working"]
        /\ snapshot' = [snapshot EXCEPT ![c] = history[asked[c]]]
    BY <1>2 DEF LoadHistory, Step
  <2>2. TurnOf(c)' = [phase |-> "working", handle |-> asked[c], read |-> history[asked[c]].count]
    BY <1>1, <2>1 DEF TurnOf, Inv, TypeOK
  <2>3. Contract!Becomes(c, Contract!Working(asked[c], history[asked[c]].count))
    BY <1>1, <2>1, <2>2, OneTurnMoves DEF Contract!Working
  <2>4. TurnOf(c).phase = "called" /\ TurnOf(c).handle = asked[c]
    BY <1>1 DEF TurnOf
  <2>. QED
    BY <1>1, <1>2, <2>3, <2>4 DEF Contract!ReadHistory, Contract!ledgerVars, ledgerVars
<1>3. CASE asked[c] \notin opened
  <2>1. work' = [work EXCEPT ![c] = "failing"] /\ UNCHANGED <<asked, snapshot, ledgerVars>>
    BY <1>1, <1>3 DEF LoadHistory, Fail, Step
  <2>. QED
    BY <1>1, <1>3, <2>1, FailingGivesUp
<1>. QED
  BY <1>2, <1>3

LEMMA WorkflowFinishes ==
  ASSUME Inv, NEW c \in Clients, WorkflowEnds(c)
  PROVE  Contract!FinishWork(c)
<1>1. /\ work[c] = "working" /\ work' = [work EXCEPT ![c] = "committing"]
      /\ UNCHANGED <<asked, snapshot, ledgerVars>>
  BY DEF WorkflowEnds, Step
<1>2. snapshot' = [snapshot EXCEPT ![c] = snapshot[c]]
  BY <1>1 DEF Inv, TypeOK
<1>3. TurnOf(c)' = [phase |-> "worked", handle |-> asked[c], read |-> snapshot[c].count]
  BY <1>1 DEF TurnOf, Inv, TypeOK
<1>4. Contract!Becomes(c, Contract!Worked(asked[c], snapshot[c].count))
  BY <1>1, <1>2, <1>3, OneTurnMoves DEF Contract!Worked
<1>5. /\ TurnOf(c).phase = "working"
      /\ TurnOf(c).handle = asked[c] /\ TurnOf(c).read = snapshot[c].count
  BY <1>1 DEF TurnOf
<1>. QED
  BY <1>1, <1>4, <1>5 DEF Contract!FinishWork, Contract!ledgerVars, ledgerVars

LEMMA CommitAsks ==
  ASSUME Inv, NEW c \in Clients, NEW size \in Sizes, Commit(c, size)
  PROVE  Contract!AskLedger(c, size)
<1>1. PICK place \in {"committed", "failing"} :
        /\ work[c] = "committing" /\ work' = [work EXCEPT ![c] = place]
        /\ UNCHANGED <<asked, snapshot>>
  BY DEF Commit, Step, Fail
<1>2. snapshot' = [snapshot EXCEPT ![c] = snapshot[c]]
  BY <1>1 DEF Inv, TypeOK
<1>3. TurnOf(c)' = [phase |-> "idle"]
  BY <1>1 DEF TurnOf, Inv, TypeOK
<1>4. Contract!Becomes(c, Contract!NoTurn)
  BY <1>1, <1>2, <1>3, OneTurnMoves DEF Contract!NoTurn
<1>5. /\ TurnOf(c).phase = "worked"
      /\ TurnOf(c).handle = asked[c] /\ TurnOf(c).read = snapshot[c].count
  BY <1>1 DEF TurnOf
<1>6. IF Contract!Acceptable(asked[c], snapshot[c].count + 1, size)
        THEN Contract!AppendTurn(asked[c], snapshot[c].count + 1, size)
        ELSE UNCHANGED Contract!ledgerVars
  BY DEF Commit, Acceptable, AppendTurn, ledgerVars,
         Contract!Acceptable, Contract!AppendTurn, Contract!ledgerVars
<1>. QED
  BY <1>4, <1>5, <1>6 DEF Contract!AskLedger

\* Before the worker takes an item up and after the ledger has answered, a turn is
\* not seen: admission, the counters, the slot and the reply are the coordinator's.
LEMMA AroundIsHidden ==
  ASSUME Inv, NEW c \in Clients,
         \/ \E h \in Handles : AdmitTurn(c, h) \/ SubmitFails(c, h)
         \/ CountTurn(c) \/ ReleaseTurn(c) \/ Deliver(c)
  PROVE  UNCHANGED Contract!contractVars
<1>1. snapshot' = snapshot /\ UNCHANGED ledgerVars
  BY DEF AdmitTurn, SubmitFails, CountTurn, ReleaseTurn, Deliver
<1>2. \E h : asked' = [asked EXCEPT ![c] = h]
  <2>1. asked = [asked EXCEPT ![c] = asked[c]]
    BY DEF Inv, TypeOK
  <2>. QED
    BY <2>1 DEF AdmitTurn, SubmitFails, CountTurn, ReleaseTurn, Deliver
<1>3. /\ work[c] \in {"none", "committed", "failing", "releasing", "returned"}
      /\ \E place \in {"queued", "releasing", "returned", "none"} : work' = [work EXCEPT ![c] = place]
  BY DEF AdmitTurn, SubmitFails, CanAdmit, Idle, CountTurn, ReleaseTurn, Deliver, Step
<1>4. UNCHANGED [d \in Clients |-> TurnOf(d)]
  BY <1>1, <1>2, <1>3, TurnIsHidden
<1>. QED
  BY <1>1, <1>4 DEF Contract!contractVars, Contract!ledgerVars, ledgerVars

LEMMA CoordinatorImplements ==
  ASSUME Inv, [Next]_vars
  PROVE  [Contract!ContractNext]_(Contract!contractVars)
<1>. DEFINE Turns == [d \in Clients |-> TurnOf(d)]
<1>1. ASSUME UNCHANGED <<asked, work, snapshot>>
      PROVE  Turns' = Turns
  BY <1>1 DEF TurnOf
<1>2. ASSUME UNCHANGED <<asked, work, snapshot, ledgerVars>>
      PROVE  UNCHANGED Contract!contractVars
  BY <1>1, <1>2 DEF Contract!contractVars, Contract!ledgerVars, ledgerVars
<1>3. ASSUME NEW c \in Clients, NEW h \in Handles, OpenThread(c, h) \/ CloseThread(c, h)
      PROVE  Contract!ThreadsMove \/ UNCHANGED Contract!contractVars
  <2>1. UNCHANGED <<asked, work, snapshot>>
    BY <1>3 DEF OpenThread, CloseThread
  <2>2. CASE UNCHANGED ledgerVars
    BY <1>2, <2>1, <2>2
  <2>3. CASE LedgerOpen(h) \/ LedgerClose(h)
    <3>1. Contract!LedgerOpen(h) \/ Contract!LedgerClose(h)
      BY <2>3 DEF LedgerOpen, LedgerClose, Empty,
                  Contract!LedgerOpen, Contract!LedgerClose, Contract!Empty
    <3>. QED
      BY <1>1, <2>1, <3>1 DEF Contract!ThreadsMove
  <2>. QED
    BY <1>3, <2>2, <2>3 DEF OpenThread, CloseThread
<1>4. ASSUME NEW s \in Stoppers, Close(s)
      PROVE  Contract!ThreadsMove \/ UNCHANGED Contract!contractVars
  <2>1. UNCHANGED <<asked, work, snapshot>>
    BY <1>4 DEF Close, workVars
  <2>2. CASE UNCHANGED ledgerVars
    BY <1>2, <2>1, <2>2
  <2>3. CASE CloseAll
    <3>1. Contract!CloseAll
      BY <2>3 DEF CloseAll, Empty, Contract!CloseAll, Contract!Empty
    <3>. QED
      BY <1>1, <2>1, <3>1 DEF Contract!ThreadsMove
  <2>. QED
    BY <1>4, <2>2, <2>3 DEF Close
<1>5. ASSUME NEW c \in Clients, StartTurn(c)
      PROVE  Contract!WorkerStep(c) \/ UNCHANGED Contract!contractVars
  BY <1>5, StartCalls
<1>6. ASSUME NEW c \in Clients, LoadHistory(c)
      PROVE  Contract!WorkerStep(c)
  BY <1>6, LoadIsRead DEF Contract!WorkerStep
<1>7. ASSUME NEW c \in Clients, WorkflowEnds(c)
      PROVE  Contract!WorkerStep(c)
  BY <1>7, WorkflowFinishes DEF Contract!WorkerStep
<1>8. ASSUME NEW c \in Clients, WorkflowRaises(c)
      PROVE  Contract!WorkerStep(c)
  BY <1>8, FailingGivesUp DEF WorkflowRaises, Fail, Step, Contract!WorkerStep
<1>9. ASSUME NEW c \in Clients, NEW size \in Sizes, Commit(c, size)
      PROVE  Contract!WorkerStep(c)
  BY <1>9, CommitAsks DEF Contract!WorkerStep
<1>10. ASSUME NEW c \in Clients,
              \/ \E h \in Handles : AdmitTurn(c, h) \/ SubmitFails(c, h)
              \/ CountTurn(c) \/ ReleaseTurn(c) \/ Deliver(c)
       PROVE  UNCHANGED Contract!contractVars
  BY <1>10, AroundIsHidden
<1>11. ASSUME NEW c \in Clients, NEW h \in Handles, RefuseTurn(c, h) \/ RefuseCapacity(c, h)
       PROVE  UNCHANGED Contract!contractVars
  BY <1>2, <1>11 DEF RefuseTurn, RefuseCapacity
<1>12. ASSUME NEW s \in Stoppers, BeginDraining(s) \/ JoinExecutor(s)
       PROVE  UNCHANGED Contract!contractVars
  BY <1>2, <1>12 DEF BeginDraining, JoinExecutor, workVars
<1>13. CASE Start \/ UNCHANGED vars
  BY <1>2, <1>13 DEF Start, vars, workVars
<1>. QED
  BY <1>3, <1>4, <1>5, <1>6, <1>7, <1>8, <1>9, <1>10, <1>11, <1>12, <1>13
     DEF Next, TurnStep, Contract!ContractNext

\* The service around run_turn() implements the abstract turn too (TurnsRefined): an
\* item the executor kept without an admission never gets to be one.
THEOREM CoordinatorRefinesTurns == Spec => TurnsRefined
<1>1. Init => Contract!ContractInit
  BY DEF Init, LedgerInit, Empty, TurnOf,
         Contract!ContractInit, Contract!LedgerInit, Contract!Empty, Contract!NoTurn
<1>2. Inv /\ [Next]_vars => [Contract!ContractNext]_(Contract!contractVars)
  BY CoordinatorImplements
<1>. QED
  BY <1>1, <1>2, CoordinatorInvariant, PTL DEF Spec, TurnsRefined, Contract!ContractSpec

===================================================================================
