-------------------------- MODULE RequestFacadeProofs --------------------------
(***************************************************************************)
(* Proofs about PrimeQAHybridAgentRequestFacade for any number of callers, *)
(* closers and watchers.  The backbone is one inductive invariant: the     *)
(* in-flight count is the number of callers between admission and the      *)
(* finally block, and a closed facade has none of them.                    *)
(***************************************************************************)
EXTENDS RequestFacade, FiniteSetTheorems, TLAPS

PCs == {"out", "validating", "admitted", "dispatched", "leaving"}

\* Two finite sets that differ in one member at most differ in size accordingly.
LEMMA OneMember ==
  ASSUME NEW S, NEW T, NEW c, IsFiniteSet(S), IsFiniteSet(T), S \ {c} = T \ {c}
  PROVE  Cardinality(T) = Cardinality(S) - (IF c \in S THEN 1 ELSE 0)
                                         + (IF c \in T THEN 1 ELSE 0)
<1>1. Cardinality(S) \in Nat /\ Cardinality(T) \in Nat
  BY FS_CardinalityType
<1>2. Cardinality(S \ {c}) = IF c \in S THEN Cardinality(S) - 1 ELSE Cardinality(S)
  BY FS_RemoveElement
<1>3. Cardinality(T \ {c}) = IF c \in T THEN Cardinality(T) - 1 ELSE Cardinality(T)
  BY FS_RemoveElement
<1>4. Cardinality(S \ {c}) = Cardinality(T \ {c})
  OBVIOUS
<1>5. ASSUME NEW a \in Nat, NEW b \in Nat, NEW d,
             d = IF c \in S THEN a - 1 ELSE a, d = IF c \in T THEN b - 1 ELSE b
      PROVE  b = a - (IF c \in S THEN 1 ELSE 0) + (IF c \in T THEN 1 ELSE 0)
  BY <1>5
<1>. QED
  BY <1>1, <1>2, <1>3, <1>4, <1>5

-------------------------------------------------------------------------------
(* How the program counters move the sets the invariants count *)

\* Every set of callers is finite.
LEMMA CallersFinite ==
  ASSUME NEW S \in SUBSET Callers
  PROVE  IsFiniteSet(S) /\ Cardinality(S) \in Nat
BY FacadeAssumption, FS_Subset, FS_CardinalityType DEF FacadeAssumption

\* What a call's move from one place of invoke() to another does to the sets of
\* callers, and so to their sizes.
In(place, places) == IF place \in places THEN 1 ELSE 0

LEMMA GotoSets ==
  ASSUME NEW c \in Callers, NEW from, NEW to, pc \in [Callers -> PCs], Goto(c, from, to)
  PROVE  /\ pc'[c] = to /\ pc[c] = from
         /\ Inside' \ {c} = Inside \ {c}
         /\ Validating' \ {c} = Validating \ {c}
         /\ Undecided' \ {c} = Undecided \ {c}
         /\ Dispatched' \ {c} = Dispatched \ {c}
         /\ c \in Inside <=> from \in {"admitted", "dispatched", "leaving"}
         /\ c \in Inside' <=> to \in {"admitted", "dispatched", "leaving"}
BY DEF Goto, Inside, Validating, Undecided, Dispatched

LEMMA GotoCounts ==
  ASSUME NEW c \in Callers, NEW from, NEW to, pc \in [Callers -> PCs], Goto(c, from, to)
  PROVE  /\ Cardinality(Inside') = Cardinality(Inside)
              - In(from, {"admitted", "dispatched", "leaving"})
              + In(to, {"admitted", "dispatched", "leaving"})
         /\ Cardinality(Validating') = Cardinality(Validating)
              - In(from, {"validating"}) + In(to, {"validating"})
         /\ Cardinality(Undecided') = Cardinality(Undecided)
              - In(from, {"admitted", "dispatched"}) + In(to, {"admitted", "dispatched"})
         /\ Cardinality(Dispatched') = Cardinality(Dispatched)
              - In(from, {"dispatched"}) + In(to, {"dispatched"})
<1>1. /\ Inside \in SUBSET Callers     /\ Inside' \in SUBSET Callers
      /\ Validating \in SUBSET Callers /\ Validating' \in SUBSET Callers
      /\ Undecided \in SUBSET Callers  /\ Undecided' \in SUBSET Callers
      /\ Dispatched \in SUBSET Callers /\ Dispatched' \in SUBSET Callers
  BY DEF Inside, Validating, Undecided, Dispatched
<1>2. /\ IsFiniteSet(Inside)     /\ IsFiniteSet(Inside')
      /\ IsFiniteSet(Validating) /\ IsFiniteSet(Validating')
      /\ IsFiniteSet(Undecided)  /\ IsFiniteSet(Undecided')
      /\ IsFiniteSet(Dispatched) /\ IsFiniteSet(Dispatched')
  BY <1>1, CallersFinite
<1>3. Cardinality(Inside') = Cardinality(Inside)
              - In(from, {"admitted", "dispatched", "leaving"})
              + In(to, {"admitted", "dispatched", "leaving"})
  <2>1. Cardinality(Inside') = Cardinality(Inside) - (IF c \in Inside THEN 1 ELSE 0)
                                                   + (IF c \in Inside' THEN 1 ELSE 0)
    BY <1>2, GotoSets, OneMember
  <2>. QED
    BY <2>1, GotoSets DEF In
<1>4. Cardinality(Validating') = Cardinality(Validating)
              - In(from, {"validating"}) + In(to, {"validating"})
  <2>1. Cardinality(Validating') = Cardinality(Validating)
          - (IF c \in Validating THEN 1 ELSE 0) + (IF c \in Validating' THEN 1 ELSE 0)
    BY <1>2, GotoSets, OneMember
  <2>2. (c \in Validating <=> from = "validating") /\ (c \in Validating' <=> to = "validating")
    BY GotoSets DEF Validating
  <2>. QED
    BY <2>1, <2>2 DEF In
<1>5. Cardinality(Undecided') = Cardinality(Undecided)
              - In(from, {"admitted", "dispatched"}) + In(to, {"admitted", "dispatched"})
  <2>1. Cardinality(Undecided') = Cardinality(Undecided)
          - (IF c \in Undecided THEN 1 ELSE 0) + (IF c \in Undecided' THEN 1 ELSE 0)
    BY <1>2, GotoSets, OneMember
  <2>2. /\ c \in Undecided <=> from \in {"admitted", "dispatched"}
        /\ c \in Undecided' <=> to \in {"admitted", "dispatched"}
    BY GotoSets DEF Undecided
  <2>. QED
    BY <2>1, <2>2 DEF In
<1>6. Cardinality(Dispatched') = Cardinality(Dispatched)
              - In(from, {"dispatched"}) + In(to, {"dispatched"})
  <2>1. Cardinality(Dispatched') = Cardinality(Dispatched)
          - (IF c \in Dispatched THEN 1 ELSE 0) + (IF c \in Dispatched' THEN 1 ELSE 0)
    BY <1>2, GotoSets, OneMember
  <2>2. (c \in Dispatched <=> from = "dispatched") /\ (c \in Dispatched' <=> to = "dispatched")
    BY GotoSets DEF Dispatched
  <2>. QED
    BY <2>1, <2>2 DEF In
<1>. QED
  BY <1>3, <1>4, <1>5, <1>6

-------------------------------------------------------------------------------
(* The inductive invariant *)

IInv == TypeOK /\ InFlightIsInside /\ ClosedMeansQuiet

LEMMA InvInit == FacadeInit => IInv
<1>. SUFFICES ASSUME FacadeInit PROVE IInv
  OBVIOUS
<1>1. TypeOK
  <2>1. NoEvent \in PublicEvent
    BY DEF NoEvent, PublicEvent, Outcome
  <2>. QED
    BY <2>1 DEF FacadeInit, TypeOK, State
<1>2. Inside = {}
  BY DEF FacadeInit, Inside
<1>. QED
  BY <1>1, <1>2, FS_EmptySet DEF FacadeInit, IInv, InFlightIsInside, ClosedMeansQuiet

\* The two helpers every action of invoke() shares keep their variables typed.
LEMMA BumpType ==
  ASSUME NEW names, count \in [Counter -> Nat], Bump(names)
  PROVE  count' \in [Counter -> Nat]
BY DEF Bump

LEMMA RecordType ==
  ASSUME NEW c \in Callers, NEW outcome \in Outcome, NEW dispatched \in BOOLEAN,
         state \in State, event \in [Callers -> PublicEvent], Record(c, outcome, dispatched)
  PROVE  event' \in [Callers -> PublicEvent]
<1>1. Event(outcome, dispatched) \in PublicEvent
  BY DEF Event, PublicEvent
<1>. QED
  BY <1>1 DEF Record

LEMMA GotoType ==
  ASSUME NEW c \in Callers, NEW from, NEW to \in PCs, pc \in [Callers -> PCs], Goto(c, from, to)
  PROVE  pc' \in [Callers -> PCs]
BY DEF Goto

\* The steps of invoke() that count, record and go on without touching the rest.
LEMMA RecordedMove ==
  ASSUME TypeOK, NEW c \in Callers, NEW from, NEW to \in PCs, NEW names,
         NEW outcome \in Outcome, NEW dispatched \in BOOLEAN,
         Goto(c, from, to), Bump(names), Record(c, outcome, dispatched),
         UNCHANGED <<state, current_in_flight, max_observed_in_flight, waitVars, parked>>
  PROVE  TypeOK'
<1>1. /\ pc' \in [Callers -> PCs]
      /\ count' \in [Counter -> Nat]
      /\ event' \in [Callers -> PublicEvent]
  BY GotoType, BumpType, RecordType DEF TypeOK, PCs
<1>. QED
  BY <1>1 DEF TypeOK, PCs, waitVars

LEMMA TypeStep ==
  ASSUME IInv, [FacadeNext]_facadeVars
  PROVE  TypeOK'
<1>. TypeOK
  BY DEF IInv
<1>1. CASE UNCHANGED facadeVars
  BY <1>1 DEF TypeOK, facadeVars, callVars, waitVars
<1>2. ASSUME NEW c \in Callers, Begin(c) PROVE TypeOK'
  <2>1. NoEvent \in PublicEvent
    BY DEF NoEvent, PublicEvent, Outcome
  <2>2. pc' \in [Callers -> PCs] /\ count' \in [Counter -> Nat]
    BY <1>2, GotoType, BumpType DEF TypeOK, Begin, PCs
  <2>3. event' \in [Callers -> PublicEvent]
    BY <1>2, <2>1 DEF TypeOK, Begin
  <2>. QED
    BY <1>2, <2>2, <2>3 DEF TypeOK, Begin, PCs, waitVars
<1>3. ASSUME NEW c \in Callers, RejectInvalid(c) PROVE TypeOK'
  BY <1>3, RecordedMove DEF RejectInvalid, PCs, Outcome
<1>4. ASSUME NEW c \in Callers, RejectLifecycle(c) PROVE TypeOK'
  BY <1>4, RecordedMove DEF RejectLifecycle, PCs, Outcome
<1>5. ASSUME NEW c \in Callers, Admit(c) PROVE TypeOK'
  <2>1. pc' \in [Callers -> PCs] /\ count' \in [Counter -> Nat]
    BY <1>5, GotoType, BumpType DEF TypeOK, Admit, PCs
  <2>. QED
    BY <1>5, <2>1 DEF TypeOK, Admit, PCs, waitVars
<1>6. ASSUME NEW c \in Callers, CancelBeforeDispatch(c) PROVE TypeOK'
  BY <1>6, RecordedMove DEF CancelBeforeDispatch, PCs, Outcome
<1>7. ASSUME NEW c \in Callers, Dispatch(c) PROVE TypeOK'
  <2>1. pc' \in [Callers -> PCs] /\ count' \in [Counter -> Nat]
    BY <1>7, GotoType, BumpType DEF TypeOK, Dispatch, PCs
  <2>. QED
    BY <1>7, <2>1 DEF TypeOK, Dispatch, PCs, waitVars
<1>8. ASSUME NEW c \in Callers, NEW refused \in BOOLEAN, Complete(c, refused) PROVE TypeOK'
  BY <1>8, RecordedMove DEF Complete, PCs, Outcome
<1>9. ASSUME NEW c \in Callers, RuntimeAtCapacity(c) PROVE TypeOK'
  BY <1>9, RecordedMove DEF RuntimeAtCapacity, PCs, Outcome
<1>10. ASSUME NEW c \in Callers, DownstreamError(c) PROVE TypeOK'
  BY <1>10, RecordedMove DEF DownstreamError, PCs, Outcome
\* The count a call takes back is not zero: the call itself is counted.
<1>11. ASSUME NEW c \in Callers, Leave(c) PROVE TypeOK'
  <2>1. c \in Inside
    BY <1>11 DEF Leave, Goto, Inside
  <2>2. IsFiniteSet(Inside) /\ Cardinality(Inside) \in Nat
    BY CallersFinite DEF Inside
  <2>3. Cardinality(Inside) # 0
    BY <2>1, <2>2, FS_EmptySet
  <2>4. current_in_flight \in Nat /\ current_in_flight # 0
    BY <2>2, <2>3 DEF IInv, InFlightIsInside
  <2>5. current_in_flight' \in Nat
    BY <2>4, <1>11 DEF Leave
  <2>. QED
    BY <2>5, <1>11 DEF TypeOK, Leave, Goto, NotifyAll, waitVars
<1>12. ASSUME NEW s \in Closers, Shutdown(s) \/ ResumeShutdown(s) PROVE TypeOK'
  BY <1>12 DEF TypeOK, Shutdown, ResumeShutdown, DrainOrSleep, NotifyAll, callVars, State
<1>13. ASSUME NEW w \in Watchers, NEW t \in State, Watch(w, t) PROVE TypeOK'
  BY <1>13 DEF TypeOK, Watch, LookForTarget, callVars
<1>14. ASSUME NEW w \in Watchers, ResumeWatch(w) PROVE TypeOK'
  BY <1>14 DEF TypeOK, ResumeWatch, LookForTarget, callVars
<1>. QED
  BY <1>1, <1>2, <1>3, <1>4, <1>5, <1>6, <1>7, <1>8, <1>9, <1>10, <1>11, <1>12, <1>13, <1>14
     DEF FacadeNext, Proceed, RuntimeOutcome

\* Only Admit and Leave move the in-flight count, and they move a caller with it.
LEMMA InFlightStep ==
  ASSUME IInv, [FacadeNext]_facadeVars
  PROVE  InFlightIsInside'
<1>. pc \in [Callers -> PCs] /\ current_in_flight = Cardinality(Inside)
     /\ Cardinality(Inside) \in Nat
  BY CallersFinite DEF IInv, TypeOK, PCs, InFlightIsInside, Inside
<1>. SUFFICES current_in_flight' = Cardinality(Inside')
  BY DEF InFlightIsInside
<1>1. CASE UNCHANGED <<pc, current_in_flight>>
  BY <1>1 DEF Inside
<1>2. ASSUME NEW c \in Callers,
             Begin(c) \/ RejectInvalid(c) \/ RejectLifecycle(c)
      PROVE  current_in_flight' = Cardinality(Inside')
  <2>1. /\ Goto(c, "out", "validating") \/ Goto(c, "validating", "out")
        /\ UNCHANGED current_in_flight
    BY <1>2 DEF Begin, RejectInvalid, RejectLifecycle
  <2>. QED
    BY <2>1, GotoCounts DEF In
<1>3. ASSUME NEW c \in Callers, Admit(c)
      PROVE  current_in_flight' = Cardinality(Inside')
  BY <1>3, GotoCounts DEF Admit, In
<1>4. ASSUME NEW c \in Callers, CancelBeforeDispatch(c) \/ Dispatch(c)
      PROVE  current_in_flight' = Cardinality(Inside')
  <2>1. /\ Goto(c, "admitted", "leaving") \/ Goto(c, "admitted", "dispatched")
        /\ UNCHANGED current_in_flight
    BY <1>4 DEF CancelBeforeDispatch, Dispatch
  <2>. QED
    BY <2>1, GotoCounts DEF In
<1>5. ASSUME NEW c \in Callers, RuntimeOutcome(c)
      PROVE  current_in_flight' = Cardinality(Inside')
  <2>1. Goto(c, "dispatched", "leaving") /\ UNCHANGED current_in_flight
    BY <1>5 DEF RuntimeOutcome, Complete, RuntimeAtCapacity, DownstreamError
  <2>. QED
    BY <2>1, GotoCounts DEF In
<1>6. ASSUME NEW c \in Callers, Leave(c)
      PROVE  current_in_flight' = Cardinality(Inside')
  BY <1>6, GotoCounts DEF Leave, In
<1>7. ASSUME NEW s \in Closers, Shutdown(s) \/ ResumeShutdown(s)
      PROVE  UNCHANGED <<pc, current_in_flight>>
  BY <1>7 DEF Shutdown, ResumeShutdown, callVars
<1>8. ASSUME NEW w \in Watchers, NEW t \in State, Watch(w, t) \/ ResumeWatch(w)
      PROVE  UNCHANGED <<pc, current_in_flight>>
  BY <1>8 DEF Watch, ResumeWatch, LookForTarget, callVars
<1>9. CASE UNCHANGED facadeVars
  BY <1>9, <1>1 DEF facadeVars, callVars
<1>. QED
  BY <1>1, <1>2, <1>3, <1>4, <1>5, <1>6, <1>7, <1>8, <1>9 DEF FacadeNext, Proceed, State

\* Nobody enters a facade that is not accepting.
LEMMA InsideShrinks ==
  ASSUME TypeOK, [FacadeNext]_facadeVars, state # "accepting"
  PROVE  Inside' \subseteq Inside
<1>. pc \in [Callers -> PCs]
  BY DEF TypeOK, PCs
<1>1. CASE UNCHANGED pc
  BY <1>1 DEF Inside
<1>2. ASSUME NEW c \in Callers, Begin(c) \/ RejectInvalid(c) \/ RejectLifecycle(c) \/ Leave(c)
      PROVE  Inside' \subseteq Inside
  <2>1. \/ Goto(c, "out", "validating") \/ Goto(c, "validating", "out")
        \/ Goto(c, "leaving", "out")
    BY <1>2 DEF Begin, RejectInvalid, RejectLifecycle, Leave
  <2>2. c \notin Inside'
    BY <2>1, GotoSets
  <2>3. Inside' \ {c} = Inside \ {c}
    BY <2>1, GotoSets
  <2>. QED
    BY <2>2, <2>3
<1>3. ASSUME NEW c \in Callers, CancelBeforeDispatch(c) \/ Dispatch(c) \/ RuntimeOutcome(c)
      PROVE  Inside' \subseteq Inside
  <2>1. \/ Goto(c, "admitted", "leaving") \/ Goto(c, "admitted", "dispatched")
        \/ Goto(c, "dispatched", "leaving")
    BY <1>3
       DEF CancelBeforeDispatch, Dispatch, RuntimeOutcome, Complete, RuntimeAtCapacity, DownstreamError
  <2>2. c \in Inside
    BY <2>1, GotoSets
  <2>3. Inside' \ {c} = Inside \ {c}
    BY <2>1, GotoSets
  <2>. QED
    BY <2>2, <2>3
<1>4. ASSUME NEW c \in Callers, Admit(c) PROVE FALSE
  BY <1>4 DEF Admit
<1>5. ASSUME NEW s \in Closers, Shutdown(s) \/ ResumeShutdown(s) PROVE UNCHANGED pc
  BY <1>5 DEF Shutdown, ResumeShutdown, callVars
<1>6. ASSUME NEW w \in Watchers, NEW t \in State, Watch(w, t) \/ ResumeWatch(w) PROVE UNCHANGED pc
  BY <1>6 DEF Watch, ResumeWatch, LookForTarget, callVars
<1>7. CASE UNCHANGED facadeVars
  BY <1>7, <1>1 DEF facadeVars, callVars
<1>. QED
  BY <1>1, <1>2, <1>3, <1>4, <1>5, <1>6, <1>7 DEF FacadeNext, Proceed, State

\* What any step may do to the lifecycle state.
LEMMA StateMoves ==
  ASSUME IInv, [FacadeNext]_facadeVars
  PROVE  \/ UNCHANGED state
         \/ state = "accepting" /\ state' = "draining" /\ UNCHANGED pc
         \/ state # "closed" /\ state' = "closed" /\ UNCHANGED pc /\ Inside = {}
<1>1. current_in_flight \in Nat /\ (current_in_flight = 0 <=> Inside = {})
  BY CallersFinite, FS_EmptySet DEF IInv, TypeOK, InFlightIsInside, Inside
<1>. state \in State
  BY DEF IInv, TypeOK
<1>2. CASE UNCHANGED facadeVars
  BY <1>2 DEF facadeVars
<1>3. ASSUME NEW c \in Callers, Begin(c) \/ Proceed(c) PROVE UNCHANGED state
  BY <1>3 DEF Begin, Proceed, RejectInvalid, RejectLifecycle, Admit, CancelBeforeDispatch,
     Dispatch, RuntimeOutcome, Complete, RuntimeAtCapacity, DownstreamError, Leave
<1>4. ASSUME NEW s \in Closers, Shutdown(s)
      PROVE  \/ UNCHANGED state
             \/ state = "accepting" /\ state' = "draining" /\ UNCHANGED pc
             \/ state # "closed" /\ state' = "closed" /\ UNCHANGED pc /\ Inside = {}
  BY <1>1, <1>4 DEF Shutdown, DrainOrSleep, callVars, State
<1>5. ASSUME NEW s \in Closers, ResumeShutdown(s)
      PROVE  \/ UNCHANGED state
             \/ state # "closed" /\ state' = "closed" /\ UNCHANGED pc /\ Inside = {}
  BY <1>1, <1>5 DEF ResumeShutdown, callVars
<1>6. ASSUME NEW w \in Watchers, NEW t \in State, Watch(w, t) \/ ResumeWatch(w)
      PROVE  UNCHANGED state
  BY <1>6 DEF Watch, ResumeWatch, LookForTarget
<1>. QED
  BY <1>2, <1>3, <1>4, <1>5, <1>6 DEF FacadeNext, State

LEMMA ClosedStep ==
  ASSUME IInv, [FacadeNext]_facadeVars
  PROVE  ClosedMeansQuiet'
<1>1. CASE state = "closed"
  BY <1>1, InsideShrinks DEF IInv, ClosedMeansQuiet
<1>2. CASE state # "closed"
  <2>1. state' = "closed" => UNCHANGED pc /\ Inside = {}
    BY <1>2, StateMoves
  <2>. QED
    BY <2>1 DEF ClosedMeansQuiet, Inside
<1>. QED
  BY <1>1, <1>2

\* The facade's variables stay typed, the in-flight count is the number of calls
\* inside, and a closed facade is empty, for any number of threads.
THEOREM Invariance == FacadeSpec => []IInv
<1>1. IInv /\ [FacadeNext]_facadeVars => IInv'
  BY TypeStep, InFlightStep, ClosedStep DEF IInv
<1>. QED
  BY InvInit, <1>1, PTL DEF FacadeSpec

THEOREM TypeCorrect == FacadeSpec => []TypeOK
<1>1. IInv => TypeOK
  BY DEF IInv
<1>. QED
  BY Invariance, <1>1, PTL

\* The number shutdown() waits on is the number of calls that have not run their
\* finally block.
THEOREM InFlightCorrect == FacadeSpec => []InFlightIsInside
<1>1. IInv => InFlightIsInside
  BY DEF IInv
<1>. QED
  BY Invariance, <1>1, PTL

-------------------------------------------------------------------------------
(* The facade implements the abstract drain gate *)

\* What any step may do to the set of admitted calls.
LEMMA InsideMoves ==
  ASSUME TypeOK, [FacadeNext]_facadeVars
  PROVE  \/ Inside' = Inside
         \/ \E c \in Callers : /\ state = "accepting" /\ UNCHANGED state
                              /\ c \notin Inside /\ Inside' = Inside \cup {c}
         \/ \E c \in Callers : /\ UNCHANGED state
                              /\ c \in Inside /\ Inside' = Inside \ {c}
<1>. pc \in [Callers -> PCs]
  BY DEF TypeOK, PCs
<1>1. CASE UNCHANGED pc
  BY <1>1 DEF Inside
<1>2. ASSUME NEW c \in Callers, Begin(c) \/ RejectInvalid(c) \/ RejectLifecycle(c)
      PROVE  Inside' = Inside
  <2>1. Goto(c, "out", "validating") \/ Goto(c, "validating", "out")
    BY <1>2 DEF Begin, RejectInvalid, RejectLifecycle
  <2>2. c \notin Inside /\ c \notin Inside' /\ Inside' \ {c} = Inside \ {c}
    BY <2>1, GotoSets
  <2>. QED
    BY <2>2
<1>3. ASSUME NEW c \in Callers, CancelBeforeDispatch(c) \/ Dispatch(c) \/ RuntimeOutcome(c)
      PROVE  Inside' = Inside
  <2>1. \/ Goto(c, "admitted", "leaving") \/ Goto(c, "admitted", "dispatched")
        \/ Goto(c, "dispatched", "leaving")
    BY <1>3
       DEF CancelBeforeDispatch, Dispatch, RuntimeOutcome, Complete, RuntimeAtCapacity, DownstreamError
  <2>2. c \in Inside /\ c \in Inside' /\ Inside' \ {c} = Inside \ {c}
    BY <2>1, GotoSets
  <2>. QED
    BY <2>2
<1>4. ASSUME NEW c \in Callers, Admit(c)
      PROVE  /\ state = "accepting" /\ UNCHANGED state
             /\ c \notin Inside /\ Inside' = Inside \cup {c}
  <2>1. Goto(c, "validating", "admitted") /\ state = "accepting" /\ UNCHANGED state
    BY <1>4 DEF Admit
  <2>2. c \notin Inside /\ c \in Inside' /\ Inside' \ {c} = Inside \ {c}
    BY <2>1, GotoSets
  <2>. QED
    BY <2>1, <2>2
<1>5. ASSUME NEW c \in Callers, Leave(c)
      PROVE  UNCHANGED state /\ c \in Inside /\ Inside' = Inside \ {c}
  <2>1. Goto(c, "leaving", "out") /\ UNCHANGED state
    BY <1>5 DEF Leave
  <2>2. c \in Inside /\ c \notin Inside' /\ Inside' \ {c} = Inside \ {c}
    BY <2>1, GotoSets
  <2>. QED
    BY <2>1, <2>2
<1>6. ASSUME NEW s \in Closers, Shutdown(s) \/ ResumeShutdown(s) PROVE UNCHANGED pc
  BY <1>6 DEF Shutdown, ResumeShutdown, callVars
<1>7. ASSUME NEW w \in Watchers, NEW t \in State, Watch(w, t) \/ ResumeWatch(w) PROVE UNCHANGED pc
  BY <1>7 DEF Watch, ResumeWatch, LookForTarget, callVars
<1>8. CASE UNCHANGED facadeVars
  BY <1>8, <1>1 DEF facadeVars, callVars
<1>. QED
  BY <1>1, <1>2, <1>3, <1>4, <1>5, <1>6, <1>7, <1>8 DEF FacadeNext, Proceed, State

LEMMA GateStep ==
  ASSUME IInv, [FacadeNext]_facadeVars
  PROVE  [Gate!GateNext]_(Gate!gateVars)
<1>. TypeOK /\ state \in State
  BY DEF IInv, TypeOK
<1>1. CASE Inside' = Inside
  <2>1. \/ UNCHANGED state
        \/ state = "accepting" /\ state' = "draining"
        \/ state # "closed" /\ state' = "closed" /\ Inside = {}
    BY StateMoves
  <2>2. CASE UNCHANGED state
    BY <1>1, <2>2 DEF Gate!gateVars, GateMode
  <2>3. CASE state = "accepting" /\ state' = "draining"
    <3>1. Gate!BeginClosing
      BY <1>1, <2>3 DEF Gate!BeginClosing, GateMode
    <3>. QED
      BY <3>1 DEF Gate!GateNext
  <2>4. CASE state # "closed" /\ state' = "closed" /\ Inside = {}
    <3>1. Gate!FinishClosing
      BY <1>1, <2>4 DEF Gate!FinishClosing, GateMode, State
    <3>. QED
      BY <3>1 DEF Gate!GateNext
  <2>. QED
    BY <2>1, <2>2, <2>3, <2>4
<1>2. ASSUME NEW c \in Callers, state = "accepting", UNCHANGED state,
             c \notin Inside, Inside' = Inside \cup {c}
      PROVE  Gate!Enter(c)
  BY <1>2 DEF Gate!Enter, GateMode
<1>3. ASSUME NEW c \in Callers, UNCHANGED state, c \in Inside, Inside' = Inside \ {c}
      PROVE  Gate!Leave(c)
  BY <1>3 DEF Gate!Leave, GateMode
<1>4. (\E c \in Callers : Gate!Enter(c) \/ Gate!Leave(c)) => Gate!GateNext
  BY DEF Gate!GateNext
<1>. QED
  BY <1>1, <1>2, <1>3, <1>4, InsideMoves

\* PrimeQAHybridAgentRequestFacade implements the drain gate: every step of its
\* threads is a step of the gate or none at all, for any number of threads.
THEOREM Refinement == FacadeSpec => GateRefined
<1>1. FacadeInit => Gate!GateInit
  BY DEF FacadeInit, Gate!GateInit, GateMode, Inside
<1>2. IInv /\ [FacadeNext]_facadeVars => [Gate!GateNext]_(Gate!gateVars)
  BY GateStep
<1>. QED
  BY <1>1, <1>2, Invariance, PTL DEF FacadeSpec, GateRefined, Gate!GateSpec

-------------------------------------------------------------------------------
(* The counters *)

LEMMA BumpValue ==
  ASSUME NEW names, count \in [Counter -> Nat], Bump(names), NEW k \in Counter
  PROVE  count'[k] = count[k] + In(k, names) /\ count[k] \in Nat
BY DEF Bump, In

\* A move of one caller that bumps some counters keeps the balance when what it
\* adds to the two sides of each equation is the same.
LEMMA BalancedMove ==
  ASSUME TypeOK, CountersBalance, NEW c \in Callers, NEW from, NEW to, NEW names,
         Goto(c, from, to), Bump(names),
         In("attempt", names) = In("invalid", names) + In("lifecycle", names) + In("accepted", names)
                                - In(from, {"validating"}) + In(to, {"validating"}),
         In("accepted", names) = In("completed", names) + In("cancelled", names)
                                 + In("capacity", names) + In("downstream", names)
                                 - In(from, {"admitted", "dispatched"})
                                 + In(to, {"admitted", "dispatched"}),
         In("dispatch", names) = In("completed", names) + In("capacity", names)
                                 + In("downstream", names)
                                 - In(from, {"dispatched"}) + In(to, {"dispatched"}),
         In("refused", names) <= In("completed", names)
  PROVE  CountersBalance'
<1>. count \in [Counter -> Nat] /\ pc \in [Callers -> PCs]
  BY DEF TypeOK, PCs
<1>1. /\ Cardinality(Validating) \in Nat /\ Cardinality(Undecided) \in Nat
      /\ Cardinality(Dispatched) \in Nat
  BY CallersFinite DEF Validating, Undecided, Dispatched
<1>2. /\ Cardinality(Validating') = Cardinality(Validating)
              - In(from, {"validating"}) + In(to, {"validating"})
      /\ Cardinality(Undecided') = Cardinality(Undecided)
              - In(from, {"admitted", "dispatched"}) + In(to, {"admitted", "dispatched"})
      /\ Cardinality(Dispatched') = Cardinality(Dispatched)
              - In(from, {"dispatched"}) + In(to, {"dispatched"})
  BY GotoCounts
<1>3. \A k \in Counter : count'[k] = count[k] + In(k, names) /\ count[k] \in Nat
  BY BumpValue
<1>4. /\ In("completed", names) \in Nat /\ In("cancelled", names) \in Nat
      /\ In("capacity", names) \in Nat /\ In("downstream", names) \in Nat
      /\ In("attempt", names) \in Nat /\ In("invalid", names) \in Nat
      /\ In("lifecycle", names) \in Nat /\ In("accepted", names) \in Nat
      /\ In("dispatch", names) \in Nat /\ In("refused", names) \in Nat
      /\ \A places : In(from, places) \in Nat /\ In(to, places) \in Nat
  BY DEF In
<1>5. /\ count'["attempt"] = count["attempt"] + In("attempt", names)
      /\ count'["invalid"] = count["invalid"] + In("invalid", names)
      /\ count'["lifecycle"] = count["lifecycle"] + In("lifecycle", names)
      /\ count'["accepted"] = count["accepted"] + In("accepted", names)
      /\ count'["completed"] = count["completed"] + In("completed", names)
      /\ count'["cancelled"] = count["cancelled"] + In("cancelled", names)
      /\ count'["capacity"] = count["capacity"] + In("capacity", names)
      /\ count'["downstream"] = count["downstream"] + In("downstream", names)
      /\ count'["dispatch"] = count["dispatch"] + In("dispatch", names)
      /\ count'["refused"] = count["refused"] + In("refused", names)
  BY <1>3 DEF Counter
<1>6. /\ count["attempt"] \in Nat /\ count["invalid"] \in Nat /\ count["lifecycle"] \in Nat
      /\ count["accepted"] \in Nat /\ count["completed"] \in Nat /\ count["cancelled"] \in Nat
      /\ count["capacity"] \in Nat /\ count["downstream"] \in Nat
      /\ count["dispatch"] \in Nat /\ count["refused"] \in Nat
  BY DEF Counter
<1>7. (count'["attempt"] = count'["invalid"] + count'["lifecycle"] + count'["accepted"]
                            + Cardinality(Validating'))
  BY <1>1, <1>2, <1>4, <1>5, <1>6 DEF CountersBalance
<1>8. count'["accepted"] = count'["completed"] + count'["cancelled"] + count'["capacity"]
                           + count'["downstream"] + Cardinality(Undecided')
  BY <1>1, <1>2, <1>4, <1>5, <1>6 DEF CountersBalance, Settled
<1>9. count'["dispatch"] = ((count'["completed"] + count'["cancelled"] + count'["capacity"]
                            + count'["downstream"]) - count'["cancelled"]) + Cardinality(Dispatched')
  BY <1>1, <1>2, <1>4, <1>5, <1>6 DEF CountersBalance, Settled
<1>10. count'["refused"] <= count'["completed"]
  BY <1>4, <1>5, <1>6 DEF CountersBalance
<1>. QED
  BY <1>7, <1>8, <1>9, <1>10 DEF CountersBalance, Settled

LEMMA CountersStep ==
  ASSUME TypeOK, CountersBalance, [FacadeNext]_facadeVars
  PROVE  CountersBalance'
<1>1. CASE UNCHANGED <<pc, count>>
  BY <1>1 DEF CountersBalance, Settled, Validating, Undecided, Dispatched
<1>2. ASSUME NEW c \in Callers, Begin(c) PROVE CountersBalance'
  <2>1. Goto(c, "out", "validating") /\ Bump({"attempt"})
    BY <1>2 DEF Begin
  <2>. QED
    BY <2>1, BalancedMove DEF In
<1>3. ASSUME NEW c \in Callers, RejectInvalid(c) PROVE CountersBalance'
  <2>1. Goto(c, "validating", "out") /\ Bump({"invalid"})
    BY <1>3 DEF RejectInvalid
  <2>. QED
    BY <2>1, BalancedMove DEF In
<1>4. ASSUME NEW c \in Callers, RejectLifecycle(c) PROVE CountersBalance'
  <2>1. Goto(c, "validating", "out") /\ Bump({"lifecycle"})
    BY <1>4 DEF RejectLifecycle
  <2>. QED
    BY <2>1, BalancedMove DEF In
<1>5. ASSUME NEW c \in Callers, Admit(c) PROVE CountersBalance'
  <2>1. Goto(c, "validating", "admitted") /\ Bump({"accepted"})
    BY <1>5 DEF Admit
  <2>. QED
    BY <2>1, BalancedMove DEF In
<1>6. ASSUME NEW c \in Callers, CancelBeforeDispatch(c) PROVE CountersBalance'
  <2>1. Goto(c, "admitted", "leaving") /\ Bump({"cancelled"})
    BY <1>6 DEF CancelBeforeDispatch
  <2>. QED
    BY <2>1, BalancedMove DEF In
<1>7. ASSUME NEW c \in Callers, Dispatch(c) PROVE CountersBalance'
  <2>1. Goto(c, "admitted", "dispatched") /\ Bump({"dispatch"})
    BY <1>7 DEF Dispatch
  <2>. QED
    BY <2>1, BalancedMove DEF In
<1>8. ASSUME NEW c \in Callers, NEW refused \in BOOLEAN, Complete(c, refused) PROVE CountersBalance'
  <2>1. Goto(c, "dispatched", "leaving")
    BY <1>8 DEF Complete
  <2>2. CASE refused
    <3>1. Bump({"completed", "refused"})
      <4>1. {"completed"} \cup {"refused"} = {"completed", "refused"}
        OBVIOUS
      <4>. QED
        BY <1>8, <2>2, <4>1 DEF Complete
    <3>. QED
      BY <2>1, <3>1, BalancedMove DEF In
  <2>3. CASE ~refused
    <3>1. Bump({"completed"})
      <4>1. {"completed"} \cup {} = {"completed"}
        OBVIOUS
      <4>. QED
        BY <1>8, <2>3, <4>1 DEF Complete
    <3>. QED
      BY <2>1, <3>1, BalancedMove DEF In
  <2>. QED
    BY <2>2, <2>3
<1>9. ASSUME NEW c \in Callers, RuntimeAtCapacity(c) PROVE CountersBalance'
  <2>1. Goto(c, "dispatched", "leaving") /\ Bump({"capacity"})
    BY <1>9 DEF RuntimeAtCapacity
  <2>. QED
    BY <2>1, BalancedMove DEF In
<1>10. ASSUME NEW c \in Callers, DownstreamError(c) PROVE CountersBalance'
  <2>1. Goto(c, "dispatched", "leaving") /\ Bump({"downstream"})
    BY <1>10 DEF DownstreamError
  <2>. QED
    BY <2>1, BalancedMove DEF In
<1>11. ASSUME NEW c \in Callers, Leave(c) PROVE CountersBalance'
  <2>1. Goto(c, "leaving", "out") /\ UNCHANGED count
    BY <1>11 DEF Leave
  <2>2. /\ Validating' = Validating /\ Undecided' = Undecided /\ Dispatched' = Dispatched
    BY <2>1 DEF TypeOK, Goto, Validating, Undecided, Dispatched
  <2>. QED
    BY <2>1, <2>2 DEF CountersBalance, Settled
<1>12. ASSUME NEW s \in Closers, Shutdown(s) \/ ResumeShutdown(s) PROVE UNCHANGED <<pc, count>>
  BY <1>12 DEF Shutdown, ResumeShutdown, callVars
<1>13. ASSUME NEW w \in Watchers, NEW t \in State, Watch(w, t) \/ ResumeWatch(w)
       PROVE  UNCHANGED <<pc, count>>
  BY <1>13 DEF Watch, ResumeWatch, LookForTarget, callVars
<1>14. CASE UNCHANGED facadeVars
  BY <1>14, <1>1 DEF facadeVars, callVars
<1>. QED
  BY <1>1, <1>2, <1>3, <1>4, <1>5, <1>6, <1>7, <1>8, <1>9, <1>10, <1>11, <1>12, <1>13, <1>14
     DEF FacadeNext, Proceed, RuntimeOutcome, State

\* Every invocation is counted exactly once at each boundary it crosses.
THEOREM CountersCorrect == FacadeSpec => []CountersBalance
<1>1. FacadeInit => CountersBalance
  <2>. SUFFICES ASSUME FacadeInit PROVE CountersBalance
    OBVIOUS
  <2>1. Validating = {} /\ Undecided = {} /\ Dispatched = {}
    BY DEF FacadeInit, Validating, Undecided, Dispatched
  <2>2. \A k \in Counter : count[k] = 0
    BY DEF FacadeInit
  <2>. QED
    BY <2>1, <2>2, FS_EmptySet DEF CountersBalance, Settled, Counter
<1>2. TypeOK /\ CountersBalance /\ [FacadeNext]_facadeVars => CountersBalance'
  BY CountersStep
<1>. QED
  BY <1>1, <1>2, TypeCorrect, PTL DEF FacadeSpec

-------------------------------------------------------------------------------
(* No lost wakeup *)

\* A watcher that sleeps is inside wait_until_state(): its target stays put.
SleepingWatchersWait == \A w \in Watchers \cap parked : watcher[w] = "waiting"

WakeInv == SleepersHaveAWaker /\ SleepingWatchersWait

LEMMA WakeStep ==
  ASSUME IInv, WakeInv, [FacadeNext]_facadeVars
  PROVE  WakeInv'
<1>. USE DEF WakeInv, SleepersHaveAWaker, SleepingWatchersWait
<1>1. /\ TypeOK /\ current_in_flight \in Nat /\ state \in State
      /\ watcher \in [Watchers -> {"idle", "waiting", "returned", "raised"}]
      /\ target \in [Watchers -> State]
      /\ closer \in [Closers -> {"idle", "waiting"}]
      /\ current_in_flight > 0 => Inside # {}
  BY CallersFinite, FS_EmptySet DEF IInv, TypeOK, InFlightIsInside, Inside
<1>2. CASE UNCHANGED <<state, pc, parked, watcher, target>>
  BY <1>2 DEF Inside
\* Only Leave takes a caller out, and Leave wakes everybody.
<1>3. ASSUME NEW c \in Callers, Begin(c) \/ Proceed(c) PROVE WakeInv'
  <2>1. CASE Leave(c)
    BY <2>1 DEF Leave, NotifyAll
  <2>2. CASE ~Leave(c)
    <3>1. UNCHANGED <<state, parked, watcher, target>>
      BY <1>3, <2>2 DEF Begin, Proceed, RejectInvalid, RejectLifecycle, Admit, CancelBeforeDispatch,
         Dispatch, RuntimeOutcome, Complete, RuntimeAtCapacity, DownstreamError, waitVars
    <3>2. \/ Goto(c, "out", "validating") \/ Goto(c, "validating", "out")
          \/ Goto(c, "validating", "admitted") \/ Goto(c, "admitted", "leaving")
          \/ Goto(c, "admitted", "dispatched") \/ Goto(c, "dispatched", "leaving")
      BY <1>3, <2>2 DEF Begin, Proceed, RejectInvalid, RejectLifecycle, Admit, CancelBeforeDispatch,
         Dispatch, RuntimeOutcome, Complete, RuntimeAtCapacity, DownstreamError
    <3>3. Inside \subseteq Inside'
      <4>1. pc \in [Callers -> PCs]
        BY <1>1 DEF TypeOK, PCs
      <4>2. Inside' \ {c} = Inside \ {c} /\ (c \in Inside => c \in Inside')
        BY <3>2, <4>1, GotoSets
      <4>. QED
        BY <4>2
    <3>. QED
      BY <3>1, <3>3
  <2>. QED
    BY <2>1, <2>2
<1>4. ASSUME NEW s \in Closers, Shutdown(s) \/ ResumeShutdown(s) PROVE WakeInv'
  <2>1. UNCHANGED <<pc, current_in_flight, watcher, target>>
    BY <1>4 DEF Shutdown, ResumeShutdown, callVars
  <2>2. Inside' = Inside
    BY <2>1 DEF Inside
  <2>3. s \notin Watchers
    BY FacadeAssumption DEF FacadeAssumption
  <2>4. \/ parked' = {}
        \/ /\ current_in_flight > 0
           /\ parked' = {s}
        \/ /\ current_in_flight > 0
           /\ parked' = parked \cup {s}
           /\ UNCHANGED state
    BY <1>1, <1>4 DEF Shutdown, ResumeShutdown, DrainOrSleep, NotifyAll, State
  <2>. QED
    BY <1>1, <2>1, <2>2, <2>3, <2>4
<1>5. ASSUME NEW w \in Watchers, NEW t \in State, Watch(w, t) PROVE WakeInv'
  <2>1. /\ UNCHANGED <<state, pc>> /\ w \notin parked
        /\ target' = [target EXCEPT ![w] = t]
        /\ watcher' = [watcher EXCEPT ![w] = IF state = t THEN "returned"
                                       ELSE IF Order[state] > Order[t] THEN "raised"
                                       ELSE "waiting"]
        /\ parked' = IF Order[state] < Order[t] THEN parked \cup {w} ELSE parked
    BY <1>1, <1>5 DEF Watch, LookForTarget, callVars
  <2>2. Inside' = Inside /\ w \notin Closers
    BY <2>1, FacadeAssumption DEF Inside, FacadeAssumption
  <2>3. Order[state] \in Nat /\ Order[t] \in Nat
    BY <1>1 DEF Order, State
  <2>. QED
    BY <1>1, <2>1, <2>2, <2>3
<1>6. ASSUME NEW w \in Watchers, ResumeWatch(w) PROVE WakeInv'
  <2>1. /\ UNCHANGED <<state, pc, target>> /\ w \notin parked
        /\ watcher' = [watcher EXCEPT ![w] = IF state = target[w] THEN "returned"
                                       ELSE IF Order[state] > Order[target[w]] THEN "raised"
                                       ELSE "waiting"]
        /\ parked' = IF Order[state] < Order[target[w]] THEN parked \cup {w} ELSE parked
    BY <1>1, <1>6 DEF ResumeWatch, LookForTarget, callVars
  <2>2. Inside' = Inside /\ w \notin Closers
    BY <2>1, FacadeAssumption DEF Inside, FacadeAssumption
  <2>3. Order[state] \in Nat /\ Order[target[w]] \in Nat
    BY <1>1 DEF Order, State
  <2>. QED
    BY <1>1, <2>1, <2>2, <2>3
<1>7. CASE UNCHANGED facadeVars
  BY <1>7, <1>2 DEF facadeVars, callVars, waitVars
<1>. QED
  BY <1>3, <1>4, <1>5, <1>6, <1>7 DEF FacadeNext

\* A closer sleeps only while a call that will wake it is inside, and a watcher
\* only while the state it waits for is still ahead: no wakeup can be lost.
THEOREM NoLostWakeup == FacadeSpec => []SleepersHaveAWaker
<1>1. FacadeInit => WakeInv
  BY DEF FacadeInit, WakeInv, SleepersHaveAWaker, SleepingWatchersWait
<1>2. IInv /\ WakeInv /\ [FacadeNext]_facadeVars => WakeInv'
  BY WakeStep
<1>3. WakeInv => SleepersHaveAWaker
  BY DEF WakeInv
<1>. QED
  BY <1>1, <1>2, <1>3, Invariance, PTL DEF FacadeSpec

\* Everything the facade counts is exact: the calls inside and the calls that ended.
THEOREM CountsExact == FacadeSpec => []CountsAreExact
BY InFlightCorrect, CountersCorrect, PTL DEF CountsAreExact

===============================================================================
