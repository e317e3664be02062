------------------------- MODULE ConcurrentRuntimeProofs -------------------------
(***************************************************************************)
(* Proofs about PrimeQAHybridConcurrentSidecarAgentRuntime for any number  *)
(* of threads and any capacity: admission (the semaphore and the counters  *)
(* taken under another lock) and the request-local retriever (no profile   *)
(* crosses from one call to another).                                      *)
(***************************************************************************)
EXTENDS ConcurrentRuntime, FiniteSetTheorems, TLAPS

NotHolding == {"idle", "attempted", "refused"}
NotCounted == {"idle", "attempted", "refused", "permitted", "releasing"}
Open       == {"attempted", "refused", "permitted"}
Ongoing    == {"admitted", "downstream", "running", "returned", "raised", "completing", "failing"}

In(place, places) == IF place \in places THEN 1 ELSE 0

\* Two finite sets that differ in one member at most differ in size accordingly.
LEMMA OneMember ==
  ASSUME NEW S, NEW T, NEW c, IsFiniteSet(S), IsFiniteSet(T), S \ {c} = T \ {c}
  PROVE  Cardinality(T) = Cardinality(S) - (IF c \in S THEN 1 ELSE 0)
                                         + (IF c \in T THEN 1 ELSE 0)
<1>1. Cardinality(S) \in Nat /\ Cardinality(T) \in Nat
  BY FS_CardinalityType
<1>2. Cardinality(S \ {c}) = IF c \in S THEN Cardinality(S) - 1 ELSE Cardinality(S)
  BY FS_RemoveElement
<1>3. Cardinality(T \ {c}) = IF c \in T THEN Cardinality(T) - 1 ELSE Cardinality(T)
  BY FS_RemoveElement
<1>4. Cardinality(S \ {c}) = Cardinality(T \ {c})
  OBVIOUS
<1>5. ASSUME NEW a \in Nat, NEW b \in Nat, NEW d,
             d = IF c \in S THEN a - 1 ELSE a, d = IF c \in T THEN b - 1 ELSE b
      PROVE  b = a - (IF c \in S THEN 1 ELSE 0) + (IF c \in T THEN 1 ELSE 0)
  BY <1>5
<1>. QED
  BY <1>1, <1>2, <1>3, <1>4, <1>5

-------------------------------------------------------------------------------
(* How the places of the threads move the sets the invariants count *)

LEMMA ThreadsFinite ==
  ASSUME NEW S \in SUBSET Threads
  PROVE  IsFiniteSet(S) /\ Cardinality(S) \in Nat
BY RuntimeAssumption, FS_Subset, FS_CardinalityType DEF RuntimeAssumption

LEMMA MoveSets ==
  ASSUME NEW t \in Threads, NEW from, NEW to, at \in [Threads -> Place], Move(t, from, to)
  PROVE  /\ Holding' \ {t} = Holding \ {t}
         /\ Counted' \ {t} = Counted \ {t}
         /\ Unended' \ {t} = Unended \ {t}
         /\ Undecided' \ {t} = Undecided \ {t}
         /\ (t \in Holding <=> from \notin NotHolding) /\ (t \in Holding' <=> to \notin NotHolding)
         /\ (t \in Counted <=> from \notin NotCounted) /\ (t \in Counted' <=> to \notin NotCounted)
         /\ (t \in Unended <=> from \in Ongoing) /\ (t \in Unended' <=> to \in Ongoing)
         /\ (t \in Undecided <=> from \in Open) /\ (t \in Undecided' <=> to \in Open)
BY DEF Move, Holding, Counted, Unended, Undecided, NotHolding, NotCounted, Open, Ongoing

LEMMA MoveCounts ==
  ASSUME NEW t \in Threads, NEW from, NEW to, at \in [Threads -> Place], Move(t, from, to)
  PROVE  /\ Cardinality(Holding') = Cardinality(Holding) + In(from, NotHolding) - In(to, NotHolding)
         /\ Cardinality(Counted') = Cardinality(Counted) + In(from, NotCounted) - In(to, NotCounted)
         /\ Cardinality(Unended') = Cardinality(Unended) - In(from, Ongoing) + In(to, Ongoing)
         /\ Cardinality(Undecided') = Cardinality(Undecided) - In(from, Open) + In(to, Open)
<1>1. /\ IsFiniteSet(Holding)   /\ IsFiniteSet(Holding')   /\ Cardinality(Holding) \in Nat
      /\ IsFiniteSet(Counted)   /\ IsFiniteSet(Counted')   /\ Cardinality(Counted) \in Nat
      /\ IsFiniteSet(Unended)   /\ IsFiniteSet(Unended')   /\ Cardinality(Unended) \in Nat
      /\ IsFiniteSet(Undecided) /\ IsFiniteSet(Undecided') /\ Cardinality(Undecided) \in Nat
  BY ThreadsFinite DEF Holding, Counted, Unended, Undecided
<1>2. Cardinality(Holding') = Cardinality(Holding) - (IF t \in Holding THEN 1 ELSE 0)
                                                   + (IF t \in Holding' THEN 1 ELSE 0)
  BY <1>1, MoveSets, OneMember
<1>3. Cardinality(Counted') = Cardinality(Counted) - (IF t \in Counted THEN 1 ELSE 0)
                                                   + (IF t \in Counted' THEN 1 ELSE 0)
  BY <1>1, MoveSets, OneMember
<1>4. Cardinality(Unended') = Cardinality(Unended) - (IF t \in Unended THEN 1 ELSE 0)
                                                   + (IF t \in Unended' THEN 1 ELSE 0)
  BY <1>1, MoveSets, OneMember
<1>5. Cardinality(Undecided') = Cardinality(Undecided) - (IF t \in Undecided THEN 1 ELSE 0)
                                                       + (IF t \in Undecided' THEN 1 ELSE 0)
  BY <1>1, MoveSets, OneMember
<1>. QED
  BY <1>1, <1>2, <1>3, <1>4, <1>5, MoveSets DEF In

-------------------------------------------------------------------------------
(* Which way each action moves its thread *)

LEMMA MoveKinds ==
  ASSUME NEW t \in Threads, Continue(t)
  PROVE  \/ AcquirePermit(t)
         \/ CountAdmission(t)
         \/ LeaveFlight(t)
         \/ ReleasePermit(t)
         \/ /\ UNCHANGED <<permits, in_flight, max_in_flight>>
            /\ \/ UNCHANGED at
               \/ \E from, to \in NotHolding : Move(t, from, to)
               \/ \E from, to \in Place \ NotCounted : Move(t, from, to)
<1>. USE DEF admissionVars, NotHolding, NotCounted, Place
<1>1. CASE FindNoPermit(t)
  BY <1>1 DEF FindNoPermit
<1>2. CASE RaiseCapacity(t)
  BY <1>2 DEF RaiseCapacity
<1>3. CASE CountDownstream(t)
  BY <1>3 DEF CountDownstream
<1>4. CASE PrepareRequest(t)
  BY <1>4 DEF PrepareRequest
<1>5. CASE Retrieve(t)
  BY <1>5 DEF Retrieve
<1>6. CASE EntrypointReturns(t)
  BY <1>6 DEF EntrypointReturns
<1>7. CASE EntrypointRaises(t)
  BY <1>7 DEF EntrypointRaises
<1>8. CASE TakeRun(t)
  BY <1>8 DEF TakeRun
<1>9. CASE DiscardRun(t)
  BY <1>9 DEF DiscardRun
<1>10. CASE CountCompleted(t)
  BY <1>10 DEF CountCompleted
<1>11. CASE CountFailed(t)
  BY <1>11 DEF CountFailed
<1>12. CASE TraceRaises(t)
  BY <1>12 DEF TraceRaises
<1>. QED
  BY <1>1, <1>2, <1>3, <1>4, <1>5, <1>6, <1>7, <1>8, <1>9, <1>10, <1>11, <1>12 DEF Continue


-------------------------------------------------------------------------------
(* Admission: the semaphore, the in-flight count and the types *)

\* From prepare_request() to take_run(), a context holds a token.
TokenInHand == \A t \in Threads : at[t] \in {"running", "returned"} => token[t] \in Tokens

LEMMA TokenKept ==
  ASSUME TypeOK, TokenInHand, [RuntimeNext]_runtimeVars
  PROVE  TokenInHand'
<1>. USE DEF TypeOK, TokenInHand, Move, admissionVars, retrieverVars
<1>1. CASE UNCHANGED runtimeVars
  BY <1>1 DEF runtimeVars
<1>2. ASSUME NEW t \in Threads, NEW q \in Questions, Attempt(t, q)
      PROVE  TokenInHand'
  BY <1>2 DEF Attempt
<1>3. ASSUME NEW t \in Threads, Continue(t)
      PROVE  TokenInHand'
  <2>1. CASE PrepareRequest(t)
    BY <2>1 DEF PrepareRequest
  <2>2. CASE TakeRun(t)
    <3>1. CASE pending[token[t]] # NoRun
      BY <2>2, <3>1 DEF TakeRun
    <3>2. CASE pending[token[t]] = NoRun
      BY <2>2, <3>2 DEF TakeRun
    <3>. QED
      BY <3>1, <3>2
  <2>3. CASE DiscardRun(t)
    BY <2>3 DEF DiscardRun
  <2>4. CASE Retrieve(t)
    BY <2>4 DEF Retrieve
  <2>5. CASE EntrypointReturns(t) \/ EntrypointRaises(t)
    BY <2>5 DEF EntrypointReturns, EntrypointRaises
  <2>6. CASE AcquirePermit(t) \/ FindNoPermit(t) \/ RaiseCapacity(t) \/ CountAdmission(t) \/ CountDownstream(t)
    BY <2>6 DEF AcquirePermit, FindNoPermit, RaiseCapacity, CountAdmission, CountDownstream
  <2>7. CASE TraceRaises(t) \/ CountCompleted(t) \/ CountFailed(t) \/ LeaveFlight(t) \/ ReleasePermit(t)
    BY <2>7 DEF TraceRaises, CountCompleted, CountFailed, LeaveFlight, ReleasePermit
  <2>. QED
    BY <1>3, <2>1, <2>2, <2>3, <2>4, <2>5, <2>6, <2>7 DEF Continue
<1>. QED
  BY <1>1, <1>2, <1>3 DEF RuntimeNext

\* Every step keeps the types, the in-flight count apart: that it stays a natural
\* number follows from what it counts.
LEMMA TypesKept ==
  ASSUME TypeOK, TokenInHand, [RuntimeNext]_runtimeVars, in_flight' \in Nat
  PROVE  TypeOK'
<1>. USE DEF TypeOK, Tally, Place, Move, Add, admissionVars, retrieverVars
<1>1. CASE UNCHANGED runtimeVars
  BY <1>1 DEF runtimeVars
<1>2. ASSUME NEW t \in Threads, NEW q \in Questions, Attempt(t, q)
      PROVE  TypeOK'
  BY <1>2 DEF Attempt
<1>3. ASSUME NEW t \in Threads, Continue(t)
      PROVE  TypeOK'
  <2>1. CASE AcquirePermit(t)
    BY <2>1 DEF AcquirePermit
  <2>2. CASE FindNoPermit(t)
    BY <2>2 DEF FindNoPermit
  <2>3. CASE RaiseCapacity(t)
    BY <2>3 DEF RaiseCapacity
  <2>4. CASE CountAdmission(t)
    BY <2>4 DEF CountAdmission
  <2>5. CASE CountDownstream(t)
    BY <2>5 DEF CountDownstream
  <2>6. CASE PrepareRequest(t)
    BY <2>6 DEF PrepareRequest
  <2>7. CASE Retrieve(t)
    BY <2>7 DEF Retrieve
  <2>8. CASE EntrypointReturns(t)
    BY <2>8 DEF EntrypointReturns
  <2>9. CASE EntrypointRaises(t)
    BY <2>9 DEF EntrypointRaises
  <2>10. CASE TakeRun(t)
    BY <2>10 DEF TakeRun, TokenInHand
  <2>11. CASE DiscardRun(t)
    BY <2>11 DEF DiscardRun
  <2>12. CASE CountCompleted(t)
    BY <2>12 DEF CountCompleted
  <2>13. CASE CountFailed(t)
    BY <2>13 DEF CountFailed
  <2>14. CASE LeaveFlight(t)
    BY <2>14 DEF LeaveFlight
  <2>15. CASE ReleasePermit(t)
    BY <2>15 DEF ReleasePermit
  <2>16. CASE TraceRaises(t)
    BY <2>16 DEF TraceRaises
  <2>. QED
    BY <1>3, <2>1, <2>2, <2>3, <2>4, <2>5, <2>6, <2>7, <2>8, <2>9, <2>10, <2>11,
       <2>12, <2>13, <2>14, <2>15, <2>16 DEF Continue
<1>. QED
  BY <1>1, <1>2, <1>3 DEF RuntimeNext

AdmissionInv == TypeOK /\ TokenInHand /\ PermitsConserved /\ InFlightBounded

\* The two counts after a step, whichever way it moves its thread.
LEMMA AdmissionStep ==
  ASSUME AdmissionInv, [RuntimeNext]_runtimeVars
  PROVE  PermitsConserved' /\ InFlightBounded' /\ in_flight' \in Nat
<1>0. /\ at \in [Threads -> Place] /\ permits \in Nat /\ in_flight \in Nat
      /\ max_in_flight \in Nat /\ MaxInFlight \in Nat
      /\ permits + Cardinality(Holding) = MaxInFlight
      /\ in_flight = Cardinality(Counted)
      /\ in_flight <= max_in_flight
      /\ max_in_flight <= MaxInFlight
  BY RuntimeAssumption DEF AdmissionInv, TypeOK, PermitsConserved, InFlightBounded, RuntimeAssumption
<1>1. /\ Cardinality(Holding) \in Nat /\ Cardinality(Holding') \in Nat
      /\ Cardinality(Counted) \in Nat /\ Cardinality(Counted') \in Nat
  BY ThreadsFinite DEF Holding, Counted
<1>2. Cardinality(Counted') <= Cardinality(Holding')
  <2>1. IsFiniteSet(Holding') /\ Counted' \subseteq Holding'
    BY ThreadsFinite DEF Holding, Counted
  <2>. QED
    BY <2>1, FS_Subset
<1>3. SUFFICES /\ permits' + Cardinality(Holding') = MaxInFlight
               /\ in_flight' = Cardinality(Counted')
               /\ in_flight' <= max_in_flight'
               /\ max_in_flight' <= MaxInFlight
  BY <1>1 DEF PermitsConserved, InFlightBounded
<1>4. CASE UNCHANGED runtimeVars
  BY <1>0, <1>4 DEF runtimeVars, admissionVars, Holding, Counted
<1>5. ASSUME NEW t \in Threads, NEW from, NEW to, Move(t, from, to),
             UNCHANGED <<permits, in_flight, max_in_flight>>,
             In(from, NotHolding) = In(to, NotHolding), In(from, NotCounted) = In(to, NotCounted)
      PROVE  <1>3!1
  <2>1. /\ Cardinality(Holding') = Cardinality(Holding) + In(from, NotHolding) - In(to, NotHolding)
        /\ Cardinality(Counted') = Cardinality(Counted) + In(from, NotCounted) - In(to, NotCounted)
    BY <1>0, <1>5, MoveCounts
  <2>. QED
    BY <1>0, <1>1, <1>5, <2>1 DEF In
<1>6. ASSUME NEW t \in Threads, NEW q \in Questions, Attempt(t, q)
      PROVE  <1>3!1
  <2>1. Move(t, "idle", "attempted") /\ UNCHANGED <<permits, in_flight, max_in_flight>>
    BY <1>6 DEF Attempt
  <2>. QED
    BY <1>5, <2>1 DEF In, NotHolding, NotCounted
<1>7. ASSUME NEW t \in Threads, AcquirePermit(t)
      PROVE  <1>3!1
  <2>1. /\ Move(t, "attempted", "permitted") /\ permits' = permits - 1
        /\ UNCHANGED <<in_flight, max_in_flight>>
    BY <1>7 DEF AcquirePermit
  <2>2. /\ Cardinality(Holding') = Cardinality(Holding) + 1
        /\ Cardinality(Counted') = Cardinality(Counted)
    BY <1>0, <1>1, <2>1, MoveCounts DEF In, NotHolding, NotCounted
  <2>. QED
    BY <1>0, <1>1, <2>1, <2>2
<1>8. ASSUME NEW t \in Threads, CountAdmission(t)
      PROVE  <1>3!1
  <2>1. /\ Move(t, "permitted", "admitted") /\ in_flight' = in_flight + 1 /\ UNCHANGED permits
        /\ max_in_flight' = IF in_flight' > max_in_flight THEN in_flight' ELSE max_in_flight
    BY <1>8 DEF CountAdmission
  <2>2. /\ Cardinality(Holding') = Cardinality(Holding)
        /\ Cardinality(Counted') = Cardinality(Counted) + 1
    BY <1>0, <1>1, <2>1, MoveCounts DEF In, NotHolding, NotCounted
  <2>. QED
    BY <1>0, <1>1, <1>2, <2>1, <2>2
<1>9. ASSUME NEW t \in Threads, LeaveFlight(t)
      PROVE  <1>3!1
  <2>1. /\ Move(t, "leaving", "releasing") /\ in_flight' = in_flight - 1
        /\ UNCHANGED <<permits, max_in_flight>>
    BY <1>9 DEF LeaveFlight
  <2>2. /\ Cardinality(Holding') = Cardinality(Holding)
        /\ Cardinality(Counted') = Cardinality(Counted) - 1
    BY <1>0, <1>1, <2>1, MoveCounts DEF In, NotHolding, NotCounted
  <2>. QED
    BY <1>0, <1>1, <2>1, <2>2
<1>10. ASSUME NEW t \in Threads, ReleasePermit(t)
       PROVE  <1>3!1
  <2>1. /\ Move(t, "releasing", "idle") /\ permits' = permits + 1
        /\ UNCHANGED <<in_flight, max_in_flight>>
    BY <1>10 DEF ReleasePermit
  <2>2. /\ Cardinality(Holding') = Cardinality(Holding) - 1
        /\ Cardinality(Counted') = Cardinality(Counted)
    BY <1>0, <1>1, <2>1, MoveCounts DEF In, NotHolding, NotCounted
  <2>. QED
    BY <1>0, <1>1, <2>1, <2>2
<1>11. ASSUME NEW t \in Threads, UNCHANGED <<permits, in_flight, max_in_flight>>,
              \/ UNCHANGED at
              \/ \E from, to \in NotHolding : Move(t, from, to)
              \/ \E from, to \in Place \ NotCounted : Move(t, from, to)
       PROVE  <1>3!1
  <2>1. CASE UNCHANGED at
    BY <1>0, <1>11, <2>1 DEF Holding, Counted
  <2>2. ASSUME NEW from \in NotHolding, NEW to \in NotHolding, Move(t, from, to)
        PROVE  <1>3!1
    BY <1>5, <1>11, <2>2 DEF In, NotHolding, NotCounted
  <2>3. ASSUME NEW from \in Place \ NotCounted, NEW to \in Place \ NotCounted, Move(t, from, to)
        PROVE  <1>3!1
    BY <1>5, <1>11, <2>3 DEF In, NotHolding, NotCounted
  <2>. QED
    BY <1>11, <2>1, <2>2, <2>3
<1>. QED
  <2>1. ASSUME NEW t \in Threads, Continue(t)
        PROVE  <1>3!1
    BY <1>7, <1>8, <1>9, <1>10, <1>11, <2>1, MoveKinds
  <2>. QED
    BY <1>4, <1>6, <2>1 DEF RuntimeNext

\* Admission holds up for every capacity and any number of threads: the types, the
\* permits and the in-flight count, which need one another to be inductive.
THEOREM Admission == RuntimeSpec => []AdmissionInv
<1>1. RuntimeInit => AdmissionInv
  <2>. SUFFICES ASSUME RuntimeInit PROVE AdmissionInv
    OBVIOUS
  <2>1. TypeOK
    BY RuntimeAssumption DEF RuntimeInit, TypeOK, RuntimeAssumption, Place, Tally
  <2>2. Holding = {} /\ Counted = {} /\ TokenInHand
    BY DEF RuntimeInit, Holding, Counted, TokenInHand
  <2>. QED
    BY <2>1, <2>2, RuntimeAssumption, FS_EmptySet
    DEF RuntimeInit, AdmissionInv, PermitsConserved, InFlightBounded, RuntimeAssumption
<1>2. AdmissionInv /\ [RuntimeNext]_runtimeVars => AdmissionInv'
  BY AdmissionStep, TypesKept, TokenKept DEF AdmissionInv
<1>. QED
  BY <1>1, <1>2, PTL DEF RuntimeSpec

\* The types of the runtime's state.
THEOREM RuntimeTypes == RuntimeSpec => []TypeOK
BY Admission, PTL DEF AdmissionInv

\* No permit is ever lost or minted.
THEOREM PermitsCorrect == RuntimeSpec => []PermitsConserved
BY Admission, PTL DEF AdmissionInv

\* The in-flight count is exact and never passes the capacity.
THEOREM InFlightCorrect == RuntimeSpec => []InFlightBounded
BY Admission, PTL DEF AdmissionInv

\* Permits and in-flight count stay exact together, although two locks guard them.
THEOREM AdmissionExact == RuntimeSpec => []AdmissionIsExact
BY PermitsCorrect, InFlightCorrect, PTL DEF AdmissionIsExact


-------------------------------------------------------------------------------
(* The tallies *)

LEMMA TalliesStep ==
  ASSUME AdmissionInv, TalliesBalance, [RuntimeNext]_runtimeVars
  PROVE  TalliesBalance'
<1>0. /\ at \in [Threads -> Place]
      /\ tally \in [Tally -> Nat]
      /\ tally["attempt"] = tally["admitted"] + tally["rejected"] + Cardinality(Undecided)
      /\ tally["admitted"] = tally["completed"] + tally["failed"] + Cardinality(Unended)
  BY DEF AdmissionInv, TypeOK, TalliesBalance
<1>1. /\ Cardinality(Unended) \in Nat /\ Cardinality(Unended') \in Nat
      /\ Cardinality(Undecided) \in Nat /\ Cardinality(Undecided') \in Nat
  BY ThreadsFinite DEF Unended, Undecided
<1>2. CASE UNCHANGED <<tally, at>>
  BY <1>0, <1>2 DEF TalliesBalance, Unended, Undecided
<1>3. ASSUME NEW t \in Threads, NEW from, NEW to, Move(t, from, to)
      PROVE  /\ Cardinality(Unended') = Cardinality(Unended) - In(from, Ongoing) + In(to, Ongoing)
             /\ Cardinality(Undecided') = Cardinality(Undecided) - In(from, Open) + In(to, Open)
  BY <1>0, <1>3, MoveCounts
<1>4. ASSUME NEW t \in Threads, NEW from, NEW to, Move(t, from, to), UNCHANGED tally,
             In(from, Ongoing) = In(to, Ongoing), In(from, Open) = In(to, Open)
      PROVE  TalliesBalance'
  BY <1>0, <1>1, <1>3, <1>4 DEF TalliesBalance, In
<1>. USE DEF In, Ongoing, Open, admissionVars, retrieverVars, Tally
<1>5. ASSUME NEW t \in Threads, NEW q \in Questions, Attempt(t, q)
      PROVE  TalliesBalance'
  <2>1. Move(t, "idle", "attempted") /\ Add("attempt")
    BY <1>5 DEF Attempt
  <2>. QED
    BY <1>0, <1>1, <1>3, <2>1 DEF TalliesBalance, Add
<1>6. ASSUME NEW t \in Threads, RaiseCapacity(t)
      PROVE  TalliesBalance'
  <2>1. Move(t, "refused", "idle") /\ Add("rejected")
    BY <1>6 DEF RaiseCapacity
  <2>. QED
    BY <1>0, <1>1, <1>3, <2>1 DEF TalliesBalance, Add
<1>7. ASSUME NEW t \in Threads, CountAdmission(t)
      PROVE  TalliesBalance'
  <2>1. Move(t, "permitted", "admitted") /\ Add("admitted")
    BY <1>7 DEF CountAdmission
  <2>. QED
    BY <1>0, <1>1, <1>3, <2>1 DEF TalliesBalance, Add
<1>8. ASSUME NEW t \in Threads, CountDownstream(t)
      PROVE  TalliesBalance'
  <2>1. Move(t, "admitted", "downstream") /\ Add("downstream")
    BY <1>8 DEF CountDownstream
  <2>. QED
    BY <1>0, <1>1, <1>3, <2>1 DEF TalliesBalance, Add
<1>9. ASSUME NEW t \in Threads, CountCompleted(t)
      PROVE  TalliesBalance'
  <2>1. Move(t, "completing", "leaving") /\ Add("completed")
    BY <1>9 DEF CountCompleted
  <2>. QED
    BY <1>0, <1>1, <1>3, <2>1 DEF TalliesBalance, Add
<1>10. ASSUME NEW t \in Threads, CountFailed(t)
       PROVE  TalliesBalance'
  <2>1. Move(t, "failing", "leaving") /\ Add("failed")
    BY <1>10 DEF CountFailed
  <2>. QED
    BY <1>0, <1>1, <1>3, <2>1 DEF TalliesBalance, Add
<1>11. ASSUME NEW t \in Threads, AcquirePermit(t) \/ FindNoPermit(t) \/ LeaveFlight(t) \/ ReleasePermit(t)
       PROVE  TalliesBalance'
  <2>1. /\ UNCHANGED tally
        /\ \/ Move(t, "attempted", "permitted") \/ Move(t, "attempted", "refused")
           \/ Move(t, "leaving", "releasing") \/ Move(t, "releasing", "idle")
    BY <1>11 DEF AcquirePermit, FindNoPermit, LeaveFlight, ReleasePermit
  <2>. QED
    BY <1>4, <2>1
<1>12. ASSUME NEW t \in Threads,
              \/ PrepareRequest(t) \/ Retrieve(t) \/ EntrypointReturns(t) \/ EntrypointRaises(t)
              \/ TakeRun(t) \/ DiscardRun(t) \/ TraceRaises(t)
       PROVE  TalliesBalance'
  <2>1. /\ UNCHANGED tally
        /\ UNCHANGED at \/ \E from, to \in Ongoing : Move(t, from, to)
    BY <1>12 DEF PrepareRequest, Retrieve, EntrypointReturns, EntrypointRaises, TakeRun, DiscardRun,
               TraceRaises
  <2>2. ASSUME NEW from \in Ongoing, NEW to \in Ongoing, Move(t, from, to)
        PROVE  TalliesBalance'
    BY <1>4, <2>1, <2>2
  <2>. QED
    BY <1>2, <2>1, <2>2
<1>. QED
  <2>1. CASE UNCHANGED runtimeVars
    BY <1>2, <2>1 DEF runtimeVars
  <2>2. ASSUME NEW t \in Threads, Continue(t)
        PROVE  TalliesBalance'
    BY <1>6, <1>7, <1>8, <1>9, <1>10, <1>11, <1>12, <2>2 DEF Continue
  <2>. QED
    BY <1>5, <2>1, <2>2 DEF RuntimeNext

\* Every attempt is admitted or rejected once and every admission ends once, in the
\* counters' books, whatever the interleaving.
THEOREM TalliesCorrect == RuntimeSpec => []TalliesBalance
<1>1. RuntimeInit => TalliesBalance
  <2>. SUFFICES ASSUME RuntimeInit PROVE TalliesBalance
    OBVIOUS
  <2>1. Unended = {} /\ Undecided = {}
    BY DEF RuntimeInit, Unended, Undecided
  <2>. QED
    BY <2>1, FS_EmptySet DEF RuntimeInit, TalliesBalance, Tally
<1>2. AdmissionInv /\ TalliesBalance /\ [RuntimeNext]_runtimeVars => TalliesBalance'
  BY TalliesStep
<1>. QED
  BY <1>1, <1>2, Admission, PTL DEF RuntimeSpec

-------------------------------------------------------------------------------
(* The request-local retriever *)

\* What a token holds was retrieved for the question of the context it belongs to.
PendingIsOwn ==
  \A t \in Threads : token[t] \in Tokens /\ pending[token[t]] # NoRun => pending[token[t]] = question[t]

RetrieverInv == ProfileIsOwn /\ NothingLeftBehind /\ TokensDistinct /\ PendingIsOwn

\* The steps that touch neither the tokens nor the profiles, and leave the block
\* that owns a token alone.
LEMMA RetrieverUntouched ==
  ASSUME RetrieverInv, NEW t \in Threads, at \in [Threads -> Place],
         UNCHANGED <<token, pending, profile, question>>,
         \/ UNCHANGED at
         \/ \E from, to : Move(t, from, to) /\ (to \in {"running", "returned", "raised"}
                                               \/ from \notin {"running", "returned", "raised"})
  PROVE  RetrieverInv'
BY DEF RetrieverInv, ProfileIsOwn, NothingLeftBehind, TokensDistinct, PendingIsOwn, Move

LEMMA RetrieverStep ==
  ASSUME AdmissionInv, RetrieverInv, [RuntimeNext]_runtimeVars
  PROVE  RetrieverInv'
<1>0. TypeOK /\ TokenInHand /\ ProfileIsOwn /\ NothingLeftBehind /\ TokensDistinct /\ PendingIsOwn
  BY DEF AdmissionInv, RetrieverInv
<1>. USE RuntimeAssumption DEF RuntimeAssumption, TypeOK, admissionVars, retrieverVars
<1>1. CASE UNCHANGED runtimeVars
  BY <1>0, <1>1 DEF runtimeVars, RetrieverInv, ProfileIsOwn, NothingLeftBehind, TokensDistinct, PendingIsOwn
<1>2. ASSUME NEW t \in Threads, NEW q \in Questions, Attempt(t, q)
      PROVE  RetrieverInv'
  <2>1. /\ Move(t, "idle", "attempted") /\ UNCHANGED <<token, pending>>
        /\ question' = [question EXCEPT ![t] = q] /\ profile' = [profile EXCEPT ![t] = NoRun]
    BY <1>2 DEF Attempt
  <2>2. token[t] = NoToken
    BY <1>0, <2>1 DEF NothingLeftBehind, Move
  <2>. QED
    BY <1>0, <2>1, <2>2
    DEF RetrieverInv, ProfileIsOwn, NothingLeftBehind, TokensDistinct, PendingIsOwn, Move
<1>3. ASSUME NEW t \in Threads, PrepareRequest(t)
      PROVE  RetrieverInv'
  <2>1. at[t] = "downstream" /\ token[t] = NoToken
    BY <1>0, <1>3 DEF PrepareRequest, NothingLeftBehind, Move
  <2>2. PICK k \in Tokens \ LiveTokens : token' = [token EXCEPT ![t] = k]
    BY <1>3, <2>1 DEF PrepareRequest
  <2>3. Move(t, "downstream", "running") /\ UNCHANGED <<pending, profile, question>>
    BY <1>3, <2>1 DEF PrepareRequest
  <2>4. pending[k] = NoRun /\ \A u \in Threads : token[u] # k
    BY <2>2 DEF LiveTokens
  <2>. QED
    BY <1>0, <2>1, <2>2, <2>3, <2>4
    DEF RetrieverInv, ProfileIsOwn, NothingLeftBehind, TokensDistinct, PendingIsOwn, Move
<1>4. ASSUME NEW t \in Threads, Retrieve(t)
      PROVE  RetrieverInv'
  <2>1. at[t] = "running" /\ token[t] \in Tokens
    BY <1>0, <1>4 DEF Retrieve, TokenInHand
  <2>2. CASE pending[token[t]] # NoRun
    BY <1>0, <1>4, <2>2, RetrieverUntouched DEF Retrieve, RetrieverInv
  <2>3. CASE pending[token[t]] = NoRun
    <3>1. /\ pending' = [pending EXCEPT ![token[t]] = question[t]]
          /\ UNCHANGED <<at, token, profile, question>>
      BY <1>4, <2>3 DEF Retrieve
    <3>. QED
      BY <1>0, <2>1, <3>1
      DEF RetrieverInv, ProfileIsOwn, NothingLeftBehind, TokensDistinct, PendingIsOwn
  <2>. QED
    BY <2>2, <2>3
<1>5. ASSUME NEW t \in Threads, TakeRun(t)
      PROVE  RetrieverInv'
  <2>1. at[t] = "returned" /\ token[t] \in Tokens
    BY <1>0, <1>5 DEF TakeRun, TokenInHand
  <2>2. /\ profile' = [profile EXCEPT ![t] = pending[token[t]]]
        /\ pending' = [pending EXCEPT ![token[t]] = NoRun]
        /\ token' = [token EXCEPT ![t] = NoToken]
        /\ UNCHANGED question
        /\ \E place : at' = [at EXCEPT ![t] = place]
    BY <1>5 DEF TakeRun, Move
  <2>. QED
    BY <1>0, <2>1, <2>2
    DEF RetrieverInv, ProfileIsOwn, NothingLeftBehind, TokensDistinct, PendingIsOwn
<1>6. ASSUME NEW t \in Threads, DiscardRun(t)
      PROVE  RetrieverInv'
  <2>1. /\ pending' = [k \in Tokens |-> IF k = token[t] THEN NoRun ELSE pending[k]]
        /\ token' = [token EXCEPT ![t] = NoToken]
        /\ at' = [at EXCEPT ![t] = "failing"]
        /\ UNCHANGED <<question, profile>>
    BY <1>6 DEF DiscardRun, Move
  <2>. QED
    BY <1>0, <2>1
    DEF RetrieverInv, ProfileIsOwn, NothingLeftBehind, TokensDistinct, PendingIsOwn
<1>7. ASSUME NEW t \in Threads,
             \/ AcquirePermit(t) \/ FindNoPermit(t) \/ RaiseCapacity(t)
             \/ CountAdmission(t) \/ CountDownstream(t)
             \/ EntrypointReturns(t) \/ EntrypointRaises(t) \/ TraceRaises(t)
             \/ CountCompleted(t) \/ CountFailed(t) \/ LeaveFlight(t) \/ ReleasePermit(t)
      PROVE  RetrieverInv'
  <2>1. /\ UNCHANGED <<token, pending, profile, question>>
        /\ \E from, to : Move(t, from, to) /\ (to \in {"running", "returned", "raised"}
                                               \/ from \notin {"running", "returned", "raised"})
    BY <1>7 DEF AcquirePermit, FindNoPermit, RaiseCapacity, CountAdmission, CountDownstream,
                EntrypointReturns, EntrypointRaises, TraceRaises, CountCompleted, CountFailed,
                LeaveFlight, ReleasePermit
  <2>. QED
    BY <2>1, RetrieverUntouched, <1>0 DEF RetrieverInv
<1>. QED
  BY <1>1, <1>2, <1>3, <1>4, <1>5, <1>6, <1>7 DEF RuntimeNext, Continue

\* The isolation of concurrent requests for any number of threads and tokens.
THEOREM Isolation == RuntimeSpec => []RetrieverInv
<1>1. RuntimeInit => RetrieverInv
  BY RuntimeAssumption
  DEF RuntimeInit, RetrieverInv, ProfileIsOwn, NothingLeftBehind, TokensDistinct, PendingIsOwn,
      RuntimeAssumption
<1>2. AdmissionInv /\ RetrieverInv /\ [RuntimeNext]_runtimeVars => RetrieverInv'
  BY RetrieverStep
<1>. QED
  BY <1>1, <1>2, Admission, PTL DEF RuntimeSpec

\* A call takes the profile retrieved for its own question, or none.
THEOREM ProfilesIsolated == RuntimeSpec => []ProfileIsOwn
BY Isolation, PTL DEF RetrieverInv

\* A call leaves neither a token nor a profile behind, whatever way it ends.
THEOREM CallsCleanUp == RuntimeSpec => []NothingLeftBehind
BY Isolation, PTL DEF RetrieverInv

===============================================================================
