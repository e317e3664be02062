----------------------------- MODULE ProcessProofs -----------------------------
(***************************************************************************)
(* Proofs about whole processes: the sharded run and, after it, the        *)
(* composition roots of the two services.                                  *)
(*                                                                         *)
(* The sharded run, for any number of orchestrators, shards and turns.  An *)
(* invariant of four layers, each inductive over those before it: the      *)
(* types; how far an orchestrator and the processes it started have come   *)
(* (Order); whose lines are in what was reported, read and merged          *)
(* (Content); and which version of the sources a process imported          *)
(* (Versions), which needs that an edit is not taken back.                 *)
(***************************************************************************)
EXTENDS ShardedRun, ServiceEntrypoints, TLAPS

ParentPc == {"idle", "fingerprinted", "ready", "waiting", "collected", "reported", "loaded", "done"}
Verdict == {"none", "refused", "failed", "died", "invalid", "completed"}
MergedRow == [by : Parent \union {"nobody"}, rows : Seq(LineType)]

ParentType ==
  [pc : ParentPc, shard : 1..(Len(Turns) + 1), before : Nat, report : ReportType,
   rows : Seq(LineType), merged : Seq(MergedRow), verdict : Verdict]

ChildPc == {"none", "imported", "checked", "writing", "loaded", "hashed", "truncated",
            "reported", "exit0", "exit1"}

ChildType ==
  [pc : ChildPc, turn : Nat, imported : Nat, before : Nat, ok : BOOLEAN,
   persisted : Seq(LineType), hash : Seq(LineType)]

Types ==
  /\ src \in Nat /\ started \subseteq Shard /\ present \subseteq Shard
  /\ rows \in [Shard -> Seq(LineType)] /\ report \in [Shard -> ReportType]
  /\ parent \in [Parent -> ParentType]
  /\ child \in [Parent -> [Shard -> ChildType]]

Busy == {"waiting", "collected", "reported", "loaded"}

\* How far an orchestrator o has come, with the processes c it started.
Ordered(o, c) ==
  /\ o.pc \in Busy => o.shard \in Shard
  /\ o.pc \in {"idle", "fingerprinted"} => o.shard = 1
  /\ \A t \in Shard : t > o.shard => c[t] = NotStarted
  /\ o.pc \in {"idle", "fingerprinted", "ready"} =>
       \A t \in Shard : t >= o.shard => c[t] = NotStarted
  /\ \A t \in Shard : t < o.shard => c[t].pc = "exit0"
  /\ o.pc \in {"collected", "reported", "loaded"} => c[o.shard].pc = "exit0"
  /\ o.verdict \in {"completed", "invalid"} => o.shard \notin Shard
  /\ o.verdict = "refused" => \A t \in Shard : c[t] = NotStarted
  /\ o.verdict # "none" => o.pc = "done"
  /\ Len(o.merged) = o.shard - 1

Order == \A p \in Parent : Ordered(parent[p], child[p])

LEMMA TypesAreTypes == Types <=> TypeOK
BY DEF Types, TypeOK, ParentType, ChildType, ParentPc, ChildPc, Verdict, MergedRow

LEMMA Shards == Len(Turns) \in Nat /\ Shard = 1..Len(Turns) /\ \A s \in Shard : Turns[s] \in Nat
BY TurnsAssumption DEF Shard

-------------------------------------------------------------------------------
(* Types.                                                                  *)

LEMMA NoReportType == NoReport \in ReportType
<1>1. <<>> \in Seq(LineType)
  OBVIOUS
<1>. QED
  BY <1>1 DEF NoReport, ReportType

LEMMA TypesInitially == Init => Types
<1>. SUFFICES ASSUME Init PROVE Types
  OBVIOUS
<1>2. <<>> \in Seq(LineType) /\ <<>> \in Seq(MergedRow)
  OBVIOUS
<1>4. Idle \in ParentType
  BY Shards, NoReportType, <1>2 DEF Idle, ParentType, ParentPc, Verdict
<1>5. NotStarted \in ChildType
  BY <1>2 DEF NotStarted, ChildType, ChildPc
<1>. QED
  BY <1>2, <1>4, <1>5, NoReportType DEF Init, Types

\* The expected lines of a shard are lines.
LEMMA LinesAreLines ==
  ASSUME NEW p \in Parent, NEW s \in Shard
  PROVE  LinesOf(p, s) \in Seq(LineType)
<1>1. \A i \in 1..Turns[s] : Line(p, i) \in LineType
  BY Shards DEF Line, LineType
<1>. QED
  BY <1>1, Shards DEF LinesOf

\* An orchestrator's step changes its own record only, and keeps it in its type.
LEMMA ParentMoves ==
  ASSUME NEW f \in [Parent -> ParentType], NEW p \in Parent, NEW pc \in ParentPc
  PROVE  [f EXCEPT ![p].pc = pc] \in [Parent -> ParentType]
<1>1. [f[p] EXCEPT !.pc = pc] \in ParentType
  BY DEF ParentType
<1>2. [f EXCEPT ![p].pc = pc]
        = [f EXCEPT ![p] = [f[p] EXCEPT !.pc = pc]]
  OBVIOUS
<1>. QED
  BY <1>1, <1>2

LEMMA ParentEnds ==
  ASSUME NEW f \in [Parent -> ParentType], NEW p \in Parent, NEW pc \in ParentPc, NEW v \in Verdict
  PROVE  [f EXCEPT ![p].pc = pc, ![p].verdict = v] \in [Parent -> ParentType]
<1>1. [f[p] EXCEPT !.pc = pc, !.verdict = v] \in ParentType
  BY DEF ParentType
<1>2. [f EXCEPT ![p].pc = pc, ![p].verdict = v]
        = [f EXCEPT ![p] = [f[p] EXCEPT !.pc = pc, !.verdict = v]]
  OBVIOUS
<1>. QED
  BY <1>1, <1>2

LEMMA ParentFingerprints ==
  ASSUME NEW f \in [Parent -> ParentType], NEW p \in Parent, NEW pc \in ParentPc, NEW b \in Nat
  PROVE  [f EXCEPT ![p].pc = pc, ![p].before = b] \in [Parent -> ParentType]
<1>1. [f[p] EXCEPT !.pc = pc, !.before = b] \in ParentType
  BY DEF ParentType
<1>2. [f EXCEPT ![p].pc = pc, ![p].before = b]
        = [f EXCEPT ![p] = [f[p] EXCEPT !.pc = pc, !.before = b]]
  OBVIOUS
<1>. QED
  BY <1>1, <1>2

LEMMA ParentReads ==
  ASSUME NEW f \in [Parent -> ParentType], NEW p \in Parent, NEW pc \in ParentPc, NEW r \in ReportType
  PROVE  [f EXCEPT ![p].pc = pc, ![p].report = r] \in [Parent -> ParentType]
<1>1. [f[p] EXCEPT !.pc = pc, !.report = r] \in ParentType
  BY DEF ParentType
<1>2. [f EXCEPT ![p].pc = pc, ![p].report = r]
        = [f EXCEPT ![p] = [f[p] EXCEPT !.pc = pc, !.report = r]]
  OBVIOUS
<1>. QED
  BY <1>1, <1>2

LEMMA ParentLoads ==
  ASSUME NEW f \in [Parent -> ParentType], NEW p \in Parent, NEW pc \in ParentPc, NEW lines \in Seq(LineType)
  PROVE  [f EXCEPT ![p].pc = pc, ![p].rows = lines] \in [Parent -> ParentType]
<1>1. [f[p] EXCEPT !.pc = pc, !.rows = lines] \in ParentType
  BY DEF ParentType
<1>2. [f EXCEPT ![p].pc = pc, ![p].rows = lines]
        = [f EXCEPT ![p] = [f[p] EXCEPT !.pc = pc, !.rows = lines]]
  OBVIOUS
<1>. QED
  BY <1>1, <1>2

\* Accepting a shard appends to what is merged.
LEMMA ParentMerges ==
  ASSUME NEW f \in [Parent -> ParentType], NEW p \in Parent, NEW s \in Shard, NEW row \in MergedRow
  PROVE  [f EXCEPT ![p].pc = "ready", ![p].shard = s + 1, ![p].merged = Append(@, row)]
           \in [Parent -> ParentType]
<1>1. s + 1 \in 1..(Len(Turns) + 1)
  BY Shards
<1>2. Append(f[p].merged, row) \in Seq(MergedRow)
  BY DEF ParentType
<1>. DEFINE n == s + 1
            m == Append(f[p].merged, row)
<1>3. [f EXCEPT ![p].pc = "ready", ![p].shard = s + 1, ![p].merged = Append(@, row)]
        = [f EXCEPT ![p] = [f[p] EXCEPT !.pc = "ready", !.shard = n, !.merged = m]]
  BY DEF ParentType
<1>. HIDE DEF n, m
<1>4. n \in 1..(Len(Turns) + 1) /\ m \in Seq(MergedRow)
  BY <1>1, <1>2 DEF n, m
<1>5. [f[p] EXCEPT !.pc = "ready", !.shard = n, !.merged = m] \in ParentType
  BY <1>4 DEF ParentType, ParentPc
<1>. QED
  BY <1>3, <1>5

\* The cases of an orchestrator's step.
LEMMA ParentTypes ==
  ASSUME Types, Order, NEW p \in Parent, ParentStep(p) \/ ParentDies(p)
  PROVE  parent' \in [Parent -> ParentType]
<1>0. /\ parent \in [Parent -> ParentType] /\ src \in Nat
      /\ \A s \in Shard : report[s] \in ReportType /\ rows[s] \in Seq(LineType)
  BY DEF Types
<1>. DEFINE own == parent[p]
<1>a. /\ own.shard \in 1..(Len(Turns) + 1) /\ own.report \in ReportType /\ own.rows \in Seq(LineType)
      /\ own.pc \in Busy => own.shard \in Shard
  BY <1>0 DEF ParentType, Order, Ordered
<1>b. ParentPc = {"idle", "fingerprinted", "ready", "waiting", "collected", "reported", "loaded", "done"}
  BY DEF ParentPc
<1>c. Verdict = {"none", "refused", "failed", "died", "invalid", "completed"}
  BY DEF Verdict
<1>1. ASSUME NEW v \in Verdict, End(p, v) PROVE parent' \in [Parent -> ParentType]
  <2>1. "done" \in ParentPc
    BY <1>b
  <2>. QED
    BY <1>0, <1>1, <2>1, ParentEnds DEF End
<1>2. ASSUME NEW pc \in ParentPc, parent' = [parent EXCEPT ![p].pc = pc]
      PROVE  parent' \in [Parent -> ParentType]
  BY <1>0, <1>2, ParentMoves
<1>f. ASSUME End(p, "failed") PROVE parent' \in [Parent -> ParentType]
  BY <1>1, <1>c, <1>f
<1>3. CASE Fingerprint(p)
  <2>1. "fingerprinted" \in ParentPc
    BY <1>b
  <2>. QED
    BY <1>0, <1>3, <2>1, ParentFingerprints DEF Fingerprint
<1>4. CASE PrepareDirectory(p) \/ SpawnShard(p) \/ Collect(p) \/ MergeShards(p) \/ ParentDies(p)
  <2>1. \/ \E pc \in {"ready", "waiting", "collected"} : parent' = [parent EXCEPT ![p].pc = pc]
        \/ \E v \in {"refused", "failed", "completed", "invalid", "died"} : End(p, v)
    BY <1>4 DEF PrepareDirectory, SpawnShard, Collect, MergeShards, ParentDies
  <2>. QED
    BY <1>1, <1>2, <1>b, <1>c, <2>1
<1>5. CASE LoadReport(p)
  <2>1. own.pc = "collected" /\ \/ End(p, "failed")
                                \/ parent' = [parent EXCEPT ![p].pc = "reported", ![p].report = report[own.shard]]
    BY <1>5 DEF LoadReport, At
  <2>2. report[own.shard] \in ReportType /\ "reported" \in ParentPc
    BY <1>0, <1>a, <1>b, <2>1 DEF Busy
  <2>. QED
    BY <1>0, <1>f, <2>1, <2>2, ParentReads
<1>6. CASE LoadRows(p)
  <2>1. own.pc = "reported" /\ \/ End(p, "failed")
                               \/ parent' = [parent EXCEPT ![p].pc = "loaded", ![p].rows = rows[own.shard]]
    BY <1>6 DEF LoadRows, At
  <2>2. rows[own.shard] \in Seq(LineType) /\ "loaded" \in ParentPc
    BY <1>0, <1>a, <1>b, <2>1 DEF Busy
  <2>. QED
    BY <1>0, <1>f, <2>1, <2>2, ParentLoads
<1>7. CASE AcceptShard(p)
  <2>. DEFINE row == [by |-> own.report.by, rows |-> own.rows]
  <2>1. own.pc = "loaded" /\ \/ End(p, "failed")
                             \/ parent' = [parent EXCEPT ![p].pc = "ready", ![p].shard = own.shard + 1,
                                             ![p].merged = Append(@, row)]
    BY <1>7 DEF AcceptShard, At
  <2>2. row \in MergedRow /\ own.shard \in Shard
    BY <1>a, <2>1 DEF Busy, MergedRow, ReportType
  <2>. HIDE DEF row
  <2>. DEFINE n == own.shard
  <2>3. n \in Shard /\ parent[p].shard = n
    BY <2>2
  <2>. HIDE DEF n, own
  <2>4. [parent EXCEPT ![p].pc = "ready", ![p].shard = n + 1, ![p].merged = Append(@, row)]
          \in [Parent -> ParentType]
    BY <1>0, <2>2, <2>3, ParentMerges
  <2>. USE DEF n, own
  <2>. QED
    BY <1>f, <2>1, <2>4
<1>. QED
  BY <1>3, <1>4, <1>5, <1>6, <1>7 DEF ParentStep

\* What a process of a shard does to the record of the processes: its own changes,
\* it had been started and had not exited, and the version it imported stays.
ChildMoves(p, s) ==
  /\ parent' = parent /\ src' = src /\ started' = started
  /\ child' \in [Parent -> [Shard -> ChildType]]
  /\ \A q \in Parent, t \in Shard : (q # p \/ t # s) => child'[q][t] = child[q][t]
  /\ child[p][s].pc \notin {"none", "exit0", "exit1"}
  /\ child'[p][s].pc # "none"
  /\ child'[p][s].imported = child[p][s].imported

\* A process's step that leaves everything but its pc alone.
LEMMA ExitMoves ==
  ASSUME NEW f \in [Parent -> [Shard -> ChildType]], NEW p \in Parent, NEW s \in Shard, NEW c \in ChildType
  PROVE  LET g == [f EXCEPT ![p] = [f[p] EXCEPT ![s] = c]] IN
         /\ g \in [Parent -> [Shard -> ChildType]]
         /\ \A q \in Parent, t \in Shard : (q # p \/ t # s) => g[q][t] = f[q][t]
         /\ g[p][s] = c
<1>1. [f[p] EXCEPT ![s] = c] \in [Shard -> ChildType]
  OBVIOUS
<1>. QED
  BY <1>1

LEMMA ChildEffects ==
  ASSUME Types, NEW p \in Parent, NEW s \in Shard, ChildStep(p, s) \/ TearTurn(p, s) \/ ChildDies(p, s)
  PROVE  ChildMoves(p, s)
<1>. DEFINE own == child[p][s]
            to(c) == child' = [child EXCEPT ![p] = [child[p] EXCEPT ![s] = c]]
            same == parent' = parent /\ src' = src /\ started' = started
<1>0. /\ child \in [Parent -> [Shard -> ChildType]] /\ src \in Nat /\ rows[s] \in Seq(LineType)
  BY DEF Types
<1>a. own \in ChildType /\ own.turn \in Nat
  BY <1>0 DEF ChildType
<1>1. ASSUME NEW c \in ChildType, to(c), own.pc \notin {"none", "exit0", "exit1"}, same,
             c.pc # "none", c.imported = own.imported
      PROVE  ChildMoves(p, s)
  BY <1>0, <1>1, ExitMoves DEF ChildMoves
<1>. HIDE DEF to
<1>2. ASSUME NEW pc \in ChildPc, Exit(p, s, pc), pc # "none", own.pc \notin {"none", "exit0", "exit1"}, same
      PROVE  ChildMoves(p, s)
  <2>1. [own EXCEPT !.pc = pc] \in ChildType
    BY <1>a DEF ChildType
  <2>2. to([own EXCEPT !.pc = pc])
    BY <1>2, <1>0 DEF to, Exit
  <2>3. [own EXCEPT !.pc = pc].pc # "none" /\ [own EXCEPT !.pc = pc].imported = own.imported
    BY <1>a, <1>2 DEF ChildType
  <2>. QED
    BY <1>1, <1>2, <2>1, <2>2, <2>3
<1>3. CASE \/ CheckObservations(p, s) \/ TruncateReport(p, s) \/ WriteReport(p, s)
           \/ ExitShard(p, s) \/ TearTurn(p, s) \/ ChildDies(p, s)
  <2>1. /\ own.pc \notin {"none", "exit0", "exit1"} /\ same
        /\ \E pc \in {"exit1", "checked", "truncated", "reported", "exit0"} : Exit(p, s, pc)
    BY <1>3 DEF CheckObservations, TruncateReport, WriteReport, ExitShard, TearTurn, ChildDies, Child, disk
  <2>. QED
    BY <1>2, <2>1 DEF ChildPc
<1>4. CASE CreateObservations(p, s)
  <2>. DEFINE c == [own EXCEPT !.pc = "writing", !.before = src]
  <2>1. to(c) /\ own.pc = "checked" /\ same
    BY <1>4, <1>0 DEF to, CreateObservations, Child
  <2>2. c \in ChildType /\ c.pc # "none" /\ c.imported = own.imported
    BY <1>a, <1>0 DEF ChildType, ChildPc
  <2>. QED
    BY <1>1, <2>1, <2>2
<1>5. CASE MeasureTurn(p, s)
  <2>. DEFINE c == [own EXCEPT !.turn = own.turn + 1]
  <2>1. to(c) /\ own.pc = "writing" /\ same
    BY <1>5, <1>0 DEF to, MeasureTurn, Child
  <2>2. c \in ChildType /\ c.pc # "none" /\ c.imported = own.imported
    BY <1>a, <2>1 DEF ChildType, ChildPc
  <2>. QED
    BY <1>1, <2>1, <2>2
<1>6. CASE LoadPersisted(p, s)
  <2>. DEFINE ok == Guards(p, s)
              c == [own EXCEPT !.pc = "loaded", !.ok = ok, !.persisted = rows[s]]
  <2>1. own.pc = "writing" /\ same /\ (Exit(p, s, "exit1") \/ to(c))
    BY <1>6, <1>0 DEF to, LoadPersisted, Child, disk
  <2>2. ok \in BOOLEAN
    BY Zenon DEF Guards
  <2>. HIDE DEF ok
  <2>3. c \in ChildType /\ c.pc # "none" /\ c.imported = own.imported
    BY <1>a, <1>0, <2>2 DEF ChildType, ChildPc
  <2>4. "exit1" \in ChildPc
    BY DEF ChildPc
  <2>. QED
    BY <1>1, <1>2, <2>1, <2>3, <2>4
<1>7. CASE HashObservations(p, s)
  <2>. DEFINE c == [own EXCEPT !.pc = "hashed", !.hash = rows[s]]
  <2>1. to(c) /\ own.pc = "loaded" /\ same
    BY <1>7, <1>0 DEF to, HashObservations, Child, disk
  <2>2. c \in ChildType /\ c.pc # "none" /\ c.imported = own.imported
    BY <1>a, <1>0 DEF ChildType, ChildPc
  <2>. QED
    BY <1>1, <2>1, <2>2
<1>. QED
  BY <1>3, <1>4, <1>5, <1>6, <1>7 DEF ChildStep

\* What an orchestrator's step does to the others: it changes its own record, and
\* the only process it touches is the one it starts.
ParentMovesOnly(p) ==
  /\ \A q \in Parent \ {p} : parent'[q] = parent[q] /\ child'[q] = child[q]
  /\ src' = src /\ rows' = rows /\ present' = present /\ report' = report
  /\ SpawnShard(p) \/ (child' = child /\ started' = started)

LEMMA ParentEffects ==
  ASSUME Types, NEW p \in Parent, ParentStep(p) \/ ParentDies(p)
  PROVE  ParentMovesOnly(p)
<1>0. parent \in [Parent -> ParentType] /\ child \in [Parent -> [Shard -> ChildType]]
  BY DEF Types
<1>1. CASE Fingerprint(p) \/ LoadReport(p) \/ LoadRows(p) \/ AcceptShard(p)
  BY <1>0, <1>1 DEF Fingerprint, LoadReport, LoadRows, AcceptShard, ParentMovesOnly, End, disk
<1>2. CASE PrepareDirectory(p) \/ Collect(p) \/ MergeShards(p) \/ ParentDies(p)
  BY <1>0, <1>2 DEF PrepareDirectory, Collect, MergeShards, ParentDies, ParentMovesOnly, End, disk
<1>3. CASE SpawnShard(p)
  BY <1>0, <1>3 DEF SpawnShard, ParentMovesOnly
<1>. QED
  BY <1>1, <1>2, <1>3 DEF ParentStep

\* The process an orchestrator starts.
Started == [NotStarted EXCEPT !.pc = "imported", !.imported = src]

LEMMA SpawnEffects ==
  ASSUME Types, Order, NEW p \in Parent, SpawnShard(p)
  PROVE  LET s == parent[p].shard IN
         /\ parent[p].pc = "ready" /\ s \in Shard /\ child[p][s] = NotStarted
         /\ parent'[p] = [parent[p] EXCEPT !.pc = "waiting"]
         /\ child' \in [Parent -> [Shard -> ChildType]]
         /\ child'[p][s] = Started
         /\ \A t \in Shard \ {s} : child'[p][t] = child[p][t]
         /\ started' = started \union {s}
<1>. DEFINE s == parent[p].shard
<1>0. parent \in [Parent -> ParentType] /\ child \in [Parent -> [Shard -> ChildType]] /\ src \in Nat
  BY DEF Types
<1>1. parent[p].pc = "ready" /\ s \in Shard /\ started' = started \union {s}
  BY DEF SpawnShard, At
<1>2. child[p][s] = NotStarted
  BY <1>1, <1>0, Shards DEF Order, Ordered
<1>3. parent'[p] = [parent[p] EXCEPT !.pc = "waiting"]
  BY <1>0 DEF SpawnShard
<1>4. child' = [child EXCEPT ![p] = [child[p] EXCEPT ![s] = [child[p][s] EXCEPT !.pc = "imported", !.imported = src]]]
  BY <1>0, <1>1 DEF SpawnShard
<1>5. Started \in ChildType
  <2>1. <<>> \in Seq(LineType)
    OBVIOUS
  <2>. QED
    BY <1>0, <2>1 DEF Started, NotStarted, ChildType, ChildPc
<1>6. [child[p][s] EXCEPT !.pc = "imported", !.imported = src] = Started
  BY <1>2 DEF Started, NotStarted
<1>. HIDE DEF s
<1>7. child' = [child EXCEPT ![p] = [child[p] EXCEPT ![s] = Started]]
  BY <1>4, <1>6
<1>8. /\ child' \in [Parent -> [Shard -> ChildType]] /\ child'[p][s] = Started
      /\ \A t \in Shard \ {s} : child'[p][t] = child[p][t]
  BY <1>0, <1>1, <1>5, <1>7, ExitMoves
<1>. USE DEF s
<1>. QED
  BY <1>1, <1>2, <1>3, <1>8

\* The files keep their types.
LEMMA DiskTypes ==
  ASSUME Types, NEW p \in Parent, NEW s \in Shard, ChildStep(p, s) \/ TearTurn(p, s) \/ ChildDies(p, s)
  PROVE  present' \subseteq Shard /\ rows' \in [Shard -> Seq(LineType)] /\ report' \in [Shard -> ReportType]
<1>0. /\ child[p][s] \in ChildType /\ present \subseteq Shard
      /\ rows \in [Shard -> Seq(LineType)] /\ report \in [Shard -> ReportType]
  BY DEF Types
<1>1. CASE \/ CheckObservations(p, s) \/ LoadPersisted(p, s) \/ HashObservations(p, s)
           \/ ExitShard(p, s) \/ ChildDies(p, s)
  BY <1>0, <1>1 DEF CheckObservations, LoadPersisted, HashObservations, ExitShard, ChildDies, disk
<1>2. CASE CreateObservations(p, s)
  <2>1. <<>> \in Seq(LineType)
    OBVIOUS
  <2>. QED
    BY <1>0, <1>2, <2>1 DEF CreateObservations
<1>3. CASE MeasureTurn(p, s) \/ TearTurn(p, s)
  <2>. DEFINE i == child[p][s].turn
  <2>1. Line(p, i) \in LineType /\ TornLine(p, i) \in LineType
    BY <1>0 DEF Line, TornLine, LineType, ChildType
  <2>2. PICK line \in LineType : rows' = [rows EXCEPT ![s] = Append(@, line)]
    BY <1>3, <2>1 DEF MeasureTurn, TearTurn
  <2>3. rows' \in [Shard -> Seq(LineType)]
    BY <1>0, <2>2
  <2>. QED
    BY <1>0, <1>3, <2>3 DEF MeasureTurn, TearTurn
<1>4. CASE TruncateReport(p, s)
  BY <1>0, <1>4, NoReportType DEF TruncateReport
<1>5. CASE WriteReport(p, s)
  <2>1. ReportOf(p, s) \in ReportType
    BY <1>0 DEF ReportOf, ReportType, ChildType
  <2>. QED
    BY <1>0, <1>5, <2>1 DEF WriteReport
<1>. QED
  BY <1>1, <1>2, <1>3, <1>4, <1>5 DEF ChildStep

LEMMA TypesStep == Types /\ Order /\ [Next]_vars => Types'
<1>. SUFFICES ASSUME Types, Order, [Next]_vars PROVE Types'
  OBVIOUS
<1>1. CASE EditSources
  BY <1>1, EditsAssumption DEF EditSources, Types, disk
<1>2. ASSUME NEW p \in Parent, ParentStep(p) \/ ParentDies(p) PROVE Types'
  <2>1. parent' \in [Parent -> ParentType] /\ ParentMovesOnly(p)
    BY <1>2, ParentTypes, ParentEffects
  <2>2. CASE SpawnShard(p)
    BY <2>1, <2>2, SpawnEffects DEF ParentMovesOnly, Types
  <2>. QED
    BY <2>1, <2>2 DEF ParentMovesOnly, Types
<1>3. ASSUME NEW p \in Parent, NEW s \in Shard, ChildStep(p, s) \/ TearTurn(p, s) \/ ChildDies(p, s)
      PROVE  Types'
  BY <1>3, ChildEffects, DiskTypes DEF ChildMoves, Types
<1>4. CASE UNCHANGED vars
  BY <1>4 DEF vars, Types
<1>. QED
  BY <1>1, <1>2, <1>3, <1>4 DEF Next

-------------------------------------------------------------------------------
(* Order.                                                                  *)

LEMMA OrderInitially == Init => Order
<1>. SUFFICES ASSUME Init, NEW p \in Parent PROVE Ordered(parent[p], child[p])
  BY DEF Order
<1>1. parent[p] = Idle /\ \A t \in Shard : child[p][t] = NotStarted
  BY DEF Init
<1>2. /\ Idle.pc = "idle" /\ Idle.shard = 1 /\ Idle.verdict = "none" /\ Len(Idle.merged) = 0
  BY DEF Idle
<1>. QED
  BY <1>1, <1>2, Shards DEF Ordered, Busy

\* An orchestrator's own step, the start of a process apart.
LEMMA OrderOwn ==
  ASSUME Types, Order, NEW p \in Parent, ParentStep(p) \/ ParentDies(p), child' = child, ~SpawnShard(p)
  PROVE  Ordered(parent'[p], child[p])
<1>. DEFINE o == parent[p]
            c == child[p]
<1>0. /\ parent \in [Parent -> ParentType] /\ o \in ParentType /\ Ordered(o, c)
      /\ o.shard \in 1..(Len(Turns) + 1)
  BY DEF Types, Order, ParentType
<1>a. ASSUME NEW v \in {"refused", "failed", "died", "completed", "invalid"}, End(p, v),
             v \in {"completed", "invalid"} => o.shard \notin Shard,
             v = "refused" => \A t \in Shard : c[t] = NotStarted
      PROVE  Ordered(parent'[p], c)
  <2>1. parent'[p] = [o EXCEPT !.pc = "done", !.verdict = v]
    BY <1>0, <1>a DEF End
  <2>2. /\ parent'[p].pc = "done" /\ parent'[p].verdict = v
        /\ parent'[p].shard = o.shard /\ parent'[p].merged = o.merged
    BY <1>0, <2>1 DEF ParentType
  <2>. QED
    BY <1>0, <1>a, <2>2, Shards DEF Ordered, Busy
<1>b. ASSUME NEW pc \in {"fingerprinted", "ready", "collected", "reported", "loaded"},
             parent'[p].pc = pc, parent'[p].verdict = o.verdict,
             parent'[p].shard = o.shard, parent'[p].merged = o.merged,
             o.pc # "done", pc \in Busy => o.pc \in Busy,
             pc = "fingerprinted" => o.pc = "idle", pc = "ready" => o.pc = "fingerprinted",
             pc \in {"collected", "reported", "loaded"} => c[o.shard].pc = "exit0"
      PROVE  Ordered(parent'[p], c)
  BY <1>0, <1>b, Shards DEF Ordered, Busy
<1>1. CASE Fingerprint(p)
  <2>1. o.pc = "idle" /\ parent'[p] = [o EXCEPT !.pc = "fingerprinted", !.before = src]
    BY <1>0, <1>1 DEF Fingerprint, At
  <2>2. /\ parent'[p].pc = "fingerprinted" /\ parent'[p].verdict = o.verdict
        /\ parent'[p].shard = o.shard /\ parent'[p].merged = o.merged
    BY <1>0, <2>1 DEF ParentType
  <2>. QED
    BY <1>b, <2>1, <2>2 DEF Busy
<1>2. CASE PrepareDirectory(p)
  <2>1. o.pc = "fingerprinted" /\ (End(p, "refused") \/ parent'[p] = [o EXCEPT !.pc = "ready"])
    BY <1>0, <1>2 DEF PrepareDirectory, At
  <2>2. \A t \in Shard : c[t] = NotStarted
    BY <1>0, <2>1, Shards DEF Ordered
  <2>3. CASE parent'[p] = [o EXCEPT !.pc = "ready"]
    <3>1. /\ parent'[p].pc = "ready" /\ parent'[p].verdict = o.verdict
          /\ parent'[p].shard = o.shard /\ parent'[p].merged = o.merged
      BY <1>0, <2>3 DEF ParentType
    <3>. QED
      BY <1>b, <2>1, <3>1 DEF Busy
  <2>. QED
    BY <1>a, <2>1, <2>2, <2>3
<1>3. CASE Collect(p)
  <2>1. /\ o.pc = "waiting"
        /\ End(p, "failed") \/ (parent'[p] = [o EXCEPT !.pc = "collected"] /\ c[o.shard].pc = "exit0")
    BY <1>0, <1>3 DEF Collect, At
  <2>2. CASE parent'[p] = [o EXCEPT !.pc = "collected"] /\ c[o.shard].pc = "exit0"
    <3>1. /\ parent'[p].pc = "collected" /\ parent'[p].verdict = o.verdict
          /\ parent'[p].shard = o.shard /\ parent'[p].merged = o.merged
      BY <1>0, <2>2 DEF ParentType
    <3>. QED
      BY <1>b, <2>1, <2>2, <3>1 DEF Busy
  <2>. QED
    BY <1>a, <2>1, <2>2
<1>4. CASE LoadReport(p)
  <2>1. /\ o.pc = "collected" /\ c[o.shard].pc = "exit0"
        /\ End(p, "failed") \/ parent'[p] = [o EXCEPT !.pc = "reported", !.report = report[o.shard]]
    BY <1>0, <1>4 DEF LoadReport, At, Ordered
  <2>2. CASE parent'[p] = [o EXCEPT !.pc = "reported", !.report = report[o.shard]]
    <3>1. /\ parent'[p].pc = "reported" /\ parent'[p].verdict = o.verdict
          /\ parent'[p].shard = o.shard /\ parent'[p].merged = o.merged
      BY <1>0, <2>2 DEF ParentType
    <3>. QED
      BY <1>b, <2>1, <2>2, <3>1 DEF Busy
  <2>. QED
    BY <1>a, <2>1, <2>2
<1>5. CASE LoadRows(p)
  <2>1. /\ o.pc = "reported" /\ c[o.shard].pc = "exit0"
        /\ End(p, "failed") \/ parent'[p] = [o EXCEPT !.pc = "loaded", !.rows = rows[o.shard]]
    BY <1>0, <1>5 DEF LoadRows, At, Ordered
  <2>2. CASE parent'[p] = [o EXCEPT !.pc = "loaded", !.rows = rows[o.shard]]
    <3>1. /\ parent'[p].pc = "loaded" /\ parent'[p].verdict = o.verdict
          /\ parent'[p].shard = o.shard /\ parent'[p].merged = o.merged
      BY <1>0, <2>2 DEF ParentType
    <3>. QED
      BY <1>b, <2>1, <2>2, <3>1 DEF Busy
  <2>. QED
    BY <1>a, <2>1, <2>2
<1>6. CASE AcceptShard(p)
  <2>. DEFINE row == [by |-> o.report.by, rows |-> o.rows]
  <2>1. /\ o.pc = "loaded" /\ c[o.shard].pc = "exit0" /\ o.shard \in Shard
        /\ o.verdict = "none" /\ Len(o.merged) = o.shard - 1
        /\ \A t \in Shard : t > o.shard => c[t] = NotStarted
        /\ \A t \in Shard : t < o.shard => c[t].pc = "exit0"
        /\ \/ End(p, "failed")
           \/ parent'[p] = [o EXCEPT !.pc = "ready", !.shard = o.shard + 1, !.merged = Append(o.merged, row)]
    BY <1>0, <1>6 DEF AcceptShard, At, Ordered, Busy
  <2>2. CASE parent'[p] = [o EXCEPT !.pc = "ready", !.shard = o.shard + 1, !.merged = Append(o.merged, row)]
    <3>1. /\ parent'[p].pc = "ready" /\ parent'[p].verdict = "none"
          /\ parent'[p].shard = o.shard + 1 /\ parent'[p].merged = Append(o.merged, row)
      BY <1>0, <2>1, <2>2 DEF ParentType
    <3>2. Len(Append(o.merged, row)) = Len(o.merged) + 1 /\ Len(o.merged) \in Nat
      BY <1>0 DEF ParentType
    <3>. HIDE DEF row
    <3>. QED
      BY <2>1, <3>1, <3>2, Shards DEF Ordered, Busy
  <2>. QED
    BY <1>a, <2>1, <2>2
<1>7. CASE MergeShards(p)
  <2>1. o.shard \notin Shard /\ (End(p, "completed") \/ End(p, "invalid"))
    BY <1>7 DEF MergeShards
  <2>. QED
    BY <1>a, <2>1
<1>8. CASE ParentDies(p)
  BY <1>a, <1>8 DEF ParentDies
<1>. QED
  BY <1>1, <1>2, <1>3, <1>4, <1>5, <1>6, <1>7, <1>8 DEF ParentStep

LEMMA OrderStep == Types /\ Order /\ [Next]_vars => Order'
<1>. SUFFICES ASSUME Types, Order, [Next]_vars PROVE Order'
  OBVIOUS
<1>0. parent \in [Parent -> ParentType] /\ child \in [Parent -> [Shard -> ChildType]]
  BY DEF Types
<1>1. CASE EditSources \/ UNCHANGED vars
  BY <1>1 DEF EditSources, vars, Order
<1>2. ASSUME NEW p \in Parent, ParentStep(p) \/ ParentDies(p), NEW q \in Parent
      PROVE  Ordered(parent'[q], child'[q])
  <2>1. ParentMovesOnly(p)
    BY <1>2, ParentEffects
  <2>2. CASE q # p
    BY <2>1, <2>2 DEF ParentMovesOnly, Order
  <2>3. CASE q = p /\ ~SpawnShard(p)
    BY <1>2, <2>1, <2>3, OrderOwn DEF ParentMovesOnly
  <2>4. CASE q = p /\ SpawnShard(p)
    <3>. DEFINE o == parent[p]
    <3>1. /\ o.pc = "ready" /\ o.shard \in Shard
          /\ parent'[p] = [o EXCEPT !.pc = "waiting"] /\ o \in ParentType
          /\ \A t \in Shard \ {o.shard} : child'[p][t] = child[p][t]
      BY <1>0, <2>4, SpawnEffects
    <3>2. /\ parent'[p].pc = "waiting" /\ parent'[p].verdict = o.verdict
          /\ parent'[p].shard = o.shard /\ parent'[p].merged = o.merged
      BY <3>1 DEF ParentType
    <3>3. Ordered(o, child[p])
      BY DEF Order
    <3>. HIDE DEF o
    <3>. QED
      BY <2>4, <3>1, <3>2, <3>3, Shards DEF Ordered, Busy
  <2>. QED
    BY <2>2, <2>3, <2>4
<1>3. ASSUME NEW p \in Parent, NEW s \in Shard, ChildStep(p, s) \/ TearTurn(p, s) \/ ChildDies(p, s),
             NEW q \in Parent
      PROVE  Ordered(parent'[q], child'[q])
  <2>1. ChildMoves(p, s)
    BY <1>3, ChildEffects
  <2>2. Ordered(parent[q], child[q]) /\ parent'[q] = parent[q] /\ parent[q].shard \in 1..(Len(Turns) + 1)
    BY <1>0, <2>1 DEF Order, ChildMoves, ParentType
  <2>3. \A t \in Shard : \/ child'[q][t] = child[q][t]
                         \/ child[q][t] # NotStarted /\ child[q][t].pc # "exit0"
    BY <2>1 DEF ChildMoves, NotStarted
  <2>. QED
    BY <2>2, <2>3, Shards DEF Ordered, Busy
<1>. QED
  BY <1>1, <1>2, <1>3 DEF Next, Order

\* Every variable stays in its type (TypeOK).
THEOREM TypesStay == Spec => []TypeOK
<1>1. Init => Types /\ Order
  BY TypesInitially, OrderInitially
<1>2. Types /\ Order /\ [Next]_vars => Types' /\ Order'
  BY TypesStep, OrderStep
<1>. QED
  BY <1>1, <1>2, TypesAreTypes, PTL DEF Spec

\* A shard that failed or was killed ends its run (FailureIsFinal): whatever
\* happens, no orchestrator goes past a process that did not exit with zero.
THEOREM FailureEndsRun == Spec => []FailureIsFinal
<1>1. Init => Types /\ Order
  BY TypesInitially, OrderInitially
<1>2. Types /\ Order /\ [Next]_vars => Types' /\ Order'
  BY TypesStep, OrderStep
<1>3. Types /\ Order => FailureIsFinal
  <2>. SUFFICES ASSUME Types, Order, NEW p \in Parent, NEW s \in Shard, child[p][s].pc = "exit1"
                PROVE  /\ parent[p].verdict \in {"none", "failed", "died"} /\ parent[p].shard = s
                       /\ \A t \in Shard : t > s => child[p][t] = NotStarted
    BY DEF FailureIsFinal
  <2>1. /\ parent[p] \in ParentType /\ Ordered(parent[p], child[p])
        /\ parent[p].shard \in 1..(Len(Turns) + 1)
        /\ parent[p].verdict \in {"none", "refused", "failed", "died", "invalid", "completed"}
    BY DEF Types, Order, ParentType, Verdict
  <2>2. NotStarted.pc = "none"
    BY DEF NotStarted
  <2>. QED
    BY <2>1, <2>2, Shards DEF Ordered
<1>. QED
  BY <1>1, <1>2, <1>3, PTL DEF Spec

-------------------------------------------------------------------------------
(* Content.                                                                *)

\* A record of process by is right for shard s.
Measures(by, lines, s) == by \in Parent /\ lines = LinesOf(by, s)

Measured == \A p \in Parent, s \in Shard : child[p][s].ok => child[p][s].persisted = LinesOf(p, s)

Reported == \A s \in Shard : report[s].ok => Measures(report[s].by, report[s].persisted, s)

RightReport(o) ==
  o.pc \in {"reported", "loaded"} /\ o.report.ok => Measures(o.report.by, o.report.persisted, o.shard)

RightRows(merged) == \A s \in DOMAIN merged : Measures(merged[s].by, merged[s].rows, s)

ReadBack == \A p \in Parent : RightReport(parent[p])

Merged == \A p \in Parent : RightRows(parent[p].merged)

Content == Measured /\ Reported /\ ReadBack /\ Merged

LEMMA ContentInitially == Init => Content
<1>. SUFFICES ASSUME Init PROVE Content
  OBVIOUS
<1>1. Measured /\ Reported
  BY DEF Init, Measured, Reported, NotStarted, NoReport
<1>2. \A p \in Parent : parent[p].pc = "idle" /\ parent[p].merged = <<>>
  BY DEF Init, Idle
<1>. QED
  BY <1>1, <1>2 DEF Content, ReadBack, Merged, RightReport, RightRows

\* What the steps of a shard's process leave in its record and in its report.
LEMMA ContentOfChild ==
  ASSUME Types, Measured, Reported, NEW p \in Parent, NEW s \in Shard,
         ChildStep(p, s) \/ TearTurn(p, s) \/ ChildDies(p, s)
  PROVE  Measured' /\ Reported'
<1>. DEFINE own == child[p][s]
<1>0. /\ child \in [Parent -> [Shard -> ChildType]] /\ own \in ChildType
      /\ report \in [Shard -> ReportType]
  BY DEF Types
<1>1. ASSUME child'[p][s].ok => child'[p][s].persisted = LinesOf(p, s) PROVE Measured'
  <2>1. ChildMoves(p, s)
    BY ChildEffects
  <2>. QED
    BY <1>1, <2>1 DEF Measured, ChildMoves
<1>2. ASSUME NEW pc, Exit(p, s, pc) PROVE Measured'
  <2>1. child'[p][s] = [own EXCEPT !.pc = pc]
    BY <1>0, <1>2 DEF Exit
  <2>2. child'[p][s].ok = own.ok /\ child'[p][s].persisted = own.persisted
    BY <1>0, <2>1 DEF ChildType
  <2>. QED
    BY <1>1, <2>2 DEF Measured
<1>3. ASSUME report' = report PROVE Reported'
  BY <1>3 DEF Reported
<1>4. CASE CheckObservations(p, s) \/ ExitShard(p, s) \/ TearTurn(p, s) \/ ChildDies(p, s)
  BY <1>2, <1>3, <1>4 DEF CheckObservations, ExitShard, TearTurn, ChildDies, disk
<1>5. CASE CreateObservations(p, s) \/ MeasureTurn(p, s) \/ HashObservations(p, s)
  <2>1. child'[p][s].ok = own.ok /\ child'[p][s].persisted = own.persisted /\ report' = report
    BY <1>0, <1>5 DEF CreateObservations, MeasureTurn, HashObservations, ChildType, disk
  <2>. QED
    BY <1>1, <1>3, <2>1 DEF Measured
<1>6. CASE LoadPersisted(p, s)
  <2>1. CASE Exit(p, s, "exit1")
    BY <1>2, <1>3, <1>6, <2>1 DEF LoadPersisted, disk
  <2>2. CASE child' = [child EXCEPT ![p][s].pc = "loaded", ![p][s].ok = Guards(p, s),
                                    ![p][s].persisted = rows[s]]
    <3>1. child'[p][s].ok = Guards(p, s) /\ child'[p][s].persisted = rows[s]
      BY <1>0, <2>2 DEF ChildType
    <3>2. Guards(p, s) => rows[s] = LinesOf(p, s)
      BY DEF Guards
    <3>. QED
      BY <1>1, <1>3, <1>6, <3>1, <3>2 DEF LoadPersisted, disk
  <2>. QED
    BY <1>6, <2>1, <2>2 DEF LoadPersisted
<1>7. CASE TruncateReport(p, s)
  <2>1. \A t \in Shard : report'[t] = report[t] \/ ~report'[t].ok
    BY <1>0, <1>7 DEF TruncateReport, NoReport
  <2>2. Reported'
    BY <2>1 DEF Reported
  <2>. QED
    BY <1>2, <1>7, <2>2 DEF TruncateReport
<1>8. CASE WriteReport(p, s)
  <2>1. report' = [report EXCEPT ![s] = ReportOf(p, s)]
    BY <1>8 DEF WriteReport
  <2>2. ReportOf(p, s).by = p /\ ReportOf(p, s).ok = own.ok /\ ReportOf(p, s).persisted = own.persisted
    BY DEF ReportOf
  <2>3. Reported'
    <3>1. report'[s].ok => Measures(report'[s].by, report'[s].persisted, s)
      BY <1>0, <2>1, <2>2 DEF Measured, Measures
    <3>2. \A t \in Shard \ {s} : report'[t] = report[t]
      BY <1>0, <2>1
    <3>. QED
      BY <3>1, <3>2 DEF Reported
  <2>. QED
    BY <1>2, <1>8, <2>3 DEF WriteReport
<1>. QED
  BY <1>4, <1>5, <1>6, <1>7, <1>8 DEF ChildStep

\* What the steps of an orchestrator read and merge.
LEMMA ContentOfParent ==
  ASSUME Types, Order, Content, NEW p \in Parent, ParentStep(p) \/ ParentDies(p)
  PROVE  Content'
<1>. DEFINE o == parent[p]
<1>0. /\ parent \in [Parent -> ParentType] /\ o \in ParentType /\ Ordered(o, child[p])
      /\ child \in [Parent -> [Shard -> ChildType]] /\ o.merged \in Seq(MergedRow)
  BY DEF Types, Order, ParentType
<1>m. ParentMovesOnly(p)
  BY ParentEffects
<1>1. Measured' /\ Reported'
  <2>1. report' = report
    BY <1>m DEF ParentMovesOnly
  <2>2. CASE SpawnShard(p)
    <3>1. \A t \in Shard : child'[p][t] = child[p][t] \/ child'[p][t] = Started
      BY <2>2, SpawnEffects
    <3>2. ~Started.ok
      BY DEF Started, NotStarted
    <3>. QED
      BY <1>m, <2>1, <3>1, <3>2 DEF ParentMovesOnly, Content, Measured, Reported
  <2>3. CASE ~SpawnShard(p)
    BY <1>m, <2>1, <2>3 DEF ParentMovesOnly, Content, Measured, Reported
  <2>. QED
    BY <2>2, <2>3
<1>. SUFFICES ReadBack' /\ Merged'
  BY <1>1 DEF Content
<1>2. ASSUME parent'[p].merged = o.merged, parent'[p].pc \notin {"reported", "loaded"}
      PROVE  ReadBack' /\ Merged'
  BY <1>m, <1>2 DEF ParentMovesOnly, Content, ReadBack, Merged, RightReport
<1>e. ASSUME NEW v, End(p, v) PROVE ReadBack' /\ Merged'
  <2>1. parent'[p] = [o EXCEPT !.pc = "done", !.verdict = v]
    BY <1>0, <1>e DEF End
  <2>2. parent'[p].merged = o.merged /\ parent'[p].pc = "done"
    BY <1>0, <2>1 DEF ParentType
  <2>. QED
    BY <1>2, <2>2
<1>3. CASE Fingerprint(p) \/ PrepareDirectory(p) \/ SpawnShard(p) \/ Collect(p) \/ MergeShards(p) \/ ParentDies(p)
  <2>1. \/ parent'[p] = [o EXCEPT !.pc = "fingerprinted", !.before = src]
        \/ \E pc \in {"ready", "waiting", "collected"} : parent'[p] = [o EXCEPT !.pc = pc]
        \/ \E v \in Verdict : End(p, v)
    BY <1>0, <1>3 DEF Fingerprint, PrepareDirectory, SpawnShard, Collect, MergeShards, ParentDies, Verdict
  <2>2. CASE ~\E v \in Verdict : End(p, v)
    <3>1. parent'[p].merged = o.merged /\ parent'[p].pc \in {"fingerprinted", "ready", "waiting", "collected"}
      BY <1>0, <2>1, <2>2 DEF ParentType
    <3>. QED
      BY <1>2, <3>1
  <2>. QED
    BY <1>e, <2>2
<1>4. CASE LoadReport(p)
  <2>1. o.pc = "collected" /\ o.shard \in Shard
        /\ (End(p, "failed") \/ parent'[p] = [o EXCEPT !.pc = "reported", !.report = report[o.shard]])
    BY <1>0, <1>4 DEF LoadReport, At, Ordered, Busy
  <2>2. CASE parent'[p] = [o EXCEPT !.pc = "reported", !.report = report[o.shard]]
    <3>1. /\ parent'[p].merged = o.merged /\ parent'[p].shard = o.shard
          /\ parent'[p].report = report[o.shard]
      BY <1>0, <2>2 DEF ParentType
    <3>2. report[o.shard].ok => Measures(report[o.shard].by, report[o.shard].persisted, o.shard)
      BY <2>1 DEF Content, Reported
    <3>. QED
      BY <1>m, <3>1, <3>2 DEF ParentMovesOnly, Content, ReadBack, Merged, RightReport
  <2>. QED
    BY <1>e, <2>1, <2>2
<1>5. CASE LoadRows(p)
  <2>1. o.pc = "reported"
        /\ (End(p, "failed") \/ parent'[p] = [o EXCEPT !.pc = "loaded", !.rows = rows[o.shard]])
    BY <1>0, <1>5 DEF LoadRows, At
  <2>2. CASE parent'[p] = [o EXCEPT !.pc = "loaded", !.rows = rows[o.shard]]
    <3>1. parent'[p].merged = o.merged /\ parent'[p].shard = o.shard /\ parent'[p].report = o.report
      BY <1>0, <2>2 DEF ParentType
    <3>. QED
      BY <1>m, <2>1, <3>1 DEF ParentMovesOnly, Content, ReadBack, Merged, RightReport
  <2>. QED
    BY <1>e, <2>1, <2>2
<1>6. CASE AcceptShard(p)
  <2>. DEFINE row == [by |-> o.report.by, rows |-> o.rows]
  <2>1. /\ o.pc = "loaded" /\ Len(o.merged) = o.shard - 1 /\ o.shard \in Shard
        /\ \/ End(p, "failed")
           \/ /\ Acceptable(p)
              /\ parent'[p] = [o EXCEPT !.pc = "ready", !.shard = o.shard + 1, !.merged = Append(o.merged, row)]
    BY <1>0, <1>6 DEF AcceptShard, At, Ordered, Busy
  <2>2. CASE /\ Acceptable(p)
             /\ parent'[p] = [o EXCEPT !.pc = "ready", !.shard = o.shard + 1, !.merged = Append(o.merged, row)]
    <3>1. Measures(row.by, row.rows, o.shard)
      BY <2>1, <2>2 DEF Acceptable, Content, ReadBack, RightReport, Measures
    <3>. HIDE DEF row
    <3>2. parent'[p].merged = Append(o.merged, row) /\ parent'[p].pc = "ready"
      BY <1>0, <2>2 DEF ParentType
    <3>3. Len(o.merged) + 1 = o.shard
      BY <2>1, <1>0, Shards
    <3>4. ASSUME NEW s \in DOMAIN parent'[p].merged
          PROVE  Measures(parent'[p].merged[s].by, parent'[p].merged[s].rows, s)
      <4>1. s \in 1..(Len(o.merged) + 1)
        BY <1>0, <3>2
      <4>2. CASE s = Len(o.merged) + 1
        BY <1>0, <3>1, <3>2, <3>3, <4>2
      <4>3. CASE s \in 1..Len(o.merged)
        <5>1. s \in DOMAIN o.merged /\ parent'[p].merged[s] = o.merged[s]
          BY <1>0, <3>2, <4>3
        <5>. QED
          BY <5>1 DEF Content, Merged, RightRows
      <4>4. Len(o.merged) \in Nat
        BY <1>0
      <4>5. s = Len(o.merged) + 1 \/ s \in 1..Len(o.merged)
        BY <4>1, <4>4
      <4>. QED
        BY <4>2, <4>3, <4>5
    <3>. QED
      BY <1>m, <3>2, <3>4 DEF ParentMovesOnly, Content, ReadBack, Merged, RightReport, RightRows
  <2>. QED
    BY <1>e, <2>1, <2>2
<1>. QED
  BY <1>3, <1>4, <1>5, <1>6 DEF ParentStep

LEMMA ContentStep == Types /\ Order /\ Content /\ [Next]_vars => Content'
<1>. SUFFICES ASSUME Types, Order, Content, [Next]_vars PROVE Content'
  OBVIOUS
<1>1. CASE EditSources \/ UNCHANGED vars
  BY <1>1 DEF EditSources, vars, disk, Content, Measured, Reported, ReadBack, Merged
<1>2. ASSUME NEW p \in Parent, ParentStep(p) \/ ParentDies(p) PROVE Content'
  BY <1>2, ContentOfParent
<1>3. ASSUME NEW p \in Parent, NEW s \in Shard, ChildStep(p, s) \/ TearTurn(p, s) \/ ChildDies(p, s)
      PROVE  Content'
  <2>1. parent' = parent
    BY <1>3, ChildEffects DEF ChildMoves
  <2>2. ReadBack' /\ Merged'
    BY <2>1 DEF Content, ReadBack, Merged
  <2>. QED
    BY <1>3, <2>2, ContentOfChild DEF Content
<1>. QED
  BY <1>1, <1>2, <1>3 DEF Next

\* What is merged for a shard is what one process measured for it
\* (MergedIsOneProcess), whoever else wrote to the files and whatever was killed.
THEOREM MergedFromOneProcess == Spec => []MergedIsOneProcess
<1>1. Init => Types /\ Order /\ Content
  BY TypesInitially, OrderInitially, ContentInitially
<1>2. Types /\ Order /\ Content /\ [Next]_vars => Types' /\ Order' /\ Content'
  BY TypesStep, OrderStep, ContentStep
<1>3. Types /\ Order /\ Content => MergedIsOneProcess
  <2>. SUFFICES ASSUME Types, Order, Content, NEW p \in Parent, NEW s \in DOMAIN parent[p].merged
                PROVE  /\ s \in Shard /\ parent[p].merged[s].by \in Parent
                       /\ parent[p].merged[s].rows = LinesOf(parent[p].merged[s].by, s)
    BY DEF MergedIsOneProcess
  <2>1. /\ parent[p].merged \in Seq(MergedRow) /\ parent[p].shard \in 1..(Len(Turns) + 1)
        /\ Len(parent[p].merged) = parent[p].shard - 1
    BY DEF Types, ParentType, Order, Ordered
  <2>2. s \in Shard
    BY <2>1, Shards
  <2>. QED
    BY <2>2 DEF Content, Merged, RightRows, Measures
<1>. QED
  BY <1>1, <1>2, <1>3, PTL DEF Spec

-------------------------------------------------------------------------------
(* Versions.  Edits are not taken back here: a version is imported once.   *)

Imports ==
  \A q \in Parent, s \in Shard : child[q][s].pc # "none" =>
    s \in started /\ child[q][s].imported <= src

Prepared(o) == o.pc \in {"ready", "waiting", "collected", "reported", "loaded"}

\* Whatever is in the directory of an orchestrator that found it empty was
\* measured with the sources it had fingerprinted, or later ones.
Fresh ==
  \A p \in Parent :
    /\ parent[p].before <= src
    /\ Prepared(parent[p]) =>
         \A q \in Parent, s \in Shard : child[q][s].pc # "none" =>
           child[q][s].imported >= parent[p].before

\* Who wrote a report that was read, or is merged, ran.
Authors ==
  /\ \A s \in Shard : report[s].ok => child[report[s].by][s].pc # "none"
  /\ \A p \in Parent : parent[p].pc \in {"reported", "loaded"} /\ parent[p].report.ok =>
       child[parent[p].report.by][parent[p].shard].pc # "none"
  /\ \A p \in Parent : \A s \in DOMAIN parent[p].merged :
       child[parent[p].merged[s].by][s].pc # "none"

OneVersion ==
  \A p \in Parent : parent[p].verdict = "completed" =>
    \A s \in DOMAIN parent[p].merged :
      child[parent[p].merged[s].by][s].imported = parent[p].before

Versions == Imports /\ Fresh /\ Authors /\ OneVersion

LEMMA VersionsInitially == Init => Versions
<1>. SUFFICES ASSUME Init PROVE Versions
  OBVIOUS
<1>1. /\ \A q \in Parent, s \in Shard : child[q][s].pc = "none"
      /\ \A s \in Shard : ~report[s].ok
  BY DEF Init, NotStarted, NoReport
<1>2. \A p \in Parent : /\ parent[p].pc = "idle" /\ parent[p].merged = <<>> /\ parent[p].before = 0
                        /\ parent[p].verdict = "none"
  BY DEF Init, Idle
<1>3. src = 0
  BY DEF Init
<1>. QED
  BY <1>1, <1>2, <1>3 DEF Versions, Imports, Fresh, Authors, OneVersion, Prepared

\* A process that was started stays, with the version it imported; one that is
\* started now imports the sources as they are.
ChildrenStay ==
  /\ started \subseteq started'
  /\ \A q \in Parent, s \in Shard :
       /\ child[q][s].pc # "none" =>
            child'[q][s].pc # "none" /\ child'[q][s].imported = child[q][s].imported
       /\ child[q][s].pc = "none" /\ child'[q][s].pc # "none" =>
            s \in started' /\ child'[q][s].imported = src /\ src' = src

LEMMA ChildrenStayPut == Types /\ Order /\ [Next]_vars => ChildrenStay
<1>. SUFFICES ASSUME Types, Order, [Next]_vars PROVE ChildrenStay
  OBVIOUS
<1>1. CASE EditSources \/ UNCHANGED vars
  BY <1>1 DEF EditSources, vars, disk, ChildrenStay
<1>2. ASSUME NEW p \in Parent, ParentStep(p) \/ ParentDies(p) PROVE ChildrenStay
  <2>1. ParentMovesOnly(p)
    BY <1>2, ParentEffects
  <2>2. CASE SpawnShard(p)
    <3>1. NotStarted.pc = "none" /\ Started.imported = src
      BY DEF Started, NotStarted
    <3>. QED
      BY <2>1, <2>2, <3>1, SpawnEffects DEF ParentMovesOnly, ChildrenStay
  <2>. QED
    BY <2>1, <2>2 DEF ParentMovesOnly, ChildrenStay
<1>3. ASSUME NEW p \in Parent, NEW s \in Shard, ChildStep(p, s) \/ TearTurn(p, s) \/ ChildDies(p, s)
      PROVE  ChildrenStay
  <2>1. ChildMoves(p, s)
    BY <1>3, ChildEffects
  <2>. QED
    BY <2>1 DEF ChildMoves, ChildrenStay
<1>. QED
  BY <1>1, <1>2, <1>3 DEF Next

\* An orchestrator's own record, step by step.
LEMMA OwnSteps ==
  ASSUME Types, NEW p \in Parent, ParentStep(p) \/ ParentDies(p)
  PROVE  LET o == parent[p]
             row == [by |-> o.report.by, rows |-> o.rows]
         IN
         \/ o.pc = "idle" /\ parent'[p] = [o EXCEPT !.pc = "fingerprinted", !.before = src]
         \/ o.pc = "fingerprinted" /\ started = {} /\ child' = child /\ parent'[p] = [o EXCEPT !.pc = "ready"]
         \/ o.pc = "ready" /\ parent'[p] = [o EXCEPT !.pc = "waiting"]
         \/ o.pc = "waiting" /\ parent'[p] = [o EXCEPT !.pc = "collected"]
         \/ o.pc = "collected" /\ parent'[p] = [o EXCEPT !.pc = "reported", !.report = report[o.shard]]
         \/ o.pc = "reported" /\ parent'[p] = [o EXCEPT !.pc = "loaded", !.rows = rows[o.shard]]
         \/ /\ o.pc = "loaded" /\ o.report.ok
            /\ parent'[p] = [o EXCEPT !.pc = "ready", !.shard = o.shard + 1, !.merged = Append(o.merged, row)]
         \/ /\ o.pc = "ready" /\ o.before = src
            /\ parent'[p] = [o EXCEPT !.pc = "done", !.verdict = "completed"]
         \/ \E v \in {"refused", "failed", "died", "invalid"} :
              o.pc # "done" /\ parent'[p] = [o EXCEPT !.pc = "done", !.verdict = v]
<1>. DEFINE o == parent[p]
<1>0. parent \in [Parent -> ParentType]
  BY DEF Types
<1>1. ASSUME NEW v, End(p, v) PROVE parent'[p] = [o EXCEPT !.pc = "done", !.verdict = v]
  BY <1>0, <1>1 DEF End
<1>2. CASE Fingerprint(p)
  BY <1>0, <1>2 DEF Fingerprint, At
<1>3. CASE PrepareDirectory(p)
  BY <1>0, <1>1, <1>3 DEF PrepareDirectory, At
<1>4. CASE SpawnShard(p)
  BY <1>0, <1>4 DEF SpawnShard, At
<1>5. CASE Collect(p)
  BY <1>0, <1>1, <1>5 DEF Collect, At
<1>6. CASE LoadReport(p)
  BY <1>0, <1>1, <1>6 DEF LoadReport, At
<1>7. CASE LoadRows(p)
  BY <1>0, <1>1, <1>7 DEF LoadRows, At
<1>8. CASE AcceptShard(p)
  BY <1>0, <1>1, <1>8 DEF AcceptShard, Acceptable, At
<1>9. CASE MergeShards(p)
  BY <1>0, <1>1, <1>9 DEF MergeShards, SourcesUnchanged, At
<1>10. CASE ParentDies(p)
  BY <1>0, <1>1, <1>10 DEF ParentDies
<1>. QED
  BY <1>2, <1>3, <1>4, <1>5, <1>6, <1>7, <1>8, <1>9, <1>10 DEF ParentStep

LEMMA OwnFields ==
  ASSUME Types, Order, NEW p \in Parent, ParentStep(p) \/ ParentDies(p)
  PROVE  /\ \/ parent'[p].before = parent[p].before
            \/ parent'[p].before = src /\ parent'[p].pc = "fingerprinted"
         /\ Prepared(parent'[p]) => Prepared(parent[p]) \/ (started = {} /\ child' = child)
         /\ parent'[p].verdict = "completed" =>
              /\ parent[p].pc = "ready" /\ parent[p].before = src
              /\ parent'[p].merged = parent[p].merged /\ parent'[p].before = parent[p].before
         /\ parent'[p].pc \in {"reported", "loaded"} =>
              /\ parent'[p].shard = parent[p].shard
              /\ \/ parent'[p].report = parent[p].report /\ parent[p].pc = "reported"
                 \/ parent'[p].report = report[parent[p].shard] /\ parent[p].shard \in Shard
         /\ \/ parent'[p].merged = parent[p].merged
            \/ /\ parent[p].pc = "loaded" /\ parent[p].report.ok
               /\ parent'[p].merged
                    = Append(parent[p].merged, [by |-> parent[p].report.by, rows |-> parent[p].rows])
<1>. DEFINE o == parent[p]
            row == [by |-> o.report.by, rows |-> o.rows]
<1>0. o \in ParentType /\ (o.pc = "collected" => o.shard \in Shard) /\ (o.pc # "done" => o.verdict = "none")
  BY DEF Types, Order, Ordered, Busy
<1>1. \/ o.pc = "idle" /\ parent'[p] = [o EXCEPT !.pc = "fingerprinted", !.before = src]
      \/ o.pc = "fingerprinted" /\ started = {} /\ child' = child /\ parent'[p] = [o EXCEPT !.pc = "ready"]
      \/ o.pc = "ready" /\ parent'[p] = [o EXCEPT !.pc = "waiting"]
      \/ o.pc = "waiting" /\ parent'[p] = [o EXCEPT !.pc = "collected"]
      \/ o.pc = "collected" /\ parent'[p] = [o EXCEPT !.pc = "reported", !.report = report[o.shard]]
      \/ o.pc = "reported" /\ parent'[p] = [o EXCEPT !.pc = "loaded", !.rows = rows[o.shard]]
      \/ /\ o.pc = "loaded" /\ o.report.ok
         /\ parent'[p] = [o EXCEPT !.pc = "ready", !.shard = o.shard + 1, !.merged = Append(o.merged, row)]
      \/ /\ o.pc = "ready" /\ o.before = src
         /\ parent'[p] = [o EXCEPT !.pc = "done", !.verdict = "completed"]
      \/ \E v \in {"refused", "failed", "died", "invalid"} :
           o.pc # "done" /\ parent'[p] = [o EXCEPT !.pc = "done", !.verdict = v]
  BY OwnSteps
<1>. HIDE DEF o, row
<1>2. /\ \/ parent'[p].before = o.before
         \/ parent'[p].before = src /\ parent'[p].pc = "fingerprinted"
      /\ Prepared(parent'[p]) => Prepared(o) \/ (started = {} /\ child' = child)
      /\ parent'[p].verdict = "completed" =>
           /\ o.pc = "ready" /\ o.before = src
           /\ parent'[p].merged = o.merged /\ parent'[p].before = o.before
      /\ parent'[p].pc \in {"reported", "loaded"} =>
           /\ parent'[p].shard = o.shard
           /\ \/ parent'[p].report = o.report /\ o.pc = "reported"
              \/ parent'[p].report = report[o.shard] /\ o.shard \in Shard
      /\ \/ parent'[p].merged = o.merged
         \/ o.pc = "loaded" /\ o.report.ok /\ parent'[p].merged = Append(o.merged, row)
  BY <1>0, <1>1 DEF ParentType, Prepared
<1>. QED
  BY <1>2 DEF o, row

\* Every record of an orchestrator stays, but for that of the one that moves.
LEMMA RecordsStay ==
  ASSUME Types, Order, [Next]_vars, NEW p \in Parent
  PROVE  \/ parent'[p] = parent[p]
         \/ src' = src /\ report' = report /\ (ParentStep(p) \/ ParentDies(p))
<1>1. CASE EditSources \/ UNCHANGED vars
  BY <1>1 DEF EditSources, vars
<1>2. ASSUME NEW q \in Parent, ParentStep(q) \/ ParentDies(q)
      PROVE  \/ parent'[p] = parent[p]
             \/ src' = src /\ report' = report /\ (ParentStep(p) \/ ParentDies(p))
  BY <1>2, ParentEffects DEF ParentMovesOnly
<1>3. ASSUME NEW q \in Parent, NEW s \in Shard, ChildStep(q, s) \/ TearTurn(q, s) \/ ChildDies(q, s)
      PROVE  parent'[p] = parent[p]
  BY <1>3, ChildEffects DEF ChildMoves
<1>. QED
  BY <1>1, <1>2, <1>3 DEF Next

LEMMA ReportsStay ==
  ASSUME Types, [Next]_vars, NEW s \in Shard, report'[s].ok
  PROVE  \/ report'[s] = report[s]
         \/ report'[s].by \in Parent /\ child[report'[s].by][s].pc # "none"
<1>0. report \in [Shard -> ReportType]
  BY DEF Types
<1>1. CASE EditSources \/ UNCHANGED vars
  BY <1>1 DEF EditSources, vars, disk
<1>2. ASSUME NEW p \in Parent, ParentStep(p) \/ ParentDies(p) PROVE report'[s] = report[s]
  BY <1>2, ParentEffects DEF ParentMovesOnly
<1>3. ASSUME NEW p \in Parent, NEW t \in Shard, ChildStep(p, t) \/ TearTurn(p, t) \/ ChildDies(p, t)
      PROVE  \/ report'[s] = report[s]
             \/ report'[s].by \in Parent /\ child[report'[s].by][s].pc # "none"
  <2>1. CASE TruncateReport(p, t)
    BY <1>0, <2>1 DEF TruncateReport, NoReport
  <2>2. CASE WriteReport(p, t)
    BY <1>0, <2>2 DEF WriteReport, ReportOf, Child
  <2>3. CASE ~TruncateReport(p, t) /\ ~WriteReport(p, t)
    <3>1. report' = report
      BY <1>3, <2>3 DEF ChildStep, CheckObservations, CreateObservations, MeasureTurn, LoadPersisted,
        HashObservations, ExitShard, TearTurn, ChildDies, disk
    <3>. QED
      BY <3>1
  <2>. QED
    BY <2>1, <2>2, <2>3
<1>. QED
  BY <1>1, <1>2, <1>3 DEF Next

LEMMA VersionsStep ==
  ASSUME ~Restores, Types, Order, Content, Versions, [Next]_vars
  PROVE  Versions'
<1>0. /\ src \in Nat /\ src' \in Nat /\ src <= src'
      /\ \A p \in Parent : parent[p] \in ParentType /\ parent[p].before \in Nat
      /\ \A q \in Parent, s \in Shard : child[q][s].imported \in Nat
  <2>1. Types'
    BY TypesStep
  <2>2. src <= src'
    <3>0. src \in Nat
      BY DEF Types
    <3>1. CASE EditSources
      BY <3>0, <3>1 DEF EditSources
    <3>2. CASE ~EditSources
      <4>1. src' = src
        BY <3>2, ParentEffects, ChildEffects DEF Next, vars, ParentMovesOnly, ChildMoves
      <4>. QED
        BY <3>0, <4>1
    <3>. QED
      BY <3>1, <3>2
  <2>. QED
    BY <2>1, <2>2 DEF Types, ParentType, ChildType
<1>c. /\ started \subseteq started'
      /\ \A q \in Parent, s \in Shard :
           /\ child[q][s].pc # "none" =>
                child'[q][s].pc # "none" /\ child'[q][s].imported = child[q][s].imported
           /\ child[q][s].pc = "none" /\ child'[q][s].pc # "none" =>
                s \in started' /\ child'[q][s].imported = src /\ src' = src
  BY ChildrenStayPut DEF ChildrenStay
<1>1. Imports'
  BY <1>0, <1>c DEF Versions, Imports
<1>2. Fresh'
  <2>. SUFFICES ASSUME NEW p \in Parent
                PROVE  /\ parent'[p].before <= src'
                       /\ Prepared(parent'[p]) =>
                            \A q \in Parent, s \in Shard : child'[q][s].pc # "none" =>
                              child'[q][s].imported >= parent'[p].before
    BY DEF Fresh
  <2>0. /\ parent[p].before <= src
        /\ Prepared(parent[p]) =>
             \A q \in Parent, s \in Shard : child[q][s].pc # "none" =>
               child[q][s].imported >= parent[p].before
    BY DEF Versions, Fresh
  <2>1. ASSUME Prepared(parent[p]), NEW q \in Parent, NEW s \in Shard, child'[q][s].pc # "none"
        PROVE  child'[q][s].imported >= parent[p].before
    <3>1. CASE child[q][s].pc = "none"
      BY <1>0, <1>c, <2>0, <2>1, <3>1
    <3>2. CASE child[q][s].pc # "none"
      BY <1>c, <2>0, <2>1, <3>2
    <3>. QED
      BY <3>1, <3>2
  <2>2. CASE parent'[p] = parent[p]
    BY <1>0, <2>0, <2>1, <2>2
  <2>3. CASE src' = src /\ (ParentStep(p) \/ ParentDies(p))
    <3>1. /\ \/ parent'[p].before = parent[p].before
             \/ parent'[p].before = src /\ parent'[p].pc = "fingerprinted"
          /\ Prepared(parent'[p]) => Prepared(parent[p]) \/ (started = {} /\ child' = child)
      BY <2>3, OwnFields
    <3>2. parent'[p].before <= src'
      BY <1>0, <2>0, <2>3, <3>1
    <3>3. Prepared(parent'[p]) => parent'[p].before = parent[p].before
      BY <3>1 DEF Prepared
    <3>4. started = {} => \A q \in Parent, s \in Shard : child[q][s].pc = "none"
      BY DEF Versions, Imports
    <3>. QED
      BY <2>1, <3>1, <3>2, <3>3, <3>4
  <2>. QED
    BY <2>2, <2>3, RecordsStay
<1>3. Authors'
  <2>1. ASSUME NEW s \in Shard, report'[s].ok PROVE child'[report'[s].by][s].pc # "none"
    <3>1. CASE report'[s] = report[s]
      <4>1. report[s].by \in Parent /\ child[report[s].by][s].pc # "none"
        BY <2>1, <3>1 DEF Content, Reported, Measures, Versions, Authors
      <4>. QED
        BY <1>c, <3>1, <4>1
    <3>2. CASE report'[s].by \in Parent /\ child[report'[s].by][s].pc # "none"
      BY <1>c, <3>2
    <3>. QED
      BY <2>1, <3>1, <3>2, ReportsStay
  <2>2. ASSUME NEW p \in Parent, parent'[p].pc \in {"reported", "loaded"}, parent'[p].report.ok
        PROVE  child'[parent'[p].report.by][parent'[p].shard].pc # "none"
    <3>a. ASSUME parent[p].pc \in {"reported", "loaded"}, parent[p].report.ok
          PROVE  child'[parent[p].report.by][parent[p].shard].pc # "none"
      <4>1. /\ parent[p].report.by \in Parent /\ child[parent[p].report.by][parent[p].shard].pc # "none"
            /\ parent[p].shard \in Shard
        BY <3>a DEF Content, ReadBack, RightReport, Measures, Versions, Authors, Order, Ordered, Busy
      <4>. QED
        BY <1>c, <4>1
    <3>1. CASE parent'[p] = parent[p]
      BY <2>2, <3>1, <3>a
    <3>2. CASE report' = report /\ (ParentStep(p) \/ ParentDies(p))
      <4>1. /\ parent'[p].shard = parent[p].shard
            /\ \/ parent'[p].report = parent[p].report /\ parent[p].pc = "reported"
               \/ parent'[p].report = report[parent[p].shard] /\ parent[p].shard \in Shard
        BY <2>2, <3>2, OwnFields
      <4>2. CASE parent'[p].report = report[parent[p].shard] /\ parent[p].shard \in Shard
        BY <2>1, <2>2, <3>2, <4>1, <4>2
      <4>. QED
        BY <2>2, <3>a, <4>1, <4>2
    <3>. QED
      BY <3>1, <3>2, RecordsStay
  <2>3. ASSUME NEW p \in Parent, NEW s \in DOMAIN parent'[p].merged
        PROVE  child'[parent'[p].merged[s].by][s].pc # "none"
    <3>0. /\ parent[p].merged \in Seq(MergedRow) /\ Len(parent[p].merged) = parent[p].shard - 1
          /\ parent[p].shard \in 1..(Len(Turns) + 1)
      BY DEF Types, ParentType, Order, Ordered
    <3>a. ASSUME s \in DOMAIN parent[p].merged
          PROVE  child'[parent[p].merged[s].by][s].pc # "none"
      <4>1. s \in Shard
        BY <3>0, <3>a, Shards
      <4>2. parent[p].merged[s].by \in Parent /\ child[parent[p].merged[s].by][s].pc # "none"
        BY <3>a DEF Content, Merged, RightRows, Measures, Versions, Authors
      <4>. QED
        BY <1>c, <4>1, <4>2
    <3>1. CASE parent'[p].merged = parent[p].merged
      BY <2>3, <3>1, <3>a
    <3>2. CASE /\ parent[p].pc = "loaded" /\ parent[p].report.ok
               /\ parent'[p].merged
                    = Append(parent[p].merged, [by |-> parent[p].report.by, rows |-> parent[p].rows])
      <4>. DEFINE row == [by |-> parent[p].report.by, rows |-> parent[p].rows]
      <4>1. /\ row.by \in Parent /\ parent[p].shard \in Shard /\ child[row.by][parent[p].shard].pc # "none"
        BY <3>2 DEF Content, ReadBack, RightReport, Measures, Versions, Authors, Order, Ordered, Busy
      <4>2. child'[row.by][parent[p].shard].pc # "none"
        BY <1>c, <4>1
      <4>3. parent'[p].merged = Append(parent[p].merged, row)
        BY <3>2
      <4>. HIDE DEF row
      <4>4. Len(parent[p].merged) \in Nat /\ Len(parent[p].merged) + 1 = parent[p].shard
        BY <3>0
      <4>5. s = Len(parent[p].merged) + 1 \/ s \in 1..Len(parent[p].merged)
        BY <2>3, <3>0, <4>3, <4>4
      <4>6. CASE s = Len(parent[p].merged) + 1
        BY <3>0, <4>2, <4>3, <4>4, <4>6
      <4>7. CASE s \in 1..Len(parent[p].merged)
        <5>1. s \in DOMAIN parent[p].merged /\ parent'[p].merged[s] = parent[p].merged[s]
          BY <3>0, <4>3, <4>7
        <5>. QED
          BY <3>a, <5>1
      <4>. QED
        BY <4>5, <4>6, <4>7
    <3>. QED
      BY <3>1, <3>2, RecordsStay, OwnFields
  <2>. QED
    BY <2>1, <2>2, <2>3 DEF Authors
<1>4. OneVersion'
  <2>. SUFFICES ASSUME NEW p \in Parent, parent'[p].verdict = "completed", NEW s \in DOMAIN parent'[p].merged
                PROVE  child'[parent'[p].merged[s].by][s].imported = parent'[p].before
    BY DEF OneVersion
  <2>0. /\ parent[p].merged \in Seq(MergedRow) /\ Len(parent[p].merged) = parent[p].shard - 1
        /\ parent[p].shard \in 1..(Len(Turns) + 1)
    BY DEF Types, ParentType, Order, Ordered
  <2>a. ASSUME s \in DOMAIN parent[p].merged
        PROVE  /\ parent[p].merged[s].by \in Parent /\ s \in Shard
               /\ child[parent[p].merged[s].by][s].pc # "none"
               /\ child'[parent[p].merged[s].by][s].imported = child[parent[p].merged[s].by][s].imported
    <3>1. s \in Shard
      BY <2>0, <2>a, Shards
    <3>2. parent[p].merged[s].by \in Parent /\ child[parent[p].merged[s].by][s].pc # "none"
      BY <2>a DEF Content, Merged, RightRows, Measures, Versions, Authors
    <3>. QED
      BY <1>c, <3>1, <3>2
  <2>1. CASE parent'[p] = parent[p]
    BY <2>a, <2>1 DEF Versions, OneVersion
  <2>2. CASE ParentStep(p) \/ ParentDies(p)
    <3>1. /\ parent[p].pc = "ready" /\ parent[p].before = src
          /\ parent'[p].merged = parent[p].merged /\ parent'[p].before = parent[p].before
      BY <2>2, OwnFields
    <3>. DEFINE b == parent[p].merged[s].by
    <3>2. /\ b \in Parent /\ s \in Shard /\ child[b][s].pc # "none"
          /\ child'[b][s].imported = child[b][s].imported
      BY <2>a, <3>1
    <3>3. child[b][s].imported <= src /\ child[b][s].imported >= parent[p].before
      BY <3>1, <3>2 DEF Versions, Imports, Fresh, Prepared
    <3>. QED
      BY <1>0, <3>1, <3>2, <3>3
  <2>. QED
    BY <2>1, <2>2, RecordsStay
<1>. QED
  BY <1>1, <1>2, <1>3, <1>4 DEF Versions

\* Where no edit is taken back, a complete report was measured by processes that
\* all ran the sources it carries the fingerprint of (SourcesAreOne).
THEOREM OneVersionMeasured == ~Restores => (Spec => []SourcesAreOne)
<1>1. Init => Types /\ Order /\ Content /\ Versions
  BY TypesInitially, OrderInitially, ContentInitially, VersionsInitially
<1>2. ~Restores /\ Types /\ Order /\ Content /\ Versions /\ [Next]_vars
        => Types' /\ Order' /\ Content' /\ Versions'
  BY TypesStep, OrderStep, ContentStep, VersionsStep
<1>3. Types /\ Order /\ Versions => SourcesAreOne
  <2>. SUFFICES ASSUME Types, Order, Versions, NEW p \in Parent, parent[p].verdict = "completed",
                       NEW s \in Shard
                PROVE  child[parent[p].merged[s].by][s].imported = parent[p].before
    BY DEF SourcesAreOne
  <2>1. /\ parent[p].merged \in Seq(MergedRow) /\ Len(parent[p].merged) = parent[p].shard - 1
        /\ parent[p].shard \in 1..(Len(Turns) + 1) /\ parent[p].shard \notin Shard
    BY DEF Types, ParentType, Order, Ordered
  <2>2. s \in DOMAIN parent[p].merged
    BY <2>1, Shards
  <2>. QED
    BY <2>2 DEF Versions, OneVersion
<1>4. SUFFICES ASSUME ~Restores PROVE Spec => []SourcesAreOne
  OBVIOUS
<1>5. Types /\ Order /\ Content /\ Versions /\ [Next]_vars => Types' /\ Order' /\ Content' /\ Versions'
  BY <1>2, <1>4
<1>. QED
  BY <1>1, <1>3, <1>5, PTL DEF Spec

-------------------------------------------------------------------------------
(* The composition roots.  Each is a process too, and what its terminal    *)
(* event may say depends on how far it came.  The invariant has three      *)
(* parts: what each root has completed by the step it is at (LocalInv,     *)
(* BoundedInv); what the local root's execution state claims of that       *)
(* before the end (StateSays); and whose listener and thread may be open   *)
(* (Doors).                                                                *)

\* A process and the execution state are records of these fields.
IsProc(p) ==
  p = [pc |-> p.pc, did |-> p.did, builds |-> p.builds, transport |-> p.transport,
       outcome |-> p.outcome, code |-> p.code, events |-> p.events]

IsState(st) ==
  st = [source |-> st.source, runtime |-> st.runtime, resources |-> st.resources,
        warm |-> st.warm, bound |-> st.bound, started |-> st.started,
        transport |-> st.transport]

Shape ==
  /\ proc = [s \in Service |-> proc[s]]
  /\ \A s \in Service : IsProc(proc[s])
  /\ IsState(state)

\* What each root has done by the step it is at.  A server that ended may have
\* started or not.
AllGates == LocalGates \union {"begun"}

LocalDid(pc) ==
  CASE pc \in {"cli", "settings"} -> {}
    [] pc = "stage150" -> {"settings"}
    [] pc = "flags"    -> {"settings", "stage150"}
    [] pc = "stage154" -> {"settings", "stage150", "flags"}
    [] pc \in {"stage145", "factory", "bootstrap"} -> {"settings", "stage150", "flags", "stage154"}
    [] pc = "build"    -> LocalGates
    [] pc = "building" -> AllGates
    [] pc = "warmup"   -> AllGates \union {"built"}
    [] pc = "compose"  -> AllGates \union {"built", "warm"}
    [] pc = "listen"   -> AllGates \union {"built", "warm", "app"}
    [] pc = "run"      -> AllGates \union {"built", "warm", "app", "bound"}
    [] pc = "serving"  -> AllGates \union {"built", "warm", "app", "bound", "started"}

BoundedDid(pc) ==
  CASE pc \in {"cli", "settings", "flags"} -> {}
    [] pc = "sources" -> {"flags"}
    [] pc = "build"   -> {"flags", "sources"}
    [] pc = "model"   -> {"flags", "sources", "built"}
    [] pc \in {"runtime", "warmup", "turn"} -> {"flags", "sources", "built", "model"}
    [] pc = "app"     -> {"flags", "sources", "built", "model", "warm"}
    [] pc = "run"     -> Milestones
    [] pc = "serving" -> Milestones \union {"started"}

LocalPc == {"cli", "settings", "stage150", "flags", "stage154", "stage145", "factory",
            "bootstrap", "build", "building", "warmup", "compose", "listen", "run", "serving"}
BoundedPc == {"cli", "settings", "flags", "sources", "build", "model", "runtime", "warmup",
              "turn", "app", "run", "serving"}

Over == {"done", "gone"}

\* What EventsAreTruthful asks of an event of either root.
LocalTruth(e, did) ==
  /\ e.fields.runtime = "eligible" <=> "warm" \in did
  /\ e.fields.resources => {"built", "warm"} \subseteq did
  /\ e.fields.bound <=> "bound" \in did
  /\ e.fields.started <=> "started" \in did
  /\ e.code = "stage145_or_runtime_activation_rejected" => "begun" \notin did
  /\ "begun" \in did => e.fields.source = "stage145_authorized"
  /\ e.code = "clean_server_return" => e.fields.transport = "closed"

BoundedTruth(e, did) ==
  /\ e.progress = did \intersect Milestones
  /\ e.started <=> "started" \in did

\* What the execution state claims before the end is what was done.
StateSays(did, st) ==
  /\ st.runtime = "eligible" <=> "warm" \in did
  /\ st.resources => {"built", "warm"} \subseteq did
  /\ st.bound <=> "bound" \in did
  /\ ~st.started
  /\ "warm" \in did => st.source = "stage145_authorized"

\* How far a root may have come when an exception leaves it without an event.
Unguarded(p) == p.code = "uncaught" /\ {"stage154", "warm"} \intersect p.did = {}

LocalInv(p, st) ==
  /\ p.pc \in LocalPc => p.did = LocalDid(p.pc)
  /\ p.pc = "ended" =>
       /\ p.did \in {LocalDid("run"), LocalDid("serving")}
       /\ "started" \in p.did /\ p.outcome = "return" => p.transport = "closed"
  /\ p.pc \in LocalPc \union {"ended"} => p.events = <<>> /\ StateSays(p.did, st)
  /\ p.pc \in {"cli", "settings", "stage150", "flags", "stage154", "stage145", "factory",
               "bootstrap", "build"} => p.builds = 0
  /\ p.pc \in {"building", "warmup"} => p.builds = 1
  /\ p.pc \in Over =>
       \/ p.events = <<>> /\ (p.code = "interrupted" \/ Unguarded(p))
       \/ p.events = <<p.events[1]>> /\ LocalTruth(p.events[1], p.did)
  /\ p.pc \in LocalPc \union {"ended"} \union Over

BoundedInv(p) ==
  /\ p.pc \in BoundedPc => p.did = BoundedDid(p.pc)
  /\ p.pc = "ended" => p.did \in {BoundedDid("run"), BoundedDid("serving")}
  /\ p.pc \in BoundedPc \union {"ended"} => p.events = <<>>
  /\ p.pc \in Over =>
       \/ p.events = <<>> /\ (p.code = "interrupted" \/ p.did = {} \/ Unguarded(p))
       \/ p.events = <<p.events[1]>> /\ BoundedTruth(p.events[1], p.did)
  /\ p.pc \in BoundedPc \union {"ended"} \union Over

\* Whose listener and thread may be open.
Doors ==
  /\ "local" \in listening => proc["local"].pc \in {"run", "serving", "ended"}
  /\ "bounded" \in listening => Milestones \subseteq proc["bounded"].did
  /\ thread => proc["bounded"].pc = "turn"

RootsInv ==
  Shape /\ LocalInv(proc["local"], state) /\ BoundedInv(proc["bounded"]) /\ Doors

-------------------------------------------------------------------------------
(* Records.                                                                *)

\* The next step, having completed some more.
LEMMA Going ==
  ASSUME NEW s \in Service, IsProc(proc[s]), NEW pc, NEW more, NEW q, q = Go(s, pc, more)
  PROVE  /\ IsProc(q)
         /\ q.pc = pc /\ q.did = proc[s].did \union more /\ q.builds = proc[s].builds
         /\ q.transport = proc[s].transport /\ q.outcome = proc[s].outcome
         /\ q.code = proc[s].code /\ q.events = proc[s].events
<1>. DEFINE p == proc[s]
            did == p.did \union more
<1>1. q = [p EXCEPT !.pc = pc, !.did = did]
  BY DEF Go, IsProc
<1>3. IsProc(p)
  OBVIOUS
<1>. HIDE DEF p, did
<1>2. /\ IsProc(q)
      /\ q.pc = pc /\ q.did = did /\ q.builds = p.builds /\ q.transport = p.transport
      /\ q.outcome = p.outcome /\ q.code = p.code /\ q.events = p.events
  BY <1>1, <1>3 DEF IsProc
<1>. QED
  BY <1>2 DEF p, did

\* What a root's process becomes, and that the other root's stays.
LEMMA Move ==
  ASSUME Shape, NEW s \in Service, NEW q, IsProc(q), Becomes(s, q)
  PROVE  /\ proc'[s] = q
         /\ \A t \in Service \ {s} : proc'[t] = proc[t]
         /\ proc' = [t \in Service |-> proc'[t]]
         /\ \A t \in Service : IsProc(proc'[t])
BY DEF Shape, Becomes

\* A root that has said nothing and reports once.
LEMMA Report ==
  ASSUME Shape, NEW s \in Service, NEW code, NEW e, proc[s].events = <<>>, Reports(s, code, e)
  PROVE  /\ proc'[s].pc = "done" /\ proc'[s].did = proc[s].did /\ proc'[s].events = <<e>>
         /\ proc'[s].code = code
         /\ \A t \in Service \ {s} : proc'[t] = proc[t]
         /\ proc' = [t \in Service |-> proc'[t]]
         /\ \A t \in Service : IsProc(proc'[t])
<1>. DEFINE p == proc[s]
            es == Append(p.events, e)
            q == [p EXCEPT !.pc = "done", !.code = code, !.events = Append(@, e)]
<1>1. es = <<e>>
  OBVIOUS
<1>2. IsProc(p)
  BY DEF Shape
<1>3. q = [p EXCEPT !.pc = "done", !.code = code, !.events = es]
  BY <1>2 DEF IsProc
<1>4. Becomes(s, q)
  BY DEF Reports
<1>. HIDE DEF es, q, p
<1>5. IsProc(q) /\ q.pc = "done" /\ q.did = p.did /\ q.events = <<e>> /\ q.code = code
  BY <1>1, <1>2, <1>3 DEF IsProc
<1>. QED
  BY <1>4, <1>5, Move DEF p

\* The tables, step by step.
LEMMA LocalTable ==
  /\ LocalDid("cli") = {} /\ LocalDid("settings") = {} /\ LocalDid("stage150") = {"settings"}
  /\ LocalDid("flags") = {"settings", "stage150"}
  /\ LocalDid("stage154") = {"settings", "stage150", "flags"}
  /\ LocalDid("stage145") = {"settings", "stage150", "flags", "stage154"}
  /\ LocalDid("factory") = {"settings", "stage150", "flags", "stage154"}
  /\ LocalDid("bootstrap") = {"settings", "stage150", "flags", "stage154"}
  /\ LocalDid("build") = LocalGates
  /\ LocalDid("building") = AllGates
  /\ LocalDid("warmup") = AllGates \union {"built"}
  /\ LocalDid("compose") = AllGates \union {"built", "warm"}
  /\ LocalDid("listen") = AllGates \union {"built", "warm", "app"}
  /\ LocalDid("run") = AllGates \union {"built", "warm", "app", "bound"}
  /\ LocalDid("serving") = AllGates \union {"built", "warm", "app", "bound", "started"}
BY DEF LocalDid

LEMMA BoundedTable ==
  /\ BoundedDid("cli") = {} /\ BoundedDid("settings") = {} /\ BoundedDid("flags") = {}
  /\ BoundedDid("sources") = {"flags"}
  /\ BoundedDid("build") = {"flags", "sources"}
  /\ BoundedDid("model") = {"flags", "sources", "built"}
  /\ BoundedDid("runtime") = {"flags", "sources", "built", "model"}
  /\ BoundedDid("warmup") = {"flags", "sources", "built", "model"}
  /\ BoundedDid("turn") = {"flags", "sources", "built", "model"}
  /\ BoundedDid("app") = {"flags", "sources", "built", "model", "warm"}
  /\ BoundedDid("run") = Milestones
  /\ BoundedDid("serving") = Milestones \union {"started"}
BY DEF BoundedDid

-------------------------------------------------------------------------------
(* What a step of one root has to show.                                    *)

\* The other root's process is untouched, and so are the parts of the invariant
\* that are about it.
LEMMA LocalMoves ==
  ASSUME RootsInv, NEW q, IsProc(q), Becomes("local", q), IsState(state'), LocalInv(q, state'),
         "local" \in listening' => q.pc \in {"run", "serving", "ended"},
         "bounded" \in listening' => "bounded" \in listening,
         thread' => thread
  PROVE  RootsInv'
<1>1. /\ proc'["local"] = q /\ proc'["bounded"] = proc["bounded"]
      /\ proc' = [t \in Service |-> proc'[t]]
      /\ \A t \in Service : IsProc(proc'[t])
  BY Move, "local" \in Service, "bounded" \in Service \ {"local"} DEF RootsInv, Service
<1>2. Shape'
  BY <1>1 DEF Shape, IsProc, IsState
<1>3. Doors'
  BY <1>1 DEF Doors, RootsInv
<1>. QED
  BY <1>1, <1>2, <1>3 DEF RootsInv

LEMMA BoundedMoves ==
  ASSUME RootsInv, NEW q, IsProc(q), Becomes("bounded", q), state' = state, BoundedInv(q),
         "local" \in listening' => "local" \in listening,
         "bounded" \in listening' => Milestones \subseteq q.did,
         thread' => q.pc = "turn"
  PROVE  RootsInv'
<1>1. /\ proc'["bounded"] = q /\ proc'["local"] = proc["local"]
      /\ proc' = [t \in Service |-> proc'[t]]
      /\ \A t \in Service : IsProc(proc'[t])
  BY Move, "bounded" \in Service, "local" \in Service \ {"bounded"} DEF RootsInv, Service
<1>2. Shape'
  BY <1>1 DEF Shape, IsProc, IsState, RootsInv
<1>3. Doors'
  BY <1>1 DEF Doors, RootsInv
<1>. QED
  BY <1>1, <1>2, <1>3 DEF RootsInv

Unbuilt == {"cli", "settings", "stage150", "flags", "stage154", "stage145", "factory",
            "bootstrap", "build"}

\* The local root's process at a step before its server's end.
LEMMA LocalAt ==
  ASSUME NEW p, NEW st, p.pc \in LocalPc, p.did = LocalDid(p.pc), p.events = <<>>,
         StateSays(p.did, st),
         p.pc \in Unbuilt => p.builds = 0,
         p.pc \in {"building", "warmup"} => p.builds = 1
  PROVE  LocalInv(p, st)
BY DEF LocalInv, LocalPc, Over, Unbuilt

\* Its report.
LEMMA LocalEnds ==
  ASSUME RootsInv, NEW code, NEW st, IsState(st), Ends(code, st),
         proc["local"].pc \in LocalPc \union {"ended"},
         LocalTruth([code |-> code, fields |-> st], proc["local"].did),
         "local" \notin listening',
         "bounded" \in listening' => "bounded" \in listening,
         thread' = thread
  PROVE  RootsInv'
<1>. DEFINE e == [code |-> code, fields |-> st]
            q == proc'["local"]
<1>1. proc["local"].events = <<>>
  BY DEF RootsInv, LocalInv
<1>2. /\ q.pc = "done" /\ q.did = proc["local"].did /\ q.events = <<e>> /\ IsProc(q)
      /\ proc'["bounded"] = proc["bounded"]
      /\ proc' = [t \in Service |-> proc'[t]]
      /\ \A t \in Service : IsProc(proc'[t])
  <2>1. Reports("local", code, e) /\ "local" \in Service /\ "bounded" \in Service \ {"local"} /\ Shape
    BY DEF Ends, Service, RootsInv
  <2>. HIDE DEF e
  <2>. QED
    BY <1>1, <2>1, Report
<1>3. LocalInv(q, state')
  <2>1. q.events = <<q.events[1]>> /\ q.events[1] = e
    BY <1>2
  <2>. HIDE DEF e
  <2>2. LocalTruth(e, q.did)
    BY <1>2 DEF e
  <2>3. q.pc \in Over /\ q.pc \notin LocalPc /\ q.pc # "ended" /\ q.pc \notin Unbuilt
        /\ q.pc \notin {"building", "warmup"}
    BY <1>2 DEF Over, LocalPc, Unbuilt
  <2>. QED
    BY <2>1, <2>2, <2>3 DEF LocalInv, Unbuilt
<1>4. Shape'
  BY <1>2 DEF Shape, IsProc, IsState, Ends
<1>5. Doors'
  BY <1>2 DEF Doors, RootsInv
<1>. QED
  BY <1>2, <1>3, <1>4, <1>5 DEF RootsInv

\* Its next step.
LEMMA LocalPasses ==
  ASSUME RootsInv, NEW pc \in LocalPc, NEW more, NEW st, IsState(st), Passes(pc, more, st),
         proc["local"].pc \in LocalPc,
         LocalDid(proc["local"].pc) \union more = LocalDid(pc),
         StateSays(LocalDid(pc), st),
         pc \in Unbuilt => proc["local"].pc \in Unbuilt,
         pc = "warmup" => proc["local"].pc = "building", pc # "building",
         "local" \in listening' => pc = "run",
         "bounded" \in listening' => "bounded" \in listening,
         thread' = thread
  PROVE  RootsInv'
<1>. DEFINE q == Go("local", pc, more)
            p == proc["local"]
<1>1. /\ IsProc(q) /\ q.pc = pc /\ q.did = p.did \union more /\ q.builds = p.builds
      /\ q.events = p.events
  BY Going, "local" \in Service DEF RootsInv, Shape, Service
<1>2. Becomes("local", q) /\ state' = st
  BY DEF Passes
<1>3. p.did = LocalDid(p.pc) /\ p.events = <<>>
      /\ (p.pc \in Unbuilt => p.builds = 0) /\ (p.pc = "building" => p.builds = 1)
  BY DEF RootsInv, LocalInv, Unbuilt
<1>. HIDE DEF q, p
<1>4. LocalInv(q, st)
  BY <1>1, <1>3, LocalAt DEF p, Unbuilt
<1>. QED
  BY <1>1, <1>2, <1>4, LocalMoves

\* An execution state that claims nothing yet.
Quiet(st) ==
  IsState(st) /\ ~st.resources /\ ~st.bound /\ ~st.started /\ st.runtime # "eligible"

LEMMA QuietWrites ==
  ASSUME Quiet(state), NEW a, NEW b, b # "eligible"
  PROVE  /\ Quiet([state EXCEPT !.source = a])
         /\ Quiet([state EXCEPT !.runtime = b])
         /\ Quiet([state EXCEPT !.source = a, !.runtime = b])
         /\ [state EXCEPT !.source = a, !.runtime = b].source = a
<1>. DEFINE st == [state EXCEPT !.source = a, !.runtime = b]
<1>1. st = [state EXCEPT !.source = a, !.runtime = b] /\ IsState(state)
  BY DEF Quiet
<1>. HIDE DEF st
<1>2. IsState(st) /\ st.source = a /\ st.runtime = b /\ st.resources = state.resources
      /\ st.bound = state.bound /\ st.started = state.started
  BY <1>1 DEF IsState
<1>3. Quiet(st)
  BY <1>2 DEF Quiet
<1>4. Quiet([state EXCEPT !.source = a]) /\ Quiet([state EXCEPT !.runtime = b])
  BY DEF Quiet, IsState
<1>. QED
  BY <1>2, <1>3, <1>4 DEF st

\* A report made before the warm-up was over.
LEMMA Refusal ==
  ASSUME NEW did, NEW st, NEW code, {"warm", "bound", "started"} \intersect did = {}, Quiet(st),
         code # "clean_server_return",
         "begun" \in did =>
           st.source = "stage145_authorized" /\ code # "stage145_or_runtime_activation_rejected"
  PROVE  LocalTruth([code |-> code, fields |-> st], did)
BY DEF LocalTruth, Quiet

\* What the invariant says of the local root before its server's end.
LEMMA LocalFacts ==
  ASSUME RootsInv, NEW pc \in LocalPc, Stands("local", pc)
  PROVE  /\ proc["local"].pc \in LocalPc /\ proc["local"].pc = pc
         /\ proc["local"].did = LocalDid(pc) /\ StateSays(LocalDid(pc), state)
         /\ IsState(state) /\ proc["local"].events = <<>>
         /\ pc \in Unbuilt => proc["local"].builds = 0
         /\ pc \in {"building", "warmup"} => proc["local"].builds = 1
         /\ "local" \in listening => pc \in {"run", "serving"}
BY DEF RootsInv, LocalInv, Shape, Doors, Stands, LocalPc, Unbuilt

\* Up to the warm-up, nothing the state reports has happened yet.
Gates == Unbuilt \union {"building", "warmup"}

LEMMA GateFacts ==
  ASSUME NEW pc \in Gates
  PROVE  /\ pc \in LocalPc
         /\ {"warm", "bound", "started"} \intersect LocalDid(pc) = {}
         /\ pc \notin {"building", "warmup"} => "begun" \notin LocalDid(pc)
         /\ \A st : StateSays(LocalDid(pc), st) /\ IsState(st) => Quiet(st)
         /\ \A st : Quiet(st) => StateSays(LocalDid(pc), st)
<1>1. pc \in LocalPc
  BY DEF Gates, LocalPc, Unbuilt
<1>2. /\ {"warm", "bound", "started"} \intersect LocalDid(pc) = {}
      /\ pc \notin {"building", "warmup"} => "begun" \notin LocalDid(pc)
  BY LocalTable DEF Gates, AllGates, LocalGates, Unbuilt
<1>. QED
  BY <1>1, <1>2 DEF StateSays, Quiet

\* A gate of the local root, given what its two outcomes come to: what it reports
\* when it refuses, what it has completed when it passes.
LEMMA GateKeeps ==
  ASSUME RootsInv, NEW pc \in Gates, NEW code, NEW st1, NEW next \in Gates \ {"building"},
         NEW more, NEW st2,
         Gate(pc, Ends(code, st1), Passes(next, more, st2)), Quiet(st1), Quiet(st2),
         code # "clean_server_return",
         pc \in {"building", "warmup"} =>
           st1.source = "stage145_authorized" /\ code # "stage145_or_runtime_activation_rejected",
         LocalDid(pc) \union more = LocalDid(next),
         next \in Unbuilt => pc \in Unbuilt,
         next = "warmup" => pc = "building"
  PROVE  RootsInv'
<1>1. Stands("local", pc) /\ UNCHANGED <<thread, listening>>
  BY DEF Gate
<1>2. /\ pc \in LocalPc /\ next \in LocalPc
      /\ {"warm", "bound", "started"} \intersect LocalDid(pc) = {}
      /\ pc \notin {"building", "warmup"} => "begun" \notin LocalDid(pc)
      /\ StateSays(LocalDid(next), st2)
  BY GateFacts
<1>3. /\ proc["local"].pc = pc /\ proc["local"].did = LocalDid(pc)
      /\ "local" \in listening => pc \in {"run", "serving"}
  BY <1>1, <1>2, LocalFacts
<1>4. pc \notin {"run", "serving"} /\ next # "run"
  BY DEF Gates, Unbuilt
<1>5. CASE Ends(code, st1)
  <2>1. LocalTruth([code |-> code, fields |-> st1], LocalDid(pc))
    BY <1>2, Refusal
  <2>. QED
    BY <1>1, <1>2, <1>3, <1>4, <1>5, <2>1, LocalEnds DEF Quiet
<1>6. CASE Passes(next, more, st2)
  BY <1>1, <1>2, <1>3, <1>4, <1>6, LocalPasses DEF Quiet
<1>. QED
  BY <1>5, <1>6 DEF Gate

\* An exception of the local root that nothing catches.
LEMMA LocalRaises ==
  ASSUME RootsInv, NEW pc \in {"settings", "stage150", "stage154"}, Stands("local", pc), Raises,
         UNCHANGED <<thread, listening>>
  PROVE  RootsInv'
<1>. DEFINE p == proc["local"]
            q == [p EXCEPT !.pc = "done", !.code = "uncaught"]
<1>1. pc \in LocalPc /\ pc \notin {"run", "serving"}
  BY DEF LocalPc
<1>2. /\ p.did = LocalDid(pc) /\ p.events = <<>> /\ IsState(state) /\ "local" \notin listening
      /\ IsProc(p)
  BY <1>1, LocalFacts, "local" \in Service DEF RootsInv, Shape, Service
<1>3. {"stage154", "warm"} \intersect p.did = {}
  BY <1>2, LocalTable
<1>4. Becomes("local", q) /\ state' = state
  BY DEF Raises, Uncaught, Silent
<1>5. q = [p EXCEPT !.pc = "done", !.code = "uncaught"]
  OBVIOUS
<1>. HIDE DEF q, p
<1>6. IsProc(q) /\ q.pc = "done" /\ q.did = p.did /\ q.code = "uncaught" /\ q.events = p.events
  BY <1>2, <1>5 DEF IsProc
<1>7. Unguarded(q)
  BY <1>3, <1>6 DEF Unguarded
<1>8. LocalInv(q, state)
  BY <1>2, <1>6, <1>7 DEF LocalInv, LocalPc, Over, Unbuilt
<1>. QED
  BY <1>2, <1>4, <1>6, <1>8, LocalMoves

\* The gates, up to the build.
LEMMA GatesKeep ==
  ASSUME RootsInv,
         \/ ParseCli \/ LoadSettings \/ AuthorizeStage150 \/ CheckFlags \/ AuthorizeStage154
         \/ LoadStage145 \/ CreateFactory \/ EvaluateStage145
  PROVE  RootsInv'
<1>0. ASSUME NEW pc \in Gates, Stands("local", pc) PROVE Quiet(state)
  BY <1>0, LocalFacts, GateFacts
<1>1. CASE ParseCli
  <2>. DEFINE st1 == state
              st2 == state
  <2>1. Gate("cli", Ends("cli_contract_invalid", st1), Passes("settings", {}, st2))
    BY <1>1 DEF ParseCli
  <2>2. "cli" \in Unbuilt /\ "settings" \in Unbuilt
    BY DEF Unbuilt
  <2>3. Quiet(state)
    BY <1>0, <2>1, <2>2 DEF Gate, Gates
  <2>4. Quiet(st1) /\ Quiet(st2)
    BY <2>3, QuietWrites
  <2>5. LocalDid("cli") \union {} = LocalDid("settings")
    BY LocalTable
  <2>. HIDE DEF st1, st2
  <2>. QED
    BY <2>1, <2>2, <2>4, <2>5, GateKeeps DEF Gates
<1>2. CASE LoadSettings
  <2>. DEFINE st1 == [state EXCEPT !.runtime = "configuration_rejected"]
              st2 == state
  <2>1. \/ Gate("settings", Ends("activation_configuration_rejected", st1), Passes("stage150", {"settings"}, st2))
        \/ Stands("local", "settings") /\ Raises /\ UNCHANGED <<thread, listening>>
    BY <1>2 DEF LoadSettings, ConfigurationRejected, Gate
  <2>2. "settings" \in Unbuilt /\ "stage150" \in Unbuilt
    BY DEF Unbuilt
  <2>3. Quiet(state)
    BY <1>0, <2>1, <2>2 DEF Gate, Gates
  <2>4. Quiet(st1) /\ Quiet(st2)
    BY <2>3, QuietWrites
  <2>5. LocalDid("settings") \union {"settings"} = LocalDid("stage150")
    BY LocalTable
  <2>. HIDE DEF st1, st2
  <2>. QED
    BY <2>1, <2>2, <2>4, <2>5, GateKeeps, LocalRaises DEF Gates
<1>3. CASE AuthorizeStage150
  <2>. DEFINE st1 == [state EXCEPT !.source = "stage150_rejected"]
              st2 == [state EXCEPT !.source = "stage150_authorized"]
  <2>1. \/ Gate("stage150", Ends("stage150_authorization_rejected", st1), Passes("flags", {"stage150"}, st2))
        \/ Stands("local", "stage150") /\ Raises /\ UNCHANGED <<thread, listening>>
    BY <1>3 DEF AuthorizeStage150, Gate
  <2>2. "stage150" \in Unbuilt /\ "flags" \in Unbuilt
    BY DEF Unbuilt
  <2>3. Quiet(state)
    BY <1>0, <2>1, <2>2 DEF Gate, Gates
  <2>4. Quiet(st1) /\ Quiet(st2)
    BY <2>3, QuietWrites
  <2>5. LocalDid("stage150") \union {"stage150"} = LocalDid("flags")
    BY LocalTable
  <2>. HIDE DEF st1, st2
  <2>. QED
    BY <2>1, <2>2, <2>4, <2>5, GateKeeps, LocalRaises DEF Gates
<1>4. CASE CheckFlags
  <2>. DEFINE st1 == [state EXCEPT !.runtime = "configuration_rejected"]
              st2 == [state EXCEPT !.runtime = "configuration_authorized"]
  <2>1. Gate("flags", Ends("activation_configuration_rejected", st1), Passes("stage154", {"flags"}, st2))
    BY <1>4 DEF CheckFlags, ConfigurationRejected
  <2>2. "flags" \in Unbuilt /\ "stage154" \in Unbuilt
    BY DEF Unbuilt
  <2>3. Quiet(state)
    BY <1>0, <2>1, <2>2 DEF Gate, Gates
  <2>4. Quiet(st1) /\ Quiet(st2)
    BY <2>3, QuietWrites
  <2>5. LocalDid("flags") \union {"flags"} = LocalDid("stage154")
    BY LocalTable
  <2>. HIDE DEF st1, st2
  <2>. QED
    BY <2>1, <2>2, <2>4, <2>5, GateKeeps DEF Gates
<1>5. CASE AuthorizeStage154
  <2>. DEFINE st1 == [state EXCEPT !.source = "stage154_rejected", !.runtime = "rejected"]
              st2 == [state EXCEPT !.source = "stage154_authorized"]
  <2>1. \/ Gate("stage154", Ends("stage154_workflow_authorization_rejected", st1), Passes("stage145", {"stage154"}, st2))
        \/ Stands("local", "stage154") /\ Raises /\ UNCHANGED <<thread, listening>>
    BY <1>5 DEF AuthorizeStage154, Gate
  <2>2. "stage154" \in Unbuilt /\ "stage145" \in Unbuilt
    BY DEF Unbuilt
  <2>3. Quiet(state)
    BY <1>0, <2>1, <2>2 DEF Gate, Gates
  <2>4. Quiet(st1) /\ Quiet(st2)
    BY <2>3, QuietWrites
  <2>5. LocalDid("stage154") \union {"stage154"} = LocalDid("stage145")
    BY LocalTable
  <2>. HIDE DEF st1, st2
  <2>. QED
    BY <2>1, <2>2, <2>4, <2>5, GateKeeps, LocalRaises DEF Gates
<1>6. CASE LoadStage145
  <2>. DEFINE st1 == [state EXCEPT !.source = "stage145_rejected", !.runtime = "rejected"]
              st2 == state
  <2>1. Gate("stage145", Ends("stage145_or_runtime_activation_rejected", st1), Passes("factory", {}, st2))
    BY <1>6 DEF LoadStage145, Stage145Rejected
  <2>2. "stage145" \in Unbuilt /\ "factory" \in Unbuilt
    BY DEF Unbuilt
  <2>3. Quiet(state)
    BY <1>0, <2>1, <2>2 DEF Gate, Gates
  <2>4. Quiet(st1) /\ Quiet(st2)
    BY <2>3, QuietWrites
  <2>5. LocalDid("stage145") \union {} = LocalDid("factory")
    BY LocalTable
  <2>. HIDE DEF st1, st2
  <2>. QED
    BY <2>1, <2>2, <2>4, <2>5, GateKeeps DEF Gates
<1>7. CASE CreateFactory
  <2>. DEFINE st1 == state
              st2 == state
  <2>1. Gate("factory", Ends("resource_or_warmup_failure", st1), Passes("bootstrap", {}, st2))
    BY <1>7 DEF CreateFactory
  <2>2. "factory" \in Unbuilt /\ "bootstrap" \in Unbuilt
    BY DEF Unbuilt
  <2>3. Quiet(state)
    BY <1>0, <2>1, <2>2 DEF Gate, Gates
  <2>4. Quiet(st1) /\ Quiet(st2)
    BY <2>3, QuietWrites
  <2>5. LocalDid("factory") \union {} = LocalDid("bootstrap")
    BY LocalTable
  <2>. HIDE DEF st1, st2
  <2>. QED
    BY <2>1, <2>2, <2>4, <2>5, GateKeeps DEF Gates
<1>8. CASE EvaluateStage145
  <2>. DEFINE st1 == [state EXCEPT !.source = "stage145_rejected", !.runtime = "rejected"]
              st2 == state
  <2>1. Gate("bootstrap", Ends("stage145_or_runtime_activation_rejected", st1), Passes("build", {"stage145"}, st2))
    BY <1>8 DEF EvaluateStage145, Stage145Rejected
  <2>2. "bootstrap" \in Unbuilt /\ "build" \in Unbuilt
    BY DEF Unbuilt
  <2>3. Quiet(state)
    BY <1>0, <2>1, <2>2 DEF Gate, Gates
  <2>4. Quiet(st1) /\ Quiet(st2)
    BY <2>3, QuietWrites
  <2>5. LocalDid("bootstrap") \union {"stage145"} = LocalDid("build")
    BY LocalTable DEF LocalGates
  <2>. HIDE DEF st1, st2
  <2>. QED
    BY <2>1, <2>2, <2>4, <2>5, GateKeeps DEF Gates
<1>. QED
  BY <1>1, <1>2, <1>3, <1>4, <1>5, <1>6, <1>7, <1>8

\* The build has counted itself by the time it, or the warm-up, can raise: the
\* exception is never taken for a refused source.
LEMMA BuildKeeps ==
  ASSUME RootsInv, BeginBuild \/ FinishBuild \/ WarmUp
  PROVE  RootsInv'
<1>. DEFINE failed == [state EXCEPT !.source = "stage145_authorized", !.runtime = "rejected"]
            warmed == [state EXCEPT !.source = "stage145_authorized", !.runtime = "eligible",
                                    !.resources = TRUE, !.warm = TRUE]
            p == proc["local"]
<1>0. ASSUME NEW pc \in Gates, Stands("local", pc)
      PROVE  /\ Quiet(state) /\ Quiet(failed) /\ failed.source = "stage145_authorized"
             /\ pc \notin {"run", "serving"}
             /\ p.pc = pc /\ pc \in LocalPc /\ p.did = LocalDid(pc) /\ p.events = <<>>
             /\ pc \in Unbuilt => p.builds = 0
             /\ pc \in {"building", "warmup"} => p.builds = 1
             /\ "local" \notin listening
  <2>1. pc \in LocalPc /\ pc \notin {"run", "serving"}
    BY GateFacts DEF Gates, Unbuilt
  <2>2. /\ p.pc = pc /\ p.did = LocalDid(pc) /\ p.events = <<>>
        /\ pc \in Unbuilt => p.builds = 0
        /\ pc \in {"building", "warmup"} => p.builds = 1
        /\ "local" \notin listening
    BY <1>0, <2>1, LocalFacts
  <2>3. Quiet(state)
    BY <1>0, <2>1, LocalFacts, GateFacts
  <2>4. Quiet(failed) /\ failed.source = "stage145_authorized"
    BY <2>3, QuietWrites
  <2>. QED
    BY <2>1, <2>2, <2>3, <2>4
<1>1. CASE BeginBuild
  <2>. DEFINE q0 == Begun
              q == [q0 EXCEPT !.builds = @ + 1]
              n == q0.builds + 1
  <2>1. Stands("local", "build") /\ Becomes("local", q) /\ UNCHANGED <<state, thread, listening>>
    BY <1>1 DEF BeginBuild
  <2>2. "build" \in Gates /\ "build" \in Unbuilt
    BY DEF Gates, Unbuilt
  <2>3. /\ Quiet(state) /\ p.pc = "build" /\ p.did = LocalDid("build") /\ p.events = <<>>
        /\ p.builds = 0 /\ "local" \notin listening
    BY <1>0, <2>1, <2>2
  <2>4. /\ IsProc(q0) /\ q0.pc = "building" /\ q0.did = p.did \union {"begun"} /\ q0.builds = 0
        /\ q0.events = <<>>
    BY <2>3, Going, "local" \in Service DEF RootsInv, Shape, Service, Begun
  <2>5. q = [q0 EXCEPT !.builds = n] /\ n = 1
    BY <2>4 DEF IsProc
  <2>6. q0.did = LocalDid("building")
    BY <2>3, <2>4, LocalTable DEF AllGates
  <2>. HIDE DEF q0, n, p, q
  <2>7. /\ IsProc(q) /\ q.pc = "building" /\ q.did = q0.did /\ q.builds = n /\ q.events = <<>>
    BY <2>4, <2>5 DEF IsProc
  <2>8. "building" \in LocalPc /\ "building" \notin Unbuilt /\ "building" \in Gates
    BY DEF LocalPc, Unbuilt, Gates
  <2>9. StateSays(LocalDid("building"), state)
    BY <2>3, <2>8, GateFacts
  <2>10. LocalInv(q, state)
    BY <2>5, <2>6, <2>7, <2>8, <2>9, LocalAt
  <2>. QED
    BY <2>1, <2>3, <2>7, <2>10, LocalMoves DEF Quiet
<1>2. CASE FinishBuild
  <2>1. Stands("local", "building") /\ Gate("building", StartRaises(p.builds), Passes("warmup", {"built"}, state))
    BY <1>2 DEF FinishBuild, Gate
  <2>2. "building" \in Gates /\ "warmup" \in Gates /\ "warmup" \notin Unbuilt /\ "building" \notin Unbuilt
    BY DEF Gates, Unbuilt
  <2>3. Quiet(state) /\ Quiet(failed) /\ failed.source = "stage145_authorized" /\ p.builds = 1
    BY <1>0, <2>1, <2>2
  <2>4. LocalDid("building") \union {"built"} = LocalDid("warmup")
    BY LocalTable
  <2>5. StartRaises(p.builds) => Ends("resource_or_warmup_failure", failed)
    BY <2>3 DEF StartRaises
  <2>6. Gate("building", Ends("resource_or_warmup_failure", failed), Passes("warmup", {"built"}, state))
    BY <2>1, <2>5 DEF Gate
  <2>. HIDE DEF failed, p
  <2>. QED
    BY <2>2, <2>3, <2>4, <2>6, GateKeeps
<1>3. CASE WarmUp
  <2>1. /\ Stands("local", "warmup") /\ UNCHANGED <<thread, listening>>
        /\ StartRaises(p.builds) \/ Passes("compose", {"warm"}, warmed)
    BY <1>3 DEF WarmUp, Gate
  <2>2. "warmup" \in Gates /\ "compose" \in LocalPc /\ "compose" \notin Unbuilt
    BY DEF Gates, Unbuilt, LocalPc
  <2>3. /\ Quiet(state) /\ Quiet(failed) /\ failed.source = "stage145_authorized" /\ p.builds = 1
        /\ p.pc = "warmup" /\ p.pc \in LocalPc /\ p.did = LocalDid("warmup") /\ "local" \notin listening
    BY <1>0, <2>1, <2>2
  <2>4. CASE StartRaises(p.builds)
    <3>1. Ends("resource_or_warmup_failure", failed)
      BY <2>3, <2>4 DEF StartRaises
    <3>2. {"warm", "bound", "started"} \intersect p.did = {}
      BY <2>2, <2>3, GateFacts
    <3>. HIDE DEF failed, p
    <3>3. LocalTruth([code |-> "resource_or_warmup_failure", fields |-> failed], p.did)
      BY <2>3, <3>2, Refusal
    <3>. QED
      BY <2>1, <2>3, <3>1, <3>3, LocalEnds DEF Quiet, p
  <2>5. CASE Passes("compose", {"warm"}, warmed)
    <3>1. IsState(state) /\ warmed = [state EXCEPT !.source = "stage145_authorized", !.runtime = "eligible",
                                    !.resources = TRUE, !.warm = TRUE]
      BY <2>3 DEF Quiet
    <3>. HIDE DEF warmed
    <3>2. /\ IsState(warmed) /\ warmed.source = "stage145_authorized" /\ warmed.runtime = "eligible"
          /\ warmed.resources = TRUE /\ warmed.bound = state.bound /\ warmed.started = state.started
      BY <3>1 DEF IsState
    <3>3. StateSays(LocalDid("compose"), warmed)
      BY <2>3, <3>2, LocalTable DEF StateSays, Quiet, AllGates, LocalGates
    <3>4. LocalDid("warmup") \union {"warm"} = LocalDid("compose")
      BY LocalTable
    <3>. QED
      BY <2>1, <2>2, <2>3, <2>5, <3>2, <3>3, <3>4, LocalPasses
  <2>. QED
    BY <2>1, <2>4, <2>5
<1>. QED
  BY <1>1, <1>2, <1>3

LEMMA OpeningKeeps ==
  ASSUME RootsInv, ComposeApp \/ Listen
  PROVE  RootsInv'
<1>. DEFINE p == proc["local"]
            created == [state EXCEPT !.transport = "created"]
            bound == [state EXCEPT !.bound = TRUE]
<1>0. IsState(state) /\ Shape
  BY DEF RootsInv, Shape
<1>a. /\ IsState(created) /\ created.source = state.source /\ created.runtime = state.runtime
      /\ created.resources = state.resources /\ created.bound = state.bound
      /\ created.started = state.started
  BY <1>0 DEF IsState
<1>b. /\ IsState(bound) /\ bound.source = state.source /\ bound.runtime = state.runtime
      /\ bound.resources = state.resources /\ bound.bound = TRUE
      /\ bound.started = state.started
  <2>1. bound = [state EXCEPT !.bound = TRUE]
    OBVIOUS
  <2>. HIDE DEF bound
  <2>. QED
    BY <1>0, <2>1 DEF IsState
<1>c. /\ "compose" \in LocalPc /\ "listen" \in LocalPc /\ "run" \in LocalPc
      /\ "compose" \notin Unbuilt /\ "listen" \notin Unbuilt /\ "run" \notin Unbuilt
  BY DEF LocalPc, Unbuilt
<1>d. /\ LocalDid("compose") \union {"app"} = LocalDid("listen")
      /\ LocalDid("listen") \union {"bound"} = LocalDid("run")
      /\ {"bound", "started"} \intersect LocalDid("compose") = {}
      /\ {"bound", "started"} \intersect LocalDid("listen") = {}
      /\ "started" \notin LocalDid("run") /\ "bound" \in LocalDid("run")
      /\ {"begun", "built", "warm"} \subseteq LocalDid("compose")
      /\ {"begun", "built", "warm"} \subseteq LocalDid("listen")
      /\ {"begun", "built", "warm"} \subseteq LocalDid("run")
  BY LocalTable DEF AllGates, LocalGates
<1>1. ASSUME NEW code, code \notin {"clean_server_return", "stage145_or_runtime_activation_rejected"},
             NEW pc \in {"compose", "listen"}, Stands("local", pc), Ends(code, state),
             UNCHANGED <<thread, listening>>
      PROVE  RootsInv'
  <2>1. /\ p.pc = pc /\ p.did = LocalDid(pc) /\ StateSays(LocalDid(pc), state)
        /\ "local" \notin listening /\ pc \in LocalPc
    BY <1>1, <1>c, LocalFacts
  <2>2. LocalTruth([code |-> code, fields |-> state], p.did)
    BY <1>1, <1>d, <2>1 DEF StateSays, LocalTruth
  <2>. QED
    BY <1>0, <1>1, <2>1, <2>2, LocalEnds
<1>2. CASE ComposeApp
  <2>. DEFINE q0 == Go("local", "listen", {"app"})
              q == [q0 EXCEPT !.transport = "created"]
  <2>1. Stands("local", "compose") /\ UNCHANGED <<thread, listening>>
    BY <1>2 DEF ComposeApp, Gate
  <2>2. CASE Ends("unexpected_composition_failure", state)
    BY <1>1, <2>1, <2>2
  <2>3. CASE Becomes("local", q) /\ state' = created
    <3>1. /\ p.pc = "compose" /\ p.did = LocalDid("compose") /\ StateSays(LocalDid("compose"), state)
          /\ "local" \notin listening /\ p.events = <<>>
      BY <1>c, <2>1, LocalFacts
    <3>2. /\ IsProc(q0) /\ q0.pc = "listen" /\ q0.did = p.did \union {"app"} /\ q0.events = p.events
      BY <1>0, Going, "local" \in Service DEF Shape, Service
    <3>3. Becomes("local", q) /\ q = [q0 EXCEPT !.transport = "created"]
      BY <2>3
    <3>. HIDE DEF q0, q, p, created
    <3>4. IsProc(q) /\ q.pc = "listen" /\ q.did = LocalDid("listen") /\ q.events = <<>>
      <4>1. IsProc(q) /\ q.pc = q0.pc /\ q.did = q0.did /\ q.events = q0.events
        BY <3>2, <3>3 DEF IsProc
      <4>. QED
        BY <1>d, <3>1, <3>2, <4>1
    <3>5. StateSays(LocalDid("listen"), created)
      BY <1>a, <1>d, <3>1 DEF StateSays
    <3>6. LocalInv(q, created)
      BY <1>c, <3>4, <3>5, LocalAt
    <3>. QED
      BY <1>a, <2>1, <2>3, <3>1, <3>3, <3>4, <3>6, LocalMoves
  <2>. QED
    BY <1>2, <2>2, <2>3 DEF ComposeApp, Gate
<1>3. CASE Listen
  <2>1. /\ Stands("local", "listen") /\ thread' = thread
        /\ \/ Ends("socket_bind_or_listen_failure", state) /\ UNCHANGED listening
           \/ Passes("run", {"bound"}, bound) /\ Opens("local")
    BY <1>3 DEF Listen
  <2>2. CASE Ends("socket_bind_or_listen_failure", state) /\ UNCHANGED listening
    BY <1>1, <2>1, <2>2
  <2>3. CASE Passes("run", {"bound"}, bound) /\ Opens("local")
    <3>1. /\ p.pc = "listen" /\ StateSays(LocalDid("listen"), state)
      BY <1>c, <2>1, LocalFacts
    <3>. HIDE DEF bound
    <3>2. StateSays(LocalDid("run"), bound)
      BY <1>b, <1>d, <3>1 DEF StateSays
    <3>3. "bound" # "bounded" /\ "bounded" \notin listening'
      BY <2>3 DEF Opens
    <3>. QED
      BY <1>b, <1>c, <1>d, <2>1, <2>3, <3>1, <3>2, <3>3, LocalPasses
  <2>. QED
    BY <2>1, <2>2, <2>3
<1>. QED
  BY <1>2, <1>3

\* The end of the local root: what it copies from the server and the transport is
\* what the server did, and its listener is closed however the server ended.
LEMMA ClosingKeeps ==
  ASSUME RootsInv, CloseAndReport
  PROVE  RootsInv'
<1>. DEFINE p == proc["local"]
            st == Observed(p)
            code == LocalCode(p)
            up == "started" \in p.did
            tr == p.transport
<1>1. Stands("local", "ended") /\ Ends(code, st) /\ Closes("local") /\ thread' = thread
  BY DEF CloseAndReport
<1>2. /\ p.pc = "ended" /\ p.did \in {LocalDid("run"), LocalDid("serving")}
      /\ "started" \in p.did /\ p.outcome = "return" => p.transport = "closed"
      /\ StateSays(p.did, state)
  BY <1>1 DEF RootsInv, LocalInv, Stands
<1>3. IsState(state)
  BY DEF RootsInv, Shape
<1>4. st = [state EXCEPT !.started = up, !.transport = tr]
  BY DEF Observed
<1>. HIDE DEF st, up, tr
<1>5. /\ IsState(st) /\ st.source = state.source /\ st.runtime = state.runtime
      /\ st.resources = state.resources /\ st.bound = state.bound
      /\ st.started = up /\ st.transport = tr
  BY <1>3, <1>4 DEF IsState
<1>6. {"begun", "built", "warm", "bound"} \subseteq p.did
  BY <1>2, LocalTable DEF AllGates
<1>7. /\ code # "stage145_or_runtime_activation_rejected"
      /\ code = "clean_server_return" => p.outcome = "return" /\ "started" \in p.did
  BY DEF LocalCode
<1>. HIDE DEF code
<1>8. st.started <=> "started" \in p.did
  BY <1>5 DEF up
<1>9. LocalTruth([code |-> code, fields |-> st], p.did)
  BY <1>2, <1>5, <1>6, <1>7, <1>8 DEF StateSays, LocalTruth, tr
<1>10. /\ "local" \notin listening'
       /\ "bounded" \in listening' => "bounded" \in listening
  BY <1>1 DEF Closes
<1>. QED
  BY <1>1, <1>2, <1>5, <1>9, <1>10, LocalEnds

LEMMA LocalStepKeeps ==
  ASSUME RootsInv, LocalStep
  PROVE  RootsInv'
BY GatesKeep, BuildKeeps, OpeningKeeps, ClosingKeeps DEF LocalStep

-------------------------------------------------------------------------------
(* The steps of the bounded root, of Uvicorn and of Ctrl-C.                *)

\* What the invariant says of the bounded root before its server's end.
LEMMA BoundedFacts ==
  ASSUME RootsInv, NEW pc \in BoundedPc, Stands("bounded", pc)
  PROVE  /\ proc["bounded"].pc = pc /\ proc["bounded"].did = BoundedDid(pc)
         /\ proc["bounded"].events = <<>> /\ IsProc(proc["bounded"])
         /\ thread => pc = "turn"
         /\ "bounded" \in listening => Milestones \subseteq BoundedDid(pc)
BY "bounded" \in Service DEF RootsInv, BoundedInv, Shape, Doors, Stands, BoundedPc, Service

\* The bounded root's process at a step before its server's end.
LEMMA BoundedAt ==
  ASSUME NEW p, p.pc \in BoundedPc, p.did = BoundedDid(p.pc), p.events = <<>>
  PROVE  BoundedInv(p)
BY DEF BoundedInv, BoundedPc, Over

\* Its next step.
LEMMA BoundedPasses ==
  ASSUME RootsInv, NEW pc \in BoundedPc, NEW next \in BoundedPc, NEW more,
         Stands("bounded", pc), Becomes("bounded", Go("bounded", next, more)),
         BoundedDid(pc) \union more = BoundedDid(next),
         UNCHANGED <<state, listening>>, thread' => next = "turn"
  PROVE  RootsInv'
<1>. DEFINE q == Go("bounded", next, more)
            p == proc["bounded"]
<1>1. /\ p.pc = pc /\ p.did = BoundedDid(pc) /\ p.events = <<>> /\ IsProc(p)
      /\ "bounded" \in listening => Milestones \subseteq BoundedDid(pc)
  BY BoundedFacts
<1>2. IsProc(q) /\ q.pc = next /\ q.did = p.did \union more /\ q.events = p.events
  BY <1>1, Going, "bounded" \in Service DEF Service
<1>. HIDE DEF q, p
<1>3. BoundedInv(q)
  BY <1>1, <1>2, BoundedAt
<1>. QED
  BY <1>1, <1>2, <1>3, BoundedMoves DEF q

\* Its event, when it is due to be truthful.
LEMMA BoundedReports ==
  ASSUME RootsInv, NEW code, NEW prepared, EmitResult(code, prepared),
         proc["bounded"].pc \in BoundedPc \union {"ended"},
         StartupProgress(code, prepared) = proc["bounded"].did \intersect Milestones,
         prepared \/ "started" \notin proc["bounded"].did,
         UNCHANGED <<state, listening>>, ~thread'
  PROVE  RootsInv'
<1>. DEFINE p == proc["bounded"]
            e == [code |-> code, progress |-> StartupProgress(code, prepared),
                  started |-> prepared /\ "started" \in p.did]
            q == proc'["bounded"]
<1>1. p.events = <<>> /\ BoundedTruth(e, p.did)
  BY DEF RootsInv, BoundedInv, BoundedTruth
<1>2. Reports("bounded", code, e)
  BY DEF EmitResult
<1>. HIDE DEF e
<1>3. /\ q.pc = "done" /\ q.did = p.did /\ q.events = <<e>> /\ IsProc(q)
      /\ proc'["local"] = proc["local"]
      /\ proc' = [t \in Service |-> proc'[t]]
      /\ \A t \in Service : IsProc(proc'[t])
  BY <1>1, <1>2, Report, "bounded" \in Service, "local" \in Service \ {"bounded"} DEF Service, RootsInv
<1>4. BoundedInv(q)
  <2>1. q.events = <<q.events[1]>> /\ q.events[1] = e
    BY <1>3
  <2>2. q.pc \in Over /\ q.pc \notin BoundedPc /\ q.pc # "ended"
    BY <1>3 DEF Over, BoundedPc
  <2>. QED
    BY <1>1, <1>3, <2>1, <2>2 DEF BoundedInv
<1>5. Shape'
  BY <1>3 DEF Shape, IsProc, IsState, RootsInv
<1>6. Doors'
  BY <1>3 DEF Doors, RootsInv
<1>. QED
  BY <1>3, <1>4, <1>5, <1>6 DEF RootsInv

\* Its silent end.
LEMMA BoundedSilent ==
  ASSUME RootsInv, NEW code, Silent("bounded", code),
         proc["bounded"].pc \in BoundedPc \union {"ended"},
         \/ code = "interrupted" \/ proc["bounded"].did = {}
         \/ code = "uncaught" /\ {"stage154", "warm"} \intersect proc["bounded"].did = {},
         UNCHANGED <<state, listening>>, ~thread'
  PROVE  RootsInv'
<1>. DEFINE p == proc["bounded"]
            q == [p EXCEPT !.pc = "done", !.code = code]
<1>1. /\ Becomes("bounded", q) /\ p.events = <<>> /\ IsProc(p)
      /\ "bounded" \in listening => Milestones \subseteq p.did
  BY "bounded" \in Service DEF Silent, RootsInv, BoundedInv, Shape, Doors, Service
<1>2. q = [p EXCEPT !.pc = "done", !.code = code]
  OBVIOUS
<1>. HIDE DEF q, p
<1>3. IsProc(q) /\ q.pc = "done" /\ q.did = p.did /\ q.code = code /\ q.events = p.events
  BY <1>1, <1>2 DEF IsProc
<1>4. BoundedInv(q)
  BY <1>1, <1>3 DEF BoundedInv, Unguarded, Over, BoundedPc, p
<1>. QED
  BY <1>1, <1>3, <1>4, BoundedMoves DEF p

\* Before the server is prepared, the exit code tells the completed stages.
LEMMA ProgressOfCodes ==
  /\ StartupProgress("activation_configuration_rejected", FALSE) = BoundedDid("flags") \intersect Milestones
  /\ StartupProgress("stage157_or_source_authorization_rejected", FALSE)
       = BoundedDid("sources") \intersect Milestones
  /\ StartupProgress("resource_initialization_failed", FALSE) = BoundedDid("build") \intersect Milestones
  /\ StartupProgress("model_initialization_failed", FALSE) = BoundedDid("model") \intersect Milestones
  /\ StartupProgress("warmup_failed", FALSE) = BoundedDid("turn") \intersect Milestones
  /\ StartupProgress("app_composition_failed", FALSE) = BoundedDid("app") \intersect Milestones
<1>1. StartupProgress("activation_configuration_rejected", FALSE) = BoundedDid("flags") \intersect Milestones
  BY BoundedTable DEF StartupProgress, Milestones
<1>2. StartupProgress("stage157_or_source_authorization_rejected", FALSE)
       = BoundedDid("sources") \intersect Milestones
  BY BoundedTable DEF StartupProgress, Milestones
<1>3. StartupProgress("resource_initialization_failed", FALSE) = BoundedDid("build") \intersect Milestones
  BY BoundedTable DEF StartupProgress, Milestones
<1>4. StartupProgress("model_initialization_failed", FALSE) = BoundedDid("model") \intersect Milestones
  BY BoundedTable DEF StartupProgress, Milestones
<1>5. StartupProgress("warmup_failed", FALSE) = BoundedDid("turn") \intersect Milestones
  BY BoundedTable DEF StartupProgress, Milestones
<1>6. StartupProgress("app_composition_failed", FALSE) = BoundedDid("app") \intersect Milestones
  BY BoundedTable DEF StartupProgress, Milestones
<1>. QED
  BY <1>1, <1>2, <1>3, <1>4, <1>5, <1>6

\* Once it is prepared, all of them are.
LEMMA ProgressPrepared ==
  ASSUME NEW code
  PROVE  StartupProgress(code, TRUE) = Milestones
BY DEF StartupProgress, Milestones

\* A gate of the bounded root: its code reports what the steps before it completed.
LEMMA BoundedGateKeeps ==
  ASSUME RootsInv, NEW pc \in BoundedPc \ {"run", "serving"}, NEW code,
         NEW next \in BoundedPc \ {"turn"}, NEW more,
         Stands("bounded", pc), UNCHANGED <<state, listening>>, ~thread',
         EmitResult(code, FALSE) \/ Becomes("bounded", Go("bounded", next, more)),
         BoundedDid(pc) \union more = BoundedDid(next),
         StartupProgress(code, FALSE) = BoundedDid(pc) \intersect Milestones
  PROVE  RootsInv'
<1>1. proc["bounded"].pc = pc /\ proc["bounded"].did = BoundedDid(pc)
  BY BoundedFacts
<1>2. "started" \notin BoundedDid(pc)
  BY BoundedTable DEF BoundedPc, Milestones
<1>3. CASE EmitResult(code, FALSE)
  BY <1>1, <1>2, <1>3, BoundedReports
<1>4. CASE Becomes("bounded", Go("bounded", next, more))
  BY <1>4, BoundedPasses
<1>. QED
  BY <1>3, <1>4

LEMMA BoundedStepKeeps ==
  ASSUME RootsInv, BoundedStep
  PROVE  RootsInv'
<1>. DEFINE p == proc["bounded"]
<1>0. ASSUME NEW pc \in BoundedPc \ {"turn"}, Stands("bounded", pc)
      PROVE  p.pc = pc /\ p.did = BoundedDid(pc) /\ ~thread
  BY <1>0, BoundedFacts
<1>1. CASE ParseBoundedCli
  <2>1. /\ Stands("bounded", "cli") /\ UNCHANGED <<state, thread, listening>>
        /\ Silent("bounded", "cli_contract_invalid") \/ Becomes("bounded", Go("bounded", "settings", {}))
    BY <1>1 DEF ParseBoundedCli, Stage
  <2>2. "cli" \in BoundedPc \ {"turn"} /\ "settings" \in BoundedPc
    BY DEF BoundedPc
  <2>3. p.pc \in BoundedPc /\ p.did = {} /\ ~thread
    BY <1>0, <2>1, <2>2, BoundedTable
  <2>4. BoundedDid("cli") \union {} = BoundedDid("settings")
    BY BoundedTable
  <2>. QED
    BY <2>1, <2>2, <2>3, <2>4, BoundedSilent, BoundedPasses
<1>2. CASE LoadBoundedSettings
  <2>1. /\ Stands("bounded", "settings") /\ UNCHANGED <<state, thread, listening>>
        /\ \/ \E code : Silent("bounded", code)
           \/ Becomes("bounded", Go("bounded", "flags", {}))
    BY <1>2 DEF LoadBoundedSettings, Stage, Uncaught
  <2>2. "settings" \in BoundedPc \ {"turn"} /\ "flags" \in BoundedPc
    BY DEF BoundedPc
  <2>3. p.pc \in BoundedPc /\ p.did = {} /\ ~thread
    BY <1>0, <2>1, <2>2, BoundedTable
  <2>4. BoundedDid("settings") \union {} = BoundedDid("flags")
    BY BoundedTable
  <2>. QED
    BY <2>1, <2>2, <2>3, <2>4, BoundedSilent, BoundedPasses
<1>3. CASE CheckActivation
  <2>1. /\ Stands("bounded", "flags") /\ thread' = thread /\ UNCHANGED <<state, listening>>
        /\ EmitResult("activation_configuration_rejected", FALSE) \/ Becomes("bounded", Go("bounded", "sources", {"flags"}))
    BY <1>3 DEF CheckActivation, Stage
  <2>2. "flags" \in BoundedPc \ {"run", "serving"} /\ "sources" \in BoundedPc \ {"turn"}
    BY DEF BoundedPc
  <2>3. ~thread'
    BY <1>0, <2>1, <2>2
  <2>4. BoundedDid("flags") \union {"flags"} = BoundedDid("sources")
    BY BoundedTable
  <2>. QED
    BY <2>1, <2>2, <2>3, <2>4, ProgressOfCodes, BoundedGateKeeps
<1>4. CASE AuthorizeSources
  <2>1. /\ Stands("bounded", "sources") /\ thread' = thread /\ UNCHANGED <<state, listening>>
        /\ \/ Silent("bounded", "uncaught")
           \/ EmitResult("stage157_or_source_authorization_rejected", FALSE)
           \/ Becomes("bounded", Go("bounded", "build", {"sources"}))
    BY <1>4 DEF AuthorizeSources, Stage, Uncaught
  <2>2. "sources" \in BoundedPc \ {"run", "serving"} /\ "build" \in BoundedPc \ {"turn"}
    BY DEF BoundedPc
  <2>3. ~thread'
    BY <1>0, <2>1, <2>2
  <2>4. BoundedDid("sources") \union {"sources"} = BoundedDid("build")
    BY BoundedTable
  <2>5. CASE Silent("bounded", "uncaught")
    <3>1. p.pc \in BoundedPc /\ {"stage154", "warm"} \intersect p.did = {}
      BY <1>0, <2>1, <2>2, BoundedTable
    <3>. QED
      BY <2>1, <2>3, <2>5, <3>1, BoundedSilent
  <2>. QED
    BY <2>1, <2>2, <2>3, <2>4, <2>5, ProgressOfCodes, BoundedGateKeeps
<1>5. CASE BuildResources
  <2>1. /\ Stands("bounded", "build") /\ thread' = thread /\ UNCHANGED <<state, listening>>
        /\ EmitResult("resource_initialization_failed", FALSE) \/ Becomes("bounded", Go("bounded", "model", {"built"}))
    BY <1>5 DEF BuildResources, Stage
  <2>2. "build" \in BoundedPc \ {"run", "serving"} /\ "model" \in BoundedPc \ {"turn"}
    BY DEF BoundedPc
  <2>3. ~thread'
    BY <1>0, <2>1, <2>2
  <2>4. BoundedDid("build") \union {"built"} = BoundedDid("model")
    BY BoundedTable
  <2>. QED
    BY <2>1, <2>2, <2>3, <2>4, ProgressOfCodes, BoundedGateKeeps
<1>6. CASE LoadModel
  <2>1. /\ Stands("bounded", "model") /\ thread' = thread /\ UNCHANGED <<state, listening>>
        /\ EmitResult("model_initialization_failed", FALSE) \/ Becomes("bounded", Go("bounded", "runtime", {"model"}))
    BY <1>6 DEF LoadModel, Stage
  <2>2. "model" \in BoundedPc \ {"run", "serving"} /\ "runtime" \in BoundedPc \ {"turn"}
    BY DEF BoundedPc
  <2>3. ~thread'
    BY <1>0, <2>1, <2>2
  <2>4. BoundedDid("model") \union {"model"} = BoundedDid("runtime")
    BY BoundedTable
  <2>. QED
    BY <2>1, <2>2, <2>3, <2>4, ProgressOfCodes, BoundedGateKeeps
<1>7. CASE RunWarmupTurn
  <2>1. /\ Stands("bounded", "turn") /\ ~thread' /\ UNCHANGED <<state, listening>>
        /\ EmitResult("warmup_failed", FALSE) \/ Becomes("bounded", Go("bounded", "app", {"warm"}))
    BY <1>7 DEF RunWarmupTurn
  <2>2. "turn" \in BoundedPc \ {"run", "serving"} /\ "app" \in BoundedPc \ {"turn"}
    BY DEF BoundedPc
  <2>4. BoundedDid("turn") \union {"warm"} = BoundedDid("app")
    BY BoundedTable
  <2>. QED
    BY <2>1, <2>2, <2>4, ProgressOfCodes, BoundedGateKeeps
<1>8. CASE OpenWarmupThread
  <2>1. /\ Stands("bounded", "warmup") /\ UNCHANGED <<state, listening>>
        /\ Becomes("bounded", Go("bounded", "turn", {}))
    BY <1>8 DEF OpenWarmupThread
  <2>2. "warmup" \in BoundedPc /\ "turn" \in BoundedPc /\ BoundedDid("warmup") \union {} = BoundedDid("turn")
    BY BoundedTable DEF BoundedPc
  <2>. QED
    BY <2>1, <2>2, BoundedPasses
<1>9. CASE ComposeBoundedApp
  <2>. DEFINE q0 == Go("bounded", "run", {"app"})
              q == [q0 EXCEPT !.transport = "created"]
  <2>1. /\ Stands("bounded", "app") /\ UNCHANGED <<state, thread, listening>>
        /\ EmitResult("app_composition_failed", FALSE) \/ Becomes("bounded", q)
    BY <1>9 DEF ComposeBoundedApp
  <2>2. /\ "app" \in BoundedPc \ {"turn"} /\ "run" \in BoundedPc
        /\ "app" \notin {"run", "serving"}
    BY DEF BoundedPc
  <2>3. p.pc = "app" /\ p.did = BoundedDid("app") /\ ~thread /\ p.events = <<>> /\ IsProc(p)
        /\ ("bounded" \in listening => Milestones \subseteq p.did)
    BY <1>0, <2>1, <2>2, BoundedFacts
  <2>4. BoundedDid("app") \union {"app"} = BoundedDid("run")
    BY BoundedTable DEF Milestones
  <2>5. "started" \notin p.did
    BY <2>3, BoundedTable
  <2>6. CASE EmitResult("app_composition_failed", FALSE)
    BY <2>1, <2>2, <2>3, <2>5, <2>6, ProgressOfCodes, BoundedReports
  <2>7. CASE Becomes("bounded", q)
    <3>1. IsProc(q0) /\ q0.pc = "run" /\ q0.did = p.did \union {"app"} /\ q0.events = p.events
      BY <2>3, Going, "bounded" \in Service DEF Service
    <3>2. q = [q0 EXCEPT !.transport = "created"]
      OBVIOUS
    <3>. HIDE DEF q, q0, p
    <3>3. IsProc(q) /\ q.pc = q0.pc /\ q.did = q0.did /\ q.events = q0.events
      BY <3>1, <3>2 DEF IsProc
    <3>4. BoundedInv(q)
      BY <2>2, <2>3, <2>4, <3>1, <3>3, BoundedAt
    <3>. QED
      BY <2>1, <2>3, <2>7, <3>1, <3>3, <3>4, BoundedMoves
  <2>. QED
    BY <2>1, <2>6, <2>7
<1>10. CASE ReportServer
  <2>1. /\ Stands("bounded", "ended") /\ UNCHANGED <<state, thread, listening>>
        /\ \/ Silent("bounded", "interrupted")
           \/ \E code \in {"clean_server_return", "server_or_lifespan_failed"} : EmitResult(code, TRUE)
    BY <1>10 DEF ReportServer
  <2>2. p.pc = "ended" /\ p.did \in {Milestones, Milestones \union {"started"}} /\ ~thread
    BY <2>1, BoundedTable DEF Stands, RootsInv, BoundedInv, Doors
  <2>3. p.did \intersect Milestones = Milestones
    BY <2>2
  <2>. QED
    BY <2>1, <2>2, <2>3, ProgressPrepared, BoundedReports, BoundedSilent
<1>11. CASE CreateRuntime
  <2>1. /\ Stands("bounded", "runtime") /\ UNCHANGED <<state, thread, listening>>
        /\ Silent("bounded", "uncaught") \/ Becomes("bounded", Go("bounded", "warmup", {}))
    BY <1>11 DEF CreateRuntime, Stage, Uncaught
  <2>2. "runtime" \in BoundedPc \ {"turn"} /\ "warmup" \in BoundedPc
    BY DEF BoundedPc
  <2>3. p.pc \in BoundedPc /\ {"stage154", "warm"} \intersect p.did = {} /\ ~thread
    BY <1>0, <2>1, <2>2, BoundedTable
  <2>4. BoundedDid("runtime") \union {} = BoundedDid("warmup")
    BY BoundedTable
  <2>. QED
    BY <2>1, <2>2, <2>3, <2>4, BoundedSilent, BoundedPasses
<1>. QED
  BY <1>1, <1>2, <1>3, <1>4, <1>5, <1>6, <1>7, <1>8, <1>9, <1>10, <1>11 DEF BoundedStep

\* A local process whose server has ended.
LEMMA LocalEnded ==
  ASSUME NEW p, NEW st, p.pc = "ended", p.did \in {LocalDid("run"), LocalDid("serving")},
         "started" \in p.did /\ p.outcome = "return" => p.transport = "closed",
         p.events = <<>>, StateSays(p.did, st)
  PROVE  LocalInv(p, st)
BY DEF LocalInv, LocalPc, Over, Unbuilt

LEMMA BoundedEnded ==
  ASSUME NEW p, p.pc = "ended", p.did \in {BoundedDid("run"), BoundedDid("serving")}, p.events = <<>>
  PROVE  BoundedInv(p)
BY DEF BoundedInv, BoundedPc, Over

\* Going on without having completed more.
LEMMA GoingOn ==
  ASSUME NEW s \in Service, IsProc(proc[s]), NEW pc, NEW q, q = Go(s, pc, {})
  PROVE  IsProc(q) /\ q.pc = pc /\ q.did = proc[s].did /\ q.events = proc[s].events
<1>. DEFINE none == {}
<1>1. q = Go(s, pc, none)
  OBVIOUS
<1>2. proc[s].did \union none = proc[s].did
  OBVIOUS
<1>. HIDE DEF none
<1>3. IsProc(q) /\ q.pc = pc /\ q.did = proc[s].did \union none /\ q.events = proc[s].events
  BY <1>1, Going
<1>. QED
  BY <1>2, <1>3, Zenon

LEMMA LocalServerKeeps ==
  ASSUME RootsInv,
         \/ Serve("local")
         \/ \E o \in {"return", "raise", "interrupt"} : DoNotServe("local", o) \/ StopServing("local", o)
  PROVE  RootsInv'
<1>. DEFINE p == proc["local"]
<1>0. IsProc(p) /\ IsState(state) /\ "local" \in Service
  BY DEF RootsInv, Shape, Service
<1>a. /\ LocalDid("run") \union {"started"} = LocalDid("serving")
      /\ "started" \notin LocalDid("run")
      /\ {"built", "warm", "bound"} \subseteq LocalDid("run")
      /\ {"built", "warm", "bound"} \subseteq LocalDid("serving")
  BY LocalTable DEF AllGates, LocalGates
<1>b. "run" \in LocalPc /\ "serving" \in LocalPc /\ "run" \notin Unbuilt /\ "serving" \notin Unbuilt
  BY DEF LocalPc, Unbuilt
<1>c. ASSUME NEW pc \in {"run", "serving"}, Stands("local", pc)
      PROVE  /\ p.pc = pc /\ p.did = LocalDid(pc) /\ p.events = <<>> /\ StateSays(LocalDid(pc), state)
             /\ StateSays(LocalDid("serving"), state)
  <2>1. p.pc = pc /\ p.did = LocalDid(pc) /\ p.events = <<>> /\ StateSays(LocalDid(pc), state)
    BY <1>b, <1>c, LocalFacts
  <2>. QED
    BY <1>a, <2>1 DEF StateSays
<1>1. CASE Serve("local")
  <2>. DEFINE g == Go("local", "serving", {"started"})
              q == [g EXCEPT !.transport = "running"]
  <2>1. Stands("local", "run") /\ Becomes("local", q) /\ UNCHANGED <<state, thread, listening>>
    BY <1>1 DEF Serve
  <2>2. p.did = LocalDid("run") /\ p.events = <<>> /\ StateSays(LocalDid("serving"), state)
    BY <1>c, <2>1
  <2>3. IsProc(q) /\ q.pc = "serving" /\ q.did = p.did \union {"started"} /\ q.events = p.events
    <3>1. IsProc(g) /\ g.pc = "serving" /\ g.did = p.did \union {"started"} /\ g.events = p.events
      BY <1>0, Going
    <3>2. q = [g EXCEPT !.transport = "running"]
      OBVIOUS
    <3>. HIDE DEF g, p, q
    <3>3. IsProc(q) /\ q.pc = g.pc /\ q.did = g.did /\ q.events = g.events
      BY <3>1, <3>2 DEF IsProc
    <3>. QED
      BY <3>1, <3>3
  <2>. HIDE DEF q, p, g
  <2>a. q.did = LocalDid("serving")
    BY <1>a, <2>2, <2>3, Zenon
  <2>4. LocalInv(q, state)
    BY <1>b, <2>2, <2>3, <2>a, LocalAt
  <2>. QED
    BY <1>0, <2>1, <2>3, <2>4, LocalMoves
<1>2. ASSUME NEW o, DoNotServe("local", o) PROVE RootsInv'
  <2>. DEFINE g == Go("local", "ended", {})
              q == [g EXCEPT !.outcome = o]
  <2>1. Stands("local", "run") /\ Becomes("local", q) /\ UNCHANGED <<state, thread, listening>>
    BY <1>2 DEF DoNotServe
  <2>2. p.did = LocalDid("run") /\ p.events = <<>> /\ StateSays(LocalDid("run"), state)
    BY <1>c, <2>1
  <2>3. IsProc(q) /\ q.pc = "ended" /\ q.did = p.did /\ q.events = p.events
    <3>1. IsProc(g) /\ g.pc = "ended" /\ g.did = p.did /\ g.events = p.events
      BY <1>0, GoingOn
    <3>2. q = [g EXCEPT !.outcome = o]
      OBVIOUS
    <3>. HIDE DEF g, p, q
    <3>3. IsProc(q) /\ q.pc = g.pc /\ q.did = g.did /\ q.events = g.events
      BY <3>1, <3>2 DEF IsProc
    <3>. QED
      BY <3>1, <3>3
  <2>. HIDE DEF q, p, g
  <2>4. LocalInv(q, state)
    BY <1>a, <2>2, <2>3, LocalEnded
  <2>. QED
    BY <1>0, <2>1, <2>3, <2>4, LocalMoves
<1>3. ASSUME NEW o, StopServing("local", o) PROVE RootsInv'
  <2>. DEFINE g == Go("local", "ended", {})
              q1 == [g EXCEPT !.outcome = o, !.transport = "closed"]
              q2 == [g EXCEPT !.outcome = o]
  <2>1. /\ Stands("local", "serving") /\ UNCHANGED <<state, thread>> /\ listening' \subseteq listening
        /\ Becomes("local", q1) \/ (Becomes("local", q2) /\ o = "raise")
    BY <1>3 DEF StopServing, Closes
  <2>2. p.did = LocalDid("serving") /\ p.events = <<>> /\ StateSays(LocalDid("serving"), state)
    BY <1>c, <2>1
  <2>3. /\ IsProc(q1) /\ q1.pc = "ended" /\ q1.did = p.did /\ q1.events = p.events
        /\ q1.transport = "closed"
    <3>1. IsProc(g) /\ g.pc = "ended" /\ g.did = p.did /\ g.events = p.events
      BY <1>0, GoingOn
    <3>2. q1 = [g EXCEPT !.outcome = o, !.transport = "closed"]
      OBVIOUS
    <3>. HIDE DEF g, p, q1
    <3>3. IsProc(q1) /\ q1.pc = g.pc /\ q1.did = g.did /\ q1.events = g.events /\ q1.transport = "closed"
      BY <3>1, <3>2 DEF IsProc
    <3>. QED
      BY <3>1, <3>3
  <2>4. /\ IsProc(q2) /\ q2.pc = "ended" /\ q2.did = p.did /\ q2.events = p.events
        /\ q2.outcome = o
    <3>1. IsProc(g) /\ g.pc = "ended" /\ g.did = p.did /\ g.events = p.events
      BY <1>0, GoingOn
    <3>2. q2 = [g EXCEPT !.outcome = o]
      OBVIOUS
    <3>. HIDE DEF g, p, q2
    <3>3. IsProc(q2) /\ q2.pc = g.pc /\ q2.did = g.did /\ q2.events = g.events /\ q2.outcome = o
      BY <3>1, <3>2 DEF IsProc
    <3>. QED
      BY <3>1, <3>3
  <2>. HIDE DEF q1, q2, p, g
  <2>5. CASE Becomes("local", q1)
    <3>1. LocalInv(q1, state)
      BY <1>a, <2>2, <2>3, LocalEnded
    <3>. QED
      BY <1>0, <2>1, <2>3, <2>5, <3>1, LocalMoves
  <2>6. CASE Becomes("local", q2) /\ o = "raise"
    <3>1. LocalInv(q2, state)
      BY <1>a, <2>2, <2>4, <2>6, LocalEnded
    <3>. QED
      BY <1>0, <2>1, <2>4, <2>6, <3>1, LocalMoves
  <2>. QED
    BY <2>1, <2>5, <2>6
<1>. QED
  BY <1>1, <1>2, <1>3

LEMMA BoundedServerKeeps ==
  ASSUME RootsInv,
         \/ Serve("bounded")
         \/ \E o \in {"return", "raise", "interrupt"} : DoNotServe("bounded", o) \/ StopServing("bounded", o)
  PROVE  RootsInv'
<1>. DEFINE p == proc["bounded"]
<1>0. IsProc(p) /\ "bounded" \in Service
  BY DEF RootsInv, Shape, Service
<1>a. /\ BoundedDid("run") \union {"started"} = BoundedDid("serving")
      /\ Milestones \subseteq BoundedDid("run") /\ Milestones \subseteq BoundedDid("serving")
  BY BoundedTable
<1>b. "run" \in BoundedPc /\ "serving" \in BoundedPc
  BY DEF BoundedPc
<1>c. ASSUME NEW pc \in {"run", "serving"}, Stands("bounded", pc)
      PROVE  p.pc = pc /\ p.did = BoundedDid(pc) /\ p.events = <<>> /\ ~thread
  BY <1>b, <1>c, BoundedFacts
<1>1. CASE Serve("bounded")
  <2>. DEFINE g == Go("bounded", "serving", {"started"})
              q == [g EXCEPT !.transport = "running"]
  <2>1. /\ Stands("bounded", "run") /\ Becomes("bounded", q) /\ UNCHANGED <<state, thread>>
        /\ listening' = {"bounded"}
    BY <1>1 DEF Serve, Opens
  <2>2. p.did = BoundedDid("run") /\ p.events = <<>> /\ ~thread
    BY <1>c, <2>1
  <2>3. IsProc(q) /\ q.pc = "serving" /\ q.did = p.did \union {"started"} /\ q.events = p.events
    <3>1. IsProc(g) /\ g.pc = "serving" /\ g.did = p.did \union {"started"} /\ g.events = p.events
      BY <1>0, Going
    <3>2. q = [g EXCEPT !.transport = "running"]
      OBVIOUS
    <3>. HIDE DEF g, p, q
    <3>3. IsProc(q) /\ q.pc = g.pc /\ q.did = g.did /\ q.events = g.events
      BY <3>1, <3>2 DEF IsProc
    <3>. QED
      BY <3>1, <3>3
  <2>. HIDE DEF q, p, g
  <2>4. BoundedInv(q)
    BY <1>a, <1>b, <2>2, <2>3, BoundedAt
  <2>. QED
    BY <1>a, <2>1, <2>2, <2>3, <2>4, BoundedMoves
<1>2. ASSUME NEW o, DoNotServe("bounded", o) \/ StopServing("bounded", o) PROVE RootsInv'
  <2>. DEFINE g == Go("bounded", "ended", {})
              q1 == [g EXCEPT !.outcome = o, !.transport = "closed"]
              q2 == [g EXCEPT !.outcome = o]
  <2>1. /\ Stands("bounded", "run") \/ Stands("bounded", "serving")
        /\ UNCHANGED <<state, thread>> /\ listening' \subseteq listening
        /\ Becomes("bounded", q1) \/ Becomes("bounded", q2)
    BY <1>2 DEF DoNotServe, StopServing, Closes
  <2>2. p.did \in {BoundedDid("run"), BoundedDid("serving")} /\ p.events = <<>> /\ ~thread
    BY <1>c, <2>1
  <2>3. IsProc(q1) /\ q1.pc = "ended" /\ q1.did = p.did /\ q1.events = p.events
    <3>1. IsProc(g) /\ g.pc = "ended" /\ g.did = p.did /\ g.events = p.events
      BY <1>0, GoingOn
    <3>2. q1 = [g EXCEPT !.outcome = o, !.transport = "closed"]
      OBVIOUS
    <3>. HIDE DEF g, p, q1
    <3>3. IsProc(q1) /\ q1.pc = g.pc /\ q1.did = g.did /\ q1.events = g.events
      BY <3>1, <3>2 DEF IsProc
    <3>. QED
      BY <3>1, <3>3
  <2>4. IsProc(q2) /\ q2.pc = "ended" /\ q2.did = p.did /\ q2.events = p.events
    <3>1. IsProc(g) /\ g.pc = "ended" /\ g.did = p.did /\ g.events = p.events
      BY <1>0, GoingOn
    <3>2. q2 = [g EXCEPT !.outcome = o]
      OBVIOUS
    <3>. HIDE DEF g, p, q2
    <3>3. IsProc(q2) /\ q2.pc = g.pc /\ q2.did = g.did /\ q2.events = g.events
      BY <3>1, <3>2 DEF IsProc
    <3>. QED
      BY <3>1, <3>3
  <2>. HIDE DEF q1, q2, p, g
  <2>5. ASSUME NEW q, q \in {q1, q2}, Becomes("bounded", q) PROVE RootsInv'
    <3>1. BoundedInv(q) /\ IsProc(q) /\ Milestones \subseteq q.did
      BY <1>a, <2>2, <2>3, <2>4, <2>5, BoundedEnded
    <3>2. "local" \in listening' => "local" \in listening
      BY <2>1
    <3>. QED
      BY <2>1, <2>2, <2>5, <3>1, <3>2, BoundedMoves
  <2>. QED
    BY <2>1, <2>5
<1>. QED
  BY <1>1, <1>2

\* Ctrl-C before the server runs.
LEMMA InterruptKeeps ==
  ASSUME RootsInv, NEW s \in Service, Interrupt(s)
  PROVE  RootsInv'
<1>. DEFINE p == proc[s]
            q == [p EXCEPT !.pc = "done", !.code = "interrupted"]
<1>1. /\ Becomes(s, q) /\ UNCHANGED <<state, listening>> /\ thread' = (thread /\ s = "local")
      /\ p.pc \notin {"run", "serving", "ended", "done", "gone"}
  BY DEF Interrupt, Silent
<1>2. CASE s = "local"
  <2>1. IsProc(p) /\ IsState(state) /\ p.events = <<>> /\ "local" \notin listening
    BY <1>1, <1>2 DEF RootsInv, Shape, LocalInv, Doors, Over
  <2>2. q = [p EXCEPT !.pc = "done", !.code = "interrupted"]
    OBVIOUS
  <2>3. Becomes("local", q)
    BY <1>1, <1>2
  <2>. HIDE DEF q, p
  <2>4. IsProc(q) /\ q.pc = "done" /\ q.did = p.did /\ q.code = "interrupted" /\ q.events = p.events
    BY <2>1, <2>2 DEF IsProc
  <2>5. LocalInv(q, state)
    BY <2>1, <2>4 DEF LocalInv, LocalPc, Over, Unbuilt
  <2>6. thread' => thread
    BY <1>1
  <2>. QED
    BY <1>1, <2>1, <2>3, <2>4, <2>5, <2>6, LocalMoves
<1>3. CASE s = "bounded"
  <2>1. p.pc \in BoundedPc
    BY <1>1, <1>3 DEF RootsInv, BoundedInv, Over
  <2>. QED
    BY <1>1, <1>3, <2>1, BoundedSilent DEF Interrupt
<1>. QED
  BY <1>2, <1>3 DEF Service

\* What is left of a process that exits.
LEMMA ExitKeeps ==
  ASSUME RootsInv, NEW s \in Service, ProcessExits(s)
  PROVE  RootsInv'
<1>. DEFINE p == proc[s]
            q == [p EXCEPT !.pc = "gone"]
<1>1. /\ Becomes(s, q) /\ UNCHANGED <<state, thread>> /\ listening' \subseteq listening
      /\ s \notin listening' /\ p.pc = "done"
  BY DEF ProcessExits, Stands, Closes
<1>2. IsProc(p) /\ IsState(state)
  BY DEF RootsInv, Shape
<1>3. q = [p EXCEPT !.pc = "gone"]
  OBVIOUS
<1>4. s = "local" => LocalInv(p, state) /\ "local" \notin listening
  BY <1>1 DEF RootsInv, Doors
<1>5. s = "bounded" => BoundedInv(p) /\ ~thread
  BY <1>1 DEF RootsInv, Doors
<1>. HIDE DEF q, p
<1>6. IsProc(q) /\ q.pc = "gone" /\ q.did = p.did /\ q.code = p.code /\ q.events = p.events
  BY <1>2, <1>3 DEF IsProc
<1>7. CASE s = "local"
  <2>1. LocalInv(q, state)
    BY <1>1, <1>4, <1>6, <1>7 DEF LocalInv, LocalPc, Over, Unbuilt, Unguarded
  <2>2. /\ "local" \notin listening' /\ ("bounded" \in listening' => "bounded" \in listening)
        /\ thread' = thread /\ Becomes("local", q) /\ IsState(state')
    BY <1>1, <1>2, <1>7
  <2>. QED
    BY <1>6, <1>1, <2>1, <2>2, LocalMoves
<1>8. CASE s = "bounded"
  <2>1. BoundedInv(q)
    BY <1>1, <1>5, <1>6, <1>8 DEF BoundedInv, BoundedPc, Over, Unguarded
  <2>2. /\ "bounded" \notin listening' /\ ("local" \in listening' => "local" \in listening)
        /\ ~thread' /\ Becomes("bounded", q) /\ state' = state
    BY <1>1, <1>5, <1>8
  <2>. QED
    BY <1>6, <2>1, <2>2, BoundedMoves
<1>. QED
  BY <1>7, <1>8 DEF Service

LEMMA RootsInitially == EntrypointInit => RootsInv
<1>. SUFFICES ASSUME EntrypointInit PROVE RootsInv
  OBVIOUS
<1>1. proc["local"] = FreshProcess /\ proc["bounded"] = FreshProcess /\ proc = [s \in Service |-> proc[s]]
  BY DEF EntrypointInit, Service
<1>2. IsProc(FreshProcess) /\ FreshProcess.pc = "cli" /\ FreshProcess.did = {} /\ FreshProcess.builds = 0 /\ FreshProcess.events = <<>>
  BY DEF IsProc, FreshProcess
<1>3. /\ IsState(state) /\ state.runtime = "not_evaluated" /\ ~state.resources /\ ~state.bound
      /\ ~state.started
  BY DEF EntrypointInit, IsState
<1>4. Shape
  BY <1>1, <1>2, <1>3 DEF Shape, Service
<1>5. "cli" \in LocalPc /\ "cli" \in BoundedPc /\ LocalDid("cli") = {} /\ BoundedDid("cli") = {}
  BY LocalTable, BoundedTable DEF LocalPc, BoundedPc
<1>6. StateSays(FreshProcess.did, state)
  BY <1>2, <1>3 DEF StateSays
<1>7. LocalInv(FreshProcess, state) /\ BoundedInv(FreshProcess)
  BY <1>2, <1>5, <1>6, LocalAt, BoundedAt
<1>8. Doors
  BY DEF EntrypointInit, Doors
<1>. QED
  BY <1>1, <1>4, <1>7, <1>8 DEF RootsInv

LEMMA RootsNext == RootsInv /\ [EntrypointNext]_entrypointVars => RootsInv'
<1>. SUFFICES ASSUME RootsInv, [EntrypointNext]_entrypointVars PROVE RootsInv'
  OBVIOUS
<1>1. CASE LocalStep
  BY <1>1, LocalStepKeeps
<1>2. CASE BoundedStep
  BY <1>2, BoundedStepKeeps
<1>3. ASSUME NEW s \in Service, Serve(s) \/ Interrupt(s) \/ ProcessExits(s) PROVE RootsInv'
  BY <1>3, LocalServerKeeps, BoundedServerKeeps, InterruptKeeps, ExitKeeps DEF Service
<1>4. ASSUME NEW s \in Service, NEW o \in {"return", "raise", "interrupt"},
             DoNotServe(s, o) \/ StopServing(s, o)
      PROVE  RootsInv'
  BY <1>4, LocalServerKeeps, BoundedServerKeeps DEF Service
<1>5. CASE UNCHANGED entrypointVars
  BY <1>5 DEF entrypointVars, RootsInv, Shape, IsProc, IsState, Doors
<1>. QED
  BY <1>1, <1>2, <1>3, <1>4, <1>5 DEF EntrypointNext

\* The inductive invariant of the composition roots: at every step a root has
\* completed exactly the steps before it, and the execution state, the listener
\* and the warm-up thread say so.
THEOREM RootsInvariance == EntrypointSpec => []RootsInv
BY RootsInitially, RootsNext, PTL DEF EntrypointSpec

LEMMA EventsFollow == RootsInv => EventsAreTruthful
<1>. SUFFICES ASSUME RootsInv PROVE EventsAreTruthful
  OBVIOUS
<1>. DEFINE l == proc["local"]
            b == proc["bounded"]
<1>1. l.events = <<>> \/ (l.events = <<l.events[1]>> /\ LocalTruth(l.events[1], l.did))
  BY DEF RootsInv, LocalInv
<1>2. b.events = <<>> \/ (b.events = <<b.events[1]>> /\ BoundedTruth(b.events[1], b.did))
  BY DEF RootsInv, BoundedInv
<1>3. ASSUME NEW i \in DOMAIN l.events PROVE LocalTruth(l.events[i], l.did)
  <2>1. i = 1 /\ l.events # <<>>
    BY <1>1, <1>3
  <2>. QED
    BY <1>1, <2>1
<1>4. ASSUME NEW i \in DOMAIN b.events PROVE BoundedTruth(b.events[i], b.did)
  <2>1. i = 1 /\ b.events # <<>>
    BY <1>2, <1>4
  <2>. QED
    BY <1>2, <2>1
<1>. QED
  BY <1>3, <1>4, Zenon DEF EventsAreTruthful, LocalTruth, BoundedTruth

\* Whatever a terminal event claims was done, for both roots.
THEOREM EventsTruthful == EntrypointSpec => []EventsAreTruthful
BY RootsInvariance, EventsFollow, PTL

\* No listener opens before its service passed every gate and is warm.
THEOREM ServesInTime == EntrypointSpec => []NothingServesEarly
<1>1. RootsInv => NothingServesEarly
  <2>. SUFFICES ASSUME RootsInv PROVE NothingServesEarly
    OBVIOUS
  <2>1. ASSUME "local" \in listening
        PROVE  LocalGates \union {"built", "warm", "app"} \subseteq proc["local"].did
    <3>1. proc["local"].did \in {LocalDid("run"), LocalDid("serving")}
      BY <2>1 DEF RootsInv, Doors, LocalInv, LocalPc
    <3>. QED
      BY <3>1, LocalTable DEF AllGates
  <2>. QED
    BY <2>1 DEF RootsInv, Doors, NothingServesEarly, Stands
<1>. QED
  BY <1>1, RootsInvariance, PTL

\* A root says one thing, at its end, and ends without it in the known cases only:
\* nothing it raises after its last gate outside a try goes unreported.
THEOREM EndsAreSingle == EntrypointSpec => []EndsOnce
<1>1. RootsInv => EndsOnce
  <2>. SUFFICES ASSUME RootsInv PROVE EndsOnce
    OBVIOUS
  <2>1. ASSUME NEW s \in Service
        PROVE  /\ proc[s].events = <<>> \/ proc[s].events = <<proc[s].events[1]>>
               /\ ~Ended(s) => proc[s].events = <<>>
               /\ Ended(s) /\ proc[s].events = <<>> =>
                    \/ proc[s].code = "interrupted"
                    \/ s = "bounded" /\ proc[s].did = {}
                    \/ proc[s].code = "uncaught" /\ {"stage154", "warm"} \intersect proc[s].did = {}
    BY DEF RootsInv, LocalInv, BoundedInv, Unguarded, Ended, Over, Service
  <2>2. ASSUME NEW s \in Service PROVE Len(proc[s].events) <= 1
    <3>1. PICK e : proc[s].events = <<>> \/ proc[s].events = <<e>>
      BY <2>1
    <3>2. Len(<<>>) <= 1 /\ Len(<<e>>) <= 1
      OBVIOUS
    <3>. QED
      BY <3>1, <3>2, Zenon
  <2>3. Ended("local") => "local" \notin listening
    BY DEF RootsInv, Doors, Ended
  <2>. QED
    BY <2>1, <2>2, <2>3 DEF EndsOnce
<1>. QED
  BY <1>1, RootsInvariance, PTL
=============================================================================
