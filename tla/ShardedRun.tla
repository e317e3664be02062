----------------------------- MODULE ShardedRun -----------------------------
(***************************************************************************)
(* The sharded history-isolation run: an orchestrator starts one process   *)
(* per shard, one after the other, without timeout and without retry; the  *)
(* process appends one line per completed turn to the shard's observation  *)
(* file and then writes its public report; the orchestrator checks both    *)
(* files and merges them.  Several orchestrators (a rerun after a crash,   *)
(* or one started by mistake) may be pointed at the same artifact          *)
(* directory, either kind of process may be killed at any point, and       *)
(* somebody may edit the sources meanwhile.                                *)
(*                                                                         *)
(* A line is the process and the turn it was measured for: lines of two    *)
(* processes differ, since they carry measured latencies.  A hash is what  *)
(* it was computed from.  What a turn does inside the process is not here  *)
(* (see BoundedTurn): it appends its line or it raises.                    *)
(***************************************************************************)
EXTENDS Integers, Sequences

CONSTANTS Parent,      \* orchestrators started on the directory
          Turns,       \* Turns[s]: the number of turns of shard s
          MaxEdits,    \* bound: edits of the sources
          Restores     \* whether an edit may be taken back

ASSUME TurnsAssumption == Turns \in Seq(Nat)
ASSUME EditsAssumption == MaxEdits \in Nat /\ Restores \in BOOLEAN

VARIABLES
  src,       \* version of the six fingerprinted source files
  started,   \* shards whose log files exist: the directory is not empty
  rows,      \* rows[s]: the lines of shard s's observation file
  present,   \* shards whose observation file exists
  report,    \* report[s]: shard s's public report on disk, as a reader finds it
  parent,    \* parent[p]: an orchestrator
  child      \* child[p][s]: the process p started for shard s

vars == <<src, started, rows, present, report, parent, child>>

Shard == DOMAIN Turns

\* A line of an observation file; "whole" is false for one torn by a failed write.
Line(p, i) == [by |-> p, turn |-> i, whole |-> TRUE]
TornLine(p, i) == [by |-> p, turn |-> i, whole |-> FALSE]
LinesOf(p, s) == [i \in 1..Turns[s] |-> Line(p, i)]

\* load_stage165_observation_jsonl() raises at a line that is not a complete row.
Readable(lines) == \A i \in DOMAIN lines : lines[i].whole

\* validate_stage165_shard_observations(): the expected turns, in their order.
ExactSequence(lines, s) ==
  /\ Len(lines) = Turns[s]
  /\ \A i \in DOMAIN lines : lines[i].turn = i

\* A report that is missing, or cut short, cannot be parsed.
NoReport == [by |-> "nobody", ok |-> FALSE, hash |-> <<>>, persisted |-> <<>>]

Idle == [pc |-> "idle", shard |-> 1, before |-> 0, report |-> NoReport,
         rows |-> <<>>, merged |-> <<>>, verdict |-> "none"]

NotStarted == [pc |-> "none", turn |-> 1, imported |-> 0, before |-> 0,
               ok |-> FALSE, persisted |-> <<>>, hash |-> <<>>]

Init ==
  /\ src = 0
  /\ started = {}
  /\ rows = [s \in Shard |-> <<>>]
  /\ present = {}
  /\ report = [s \in Shard |-> NoReport]
  /\ parent = [p \in Parent |-> Idle]
  /\ child = [p \in Parent |-> [s \in Shard |-> NotStarted]]

disk == <<started, rows, present, report>>

\* Somebody edits one of the fingerprinted files, or takes the edit back.
EditSources ==
  /\ \/ src < MaxEdits /\ src' = src + 1
     \/ Restores /\ src > 0 /\ src' = src - 1
  /\ UNCHANGED <<disk, parent, child>>

-----------------------------------------------------------------------------
(* The orchestrator.                                                       *)

At(p, pc) == parent[p].pc = pc

End(p, verdict) ==
  parent' = [parent EXCEPT ![p].pc = "done", ![p].verdict = verdict]

Fingerprint(p) ==
  /\ At(p, "idle")
  /\ parent' = [parent EXCEPT ![p].pc = "fingerprinted", ![p].before = src]
  /\ UNCHANGED <<src, disk, child>>

\* The directory has to be new or empty.
PrepareDirectory(p) ==
  /\ At(p, "fingerprinted")
  /\ \/ started # {} /\ End(p, "refused")
     \/ started = {} /\ parent' = [parent EXCEPT ![p].pc = "ready"]
  /\ UNCHANGED <<src, disk, child>>

\* The runner opens the logs and starts the process, which imports the sources.
SpawnShard(p) == LET s == parent[p].shard IN
  /\ At(p, "ready") /\ s \in Shard
  /\ started' = started \union {s}
  /\ child' = [child EXCEPT ![p][s].pc = "imported", ![p][s].imported = src]
  /\ parent' = [parent EXCEPT ![p].pc = "waiting"]
  /\ UNCHANGED <<src, rows, present, report>>

\* Seeded fault: a failed shard is skipped.
CollectAndContinue(p) == LET c == child[p][parent[p].shard] IN
  /\ At(p, "waiting")
  /\ \/ c.pc = "exit1" /\ parent' = [parent EXCEPT ![p].pc = "ready", ![p].shard = @ + 1]
     \/ c.pc = "exit0" /\ parent' = [parent EXCEPT ![p].pc = "collected"]
  /\ UNCHANGED <<src, disk, child>>

\* The first shard that did not exit with zero ends the run.
Collect(p) == LET c == child[p][parent[p].shard] IN
  /\ At(p, "waiting")
  /\ \/ c.pc = "exit1" /\ End(p, "failed")
     \/ c.pc = "exit0" /\ parent' = [parent EXCEPT ![p].pc = "collected"]
  /\ UNCHANGED <<src, disk, child>>

LoadReport(p) == LET r == report[parent[p].shard] IN
  /\ At(p, "collected")
  /\ \/ r = NoReport /\ End(p, "failed")
     \/ r # NoReport /\ parent' = [parent EXCEPT ![p].pc = "reported", ![p].report = r]
  /\ UNCHANGED <<src, disk, child>>

Loadable(s) == s \in present /\ Readable(rows[s]) /\ ExactSequence(rows[s], s)

LoadRows(p) == LET s == parent[p].shard IN
  /\ At(p, "reported")
  /\ \/ ~Loadable(s) /\ End(p, "failed")
     \/ Loadable(s) /\ parent' = [parent EXCEPT ![p].pc = "loaded", ![p].rows = rows[s]]
  /\ UNCHANGED <<src, disk, child>>

\* Seeded fault: the byte hash alone.
AcceptableByBytes(p) ==
  parent[p].report.ok /\ parent[p].report.hash = rows[parent[p].shard]

\* The guards of the report, the hash of the file as it is now, the hash of the
\* rows that were loaded before.
Acceptable(p) ==
  /\ parent[p].report.ok
  /\ parent[p].report.hash = rows[parent[p].shard]
  /\ parent[p].report.persisted = parent[p].rows

AcceptShard(p) == LET s == parent[p].shard IN
  /\ At(p, "loaded")
  /\ \/ ~Acceptable(p) /\ End(p, "failed")
     \/ /\ Acceptable(p)
        /\ parent' = [parent EXCEPT ![p].pc = "ready", ![p].shard = s + 1,
             ![p].merged = Append(@, [by |-> parent[p].report.by, rows |-> parent[p].rows])]
  /\ UNCHANGED <<src, disk, child>>

\* Seeded fault: each process's own comparison is taken for enough.
UnchangedInEachShard(p) == parent[p].report.ok

\* Every shard was accepted; each process saw its own sources unchanged (its
\* guards), and the orchestrator compares its own two fingerprints.
SourcesUnchanged(p) == parent[p].before = src

MergeShards(p) ==
  /\ At(p, "ready") /\ parent[p].shard \notin Shard
  /\ End(p, IF SourcesUnchanged(p) THEN "completed" ELSE "invalid")
  /\ UNCHANGED <<src, disk, child>>

\* The orchestrator is killed; a process it started goes on without it.
ParentDies(p) ==
  /\ parent[p].pc \notin {"idle", "done"}
  /\ End(p, "died")
  /\ UNCHANGED <<src, disk, child>>

-----------------------------------------------------------------------------
(* The process of one shard.                                               *)

Child(p, s, pc) == child[p][s].pc = pc

Exit(p, s, code) == child' = [child EXCEPT ![p][s].pc = code]

CheckObservations(p, s) ==
  /\ Child(p, s, "imported")
  /\ Exit(p, s, IF s \in present THEN "exit1" ELSE "checked")
  /\ UNCHANGED <<src, disk, parent>>

\* write_text("") creates the file, or empties one created since the check.
CreateObservations(p, s) ==
  /\ Child(p, s, "checked")
  /\ rows' = [rows EXCEPT ![s] = <<>>]
  /\ present' = present \union {s}
  /\ child' = [child EXCEPT ![p][s].pc = "writing", ![p][s].before = src]
  /\ UNCHANGED <<src, started, report, parent>>

MeasureTurn(p, s) == LET i == child[p][s].turn IN
  /\ Child(p, s, "writing") /\ i <= Turns[s]
  /\ rows' = [rows EXCEPT ![s] = Append(@, Line(p, i))]
  /\ child' = [child EXCEPT ![p][s].turn = i + 1]
  /\ UNCHANGED <<src, started, present, report, parent>>

\* A write that fails part-way leaves a piece of the line and ends the process.
TearTurn(p, s) == LET i == child[p][s].turn IN
  /\ Child(p, s, "writing") /\ i <= Turns[s]
  /\ rows' = [rows EXCEPT ![s] = Append(@, TornLine(p, i))]
  /\ Exit(p, s, "exit1")
  /\ UNCHANGED <<src, started, present, report, parent>>

\* The guards that can fail: what is in the file is what was measured here, and
\* the sources did not change.
Guards(p, s) == rows[s] = LinesOf(p, s) /\ child[p][s].before = src

LoadPersisted(p, s) ==
  /\ Child(p, s, "writing") /\ child[p][s].turn > Turns[s]
  /\ \/ ~Readable(rows[s]) /\ Exit(p, s, "exit1")
     \/ /\ Readable(rows[s])
        /\ child' = [child EXCEPT ![p][s].pc = "loaded", ![p][s].ok = Guards(p, s),
                                  ![p][s].persisted = rows[s]]
  /\ UNCHANGED <<src, disk, parent>>

HashObservations(p, s) ==
  /\ Child(p, s, "loaded")
  /\ child' = [child EXCEPT ![p][s].pc = "hashed", ![p][s].hash = rows[s]]
  /\ UNCHANGED <<src, disk, parent>>

\* write_text() empties the file before it writes: a reader may find it cut short.
TruncateReport(p, s) ==
  /\ Child(p, s, "hashed")
  /\ report' = [report EXCEPT ![s] = NoReport]
  /\ Exit(p, s, "truncated")
  /\ UNCHANGED <<src, started, rows, present, parent>>

ReportOf(p, s) ==
  [by |-> p, ok |-> child[p][s].ok, hash |-> child[p][s].hash,
   persisted |-> child[p][s].persisted]

WriteReport(p, s) ==
  /\ Child(p, s, "truncated")
  /\ report' = [report EXCEPT ![s] = ReportOf(p, s)]
  /\ Exit(p, s, "reported")
  /\ UNCHANGED <<src, started, rows, present, parent>>

ExitShard(p, s) ==
  /\ Child(p, s, "reported")
  /\ Exit(p, s, IF child[p][s].ok THEN "exit0" ELSE "exit1")
  /\ UNCHANGED <<src, disk, parent>>

\* An exception, or a kill, at any point.
ChildDies(p, s) ==
  /\ child[p][s].pc \notin {"none", "exit0", "exit1"}
  /\ Exit(p, s, "exit1")
  /\ UNCHANGED <<src, disk, parent>>

-----------------------------------------------------------------------------
ParentStep(p) ==
  \/ Fingerprint(p) \/ PrepareDirectory(p) \/ SpawnShard(p) \/ Collect(p)
  \/ LoadReport(p) \/ LoadRows(p) \/ AcceptShard(p) \/ MergeShards(p)

ChildStep(p, s) ==
  \/ CheckObservations(p, s) \/ CreateObservations(p, s) \/ MeasureTurn(p, s)
  \/ LoadPersisted(p, s) \/ HashObservations(p, s) \/ TruncateReport(p, s)
  \/ WriteReport(p, s) \/ ExitShard(p, s)

Next ==
  \/ EditSources
  \/ \E p \in Parent : ParentStep(p) \/ ParentDies(p)
  \/ \E p \in Parent, s \in Shard : ChildStep(p, s) \/ TearTurn(p, s) \/ ChildDies(p, s)

Spec == Init /\ [][Next]_vars

-----------------------------------------------------------------------------
(* Properties.                                                             *)

LineType == [by : Parent, turn : Nat, whole : BOOLEAN]
ReportType == [by : Parent \union {"nobody"}, ok : BOOLEAN, hash : Seq(LineType), persisted : Seq(LineType)]

\* Every variable stays in its type.
TypeOK ==
  /\ src \in Nat /\ started \subseteq Shard /\ present \subseteq Shard
  /\ rows \in [Shard -> Seq(LineType)] /\ report \in [Shard -> ReportType]
  /\ parent \in [Parent ->
       [pc : {"idle", "fingerprinted", "ready", "waiting", "collected", "reported",
              "loaded", "done"},
        shard : 1..(Len(Turns) + 1), before : Nat, report : ReportType, rows : Seq(LineType),
        merged : Seq([by : Parent \union {"nobody"}, rows : Seq(LineType)]),
        verdict : {"none", "refused", "failed", "died", "invalid", "completed"}]]
  /\ child \in [Parent -> [Shard ->
       [pc : {"none", "imported", "checked", "writing", "loaded", "hashed", "truncated",
              "reported", "exit0", "exit1"},
        turn : Nat, imported : Nat, before : Nat, ok : BOOLEAN,
        persisted : Seq(LineType), hash : Seq(LineType)]]]

\* What is merged for a shard is exactly what one process measured for it: the
\* process whose report was read with it, whoever started it, whatever was
\* killed and whoever else wrote to the files meanwhile.
MergedIsOneProcess ==
  \A p \in Parent : \A s \in DOMAIN parent[p].merged :
    /\ s \in Shard
    /\ parent[p].merged[s].by \in Parent
    /\ parent[p].merged[s].rows = LinesOf(parent[p].merged[s].by, s)

\* A shard that failed or was killed ends its run: no later shard is started, it
\* is not started again, and nothing is reported as complete.
FailureIsFinal ==
  \A p \in Parent, s \in Shard :
    child[p][s].pc = "exit1" =>
      /\ parent[p].verdict \in {"none", "failed", "died"}
      /\ parent[p].shard = s
      /\ \A t \in Shard : t > s => child[p][t] = NotStarted

\* A complete report was measured by processes that all ran the sources whose
\* fingerprint it carries: no stale artifact of an earlier version, no edit
\* between two shards.  (It needs that an edit is not taken back.)
SourcesAreOne ==
  \A p \in Parent : parent[p].verdict = "completed" =>
    \A s \in Shard : child[parent[p].merged[s].by][s].imported = parent[p].before
=============================================================================
