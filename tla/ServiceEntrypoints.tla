-------------------------- MODULE ServiceEntrypoints --------------------------
(***************************************************************************)
(* The composition roots of the two services, each a process of its own,   *)
(* started on the same loopback port: the local agent service ("local")    *)
(* and the bounded dynamic service ("bounded").  A root passes its gates   *)
(* in order, any of which may refuse; it builds the retrieval resources,   *)
(* warms the runtime up, opens the service and reports its end in a        *)
(* terminal event.  Ctrl-C may arrive during any step.  What a step raises *)
(* is a refusal where a try turns it into an exit code; where no try is,   *)
(* it ends the process with a traceback and without an event.              *)
(*                                                                         *)
(* Uvicorn is external, modelled by what the roots expect of it: the       *)
(* lifespan starts and stops the transport, and run() returns, raises      *)
(* Exception or SystemExit, or raises KeyboardInterrupt.  What a gate      *)
(* looks at is left out: it passes, refuses or raises.                     *)
(***************************************************************************)
EXTENDS Naturals, Sequences

VARIABLES
  proc,       \* proc[s]: how far the process of service s really is
  state,      \* _ExecutionState, the fields the local root reports from
  thread,     \* the bounded root's warm-up thread is open
  listening   \* the services whose listener is open: the port is taken

entrypointVars == <<proc, state, thread, listening>>

Service == {"local", "bounded"}

\* "did" is what the process has completed; the code keeps no such record.
FreshProcess == [pc |-> "cli", did |-> {}, builds |-> 0, transport |-> "not_created",
                 outcome |-> "none", code |-> "none", events |-> <<>>]

EntrypointInit ==
  /\ proc = [s \in Service |-> FreshProcess]
  /\ state = [source |-> "not_evaluated", runtime |-> "not_evaluated", resources |-> FALSE,
              warm |-> FALSE, bound |-> FALSE, started |-> FALSE, transport |-> "not_created"]
  /\ thread = FALSE
  /\ listening = {}

Stands(s, pc) == proc[s].pc = pc

\* The next step, having completed some more.
Go(s, pc, more) == [proc[s] EXCEPT !.pc = pc, !.did = @ \union more]

Becomes(s, p) == proc' = [proc EXCEPT ![s] = p]

Silent(s, code) == Becomes(s, [proc[s] EXCEPT !.pc = "done", !.code = code])

\* An exception that run() and main() let through: a traceback and no event.
Uncaught(s) == Silent(s, "uncaught")

Reports(s, code, event) ==
  Becomes(s, [proc[s] EXCEPT !.pc = "done", !.code = code, !.events = Append(@, event)])

\* Uvicorn opens its sockets, or is given one, on a free port only.
Opens(s) == listening = {} /\ listening' = {s}
Closes(s) == listening' = listening \ {s}

-----------------------------------------------------------------------------
(* The local agent service.                                                *)

\* _result(), which copies the execution state, and the emit of run().
Ends(code, st) == Reports("local", code, [code |-> code, fields |-> st]) /\ state' = st

Passes(pc, more, st) == Becomes("local", Go("local", pc, more)) /\ state' = st

Gate(pc, refuses, passes) ==
  Stands("local", pc) /\ (refuses \/ passes) /\ UNCHANGED <<thread, listening>>

ParseCli ==
  Gate("cli", Ends("cli_contract_invalid", state), Passes("settings", {}, state))

\* Outside every try.
Raises == Uncaught("local") /\ UNCHANGED state

ConfigurationRejected ==
  Ends("activation_configuration_rejected", [state EXCEPT !.runtime = "configuration_rejected"])

\* main() catches the validation error only, not that of an .env it cannot decode,
\* and makes the root with its canonical paths outside any try.
LoadSettings ==
  Gate("settings", ConfigurationRejected \/ Raises, Passes("stage150", {"settings"}, state))

\* Loading the artifact is inside a try, deciding on it is not: it walks untyped
\* JSON, and raises on rows or a decision that are not objects.
AuthorizeStage150 == Gate("stage150",
  \/ Ends("stage150_authorization_rejected", [state EXCEPT !.source = "stage150_rejected"])
  \/ Raises,
  Passes("flags", {"stage150"}, [state EXCEPT !.source = "stage150_authorized"]))

CheckFlags == Gate("flags", ConfigurationRejected,
  Passes("stage154", {"flags"}, [state EXCEPT !.runtime = "configuration_authorized"]))

\* As for Stage 150, after the sources it names are fingerprinted.
AuthorizeStage154 == Gate("stage154",
  \/ Ends("stage154_workflow_authorization_rejected",
          [state EXCEPT !.source = "stage154_rejected", !.runtime = "rejected"])
  \/ Raises,
  Passes("stage145", {"stage154"}, [state EXCEPT !.source = "stage154_authorized"]))

Stage145Rejected == Ends("stage145_or_runtime_activation_rejected",
  [state EXCEPT !.source = "stage145_rejected", !.runtime = "rejected"])

LoadStage145 == Gate("stage145", Stage145Rejected, Passes("factory", {}, state))

\* The retrieval sources are fingerprinted and the factory is made, not used.
CreateFactory == Gate("factory",
  Ends("resource_or_warmup_failure", state), Passes("bootstrap", {}, state))

\* An exception of start(): the factory's count tells a failed build or warm-up
\* from a refused source.
StartRaises(builds) ==
  \/ builds = 0 /\ Stage145Rejected
  \/ builds > 0 /\ Ends("resource_or_warmup_failure",
       [state EXCEPT !.source = "stage145_authorized", !.runtime = "rejected"])

\* start() up to the build: the report is rejected, or reading it raises, which
\* with no build counted ends the same.
EvaluateStage145 ==
  Gate("bootstrap", Stage145Rejected, Passes("build", {"stage145"}, state))

Begun == Go("local", "building", {"begun"})

\* build_shared() counts itself before it builds.
BeginBuild ==
  /\ Stands("local", "build")
  /\ Becomes("local", [Begun EXCEPT !.builds = @ + 1])
  /\ UNCHANGED <<state, thread, listening>>

FinishBuild == Gate("building",
  StartRaises(proc["local"].builds), Passes("warmup", {"built"}, state))

WarmUp == Gate("warmup", StartRaises(proc["local"].builds),
  Passes("compose", {"warm"},
         [state EXCEPT !.source = "stage145_authorized", !.runtime = "eligible",
                       !.resources = TRUE, !.warm = TRUE]))

ComposeApp == Gate("compose", Ends("unexpected_composition_failure", state),
  /\ Becomes("local", [Go("local", "listen", {"app"}) EXCEPT !.transport = "created"])
  /\ state' = [state EXCEPT !.transport = "created"])

\* A failed bind or listen closes the socket it made.
Listen ==
  /\ Stands("local", "listen")
  /\ \/ Ends("socket_bind_or_listen_failure", state) /\ UNCHANGED listening
     \/ Passes("run", {"bound"}, [state EXCEPT !.bound = TRUE]) /\ Opens("local")
  /\ UNCHANGED thread

LocalCode(p) ==
  CASE p.outcome = "interrupt" -> "external_signal"
    [] p.outcome = "return" /\ "started" \in p.did -> "clean_server_return"
    [] OTHER -> "server_or_lifespan_failure"

\* What is copied from the server and the transport when run() is over.
Observed(p) == [state EXCEPT !.started = "started" \in p.did, !.transport = p.transport]

\* Seeded fault: the listener is closed after a normal return only.
CloseAfterReturn == LET p == proc["local"] IN
  /\ Stands("local", "ended")
  /\ Ends(LocalCode(p), Observed(p))
  /\ IF p.outcome = "return" THEN Closes("local") ELSE UNCHANGED listening
  /\ UNCHANGED thread

\* The result, or for Ctrl-C the event at once; the finally; the emit.
CloseAndReport == LET p == proc["local"] IN
  /\ Stands("local", "ended")
  /\ Ends(LocalCode(p), Observed(p))
  /\ Closes("local")
  /\ UNCHANGED thread

-----------------------------------------------------------------------------
(* The bounded dynamic service.                                            *)

\* Seeded fault: as it was before the correction the docs record: only a service
\* that was prepared reports its progress.
ProgressWhenPrepared(code, prepared) ==
  IF prepared THEN {"flags", "sources", "built", "model", "warm", "app"}
  ELSE IF code = "activation_configuration_rejected" THEN {} ELSE {"flags"}

\* _startup_progress(): what is reported follows from the exit code.
StartupProgress(code, prepared) ==
  LET after(codes) == prepared \/ code \in codes IN
  (IF code = "activation_configuration_rejected" /\ ~prepared THEN {} ELSE {"flags"})
  \union (IF after({"resource_initialization_failed", "model_initialization_failed",
                    "warmup_failed", "app_composition_failed"}) THEN {"sources"} ELSE {})
  \union (IF after({"model_initialization_failed", "warmup_failed",
                    "app_composition_failed"}) THEN {"built"} ELSE {})
  \union (IF after({"warmup_failed", "app_composition_failed"}) THEN {"model"} ELSE {})
  \union (IF after({"app_composition_failed"}) THEN {"warm"} ELSE {})
  \union (IF prepared THEN {"app"} ELSE {})

EmitResult(code, prepared) ==
  Reports("bounded", code,
    [code |-> code, progress |-> StartupProgress(code, prepared),
     started |-> prepared /\ "started" \in proc["bounded"].did])

Stage(pc, refuses, next, more) ==
  /\ Stands("bounded", pc)
  /\ refuses \/ Becomes("bounded", Go("bounded", next, more))
  /\ UNCHANGED <<state, thread, listening>>

\* run() catches the startup error alone, so what prepare() raises outside its own
\* tries ends the process.  main() returns the first two codes without an event.
ParseBoundedCli == Stage("cli", Silent("bounded", "cli_contract_invalid"), "settings", {})

LoadBoundedSettings == Stage("settings",
  Silent("bounded", "activation_configuration_rejected") \/ Uncaught("bounded"), "flags", {})

CheckActivation ==
  Stage("flags", EmitResult("activation_configuration_rejected", FALSE), "sources", {"flags"})

\* The report is parsed before it is fingerprinted: one that was replaced in
\* between is walked although it is not the pinned one.
AuthorizeSources == Stage("sources",
  EmitResult("stage157_or_source_authorization_rejected", FALSE) \/ Uncaught("bounded"),
  "build", {"sources"})

BuildResources ==
  Stage("build", EmitResult("resource_initialization_failed", FALSE), "model", {"built"})

LoadModel ==
  Stage("model", EmitResult("model_initialization_failed", FALSE), "runtime", {"model"})

\* Between two tries.
CreateRuntime == Stage("runtime", Uncaught("bounded"), "warmup", {})

OpenWarmupThread ==
  /\ Stands("bounded", "warmup")
  /\ Becomes("bounded", Go("bounded", "turn", {}))
  /\ thread' = TRUE
  /\ UNCHANGED <<state, listening>>

\* Seeded fault: the thread is closed after a turn that ended well only.
CloseAfterTurn ==
  /\ Stands("bounded", "turn")
  /\ \/ EmitResult("warmup_failed", FALSE) /\ UNCHANGED thread
     \/ Becomes("bounded", Go("bounded", "app", {"warm"})) /\ thread' = FALSE
  /\ UNCHANGED <<state, listening>>

\* The turn, the closing of its thread whatever happened, the metrics it needs.
RunWarmupTurn ==
  /\ Stands("bounded", "turn")
  /\ thread' = FALSE
  /\ \/ EmitResult("warmup_failed", FALSE)
     \/ Becomes("bounded", Go("bounded", "app", {"warm"}))
  /\ UNCHANGED <<state, listening>>

\* Seeded fault: the composition of the app is outside a try as well.
ComposeUncaught ==
  /\ Stands("bounded", "app")
  /\ \/ Uncaught("bounded")
     \/ Becomes("bounded", [Go("bounded", "run", {"app"}) EXCEPT !.transport = "created"])
  /\ UNCHANGED <<state, thread, listening>>

ComposeBoundedApp ==
  /\ Stands("bounded", "app")
  /\ \/ EmitResult("app_composition_failed", FALSE)
     \/ Becomes("bounded", [Go("bounded", "run", {"app"}) EXCEPT !.transport = "created"])
  /\ UNCHANGED <<state, thread, listening>>

ReportServer == LET p == proc["bounded"] IN
  /\ Stands("bounded", "ended")
  /\ \/ p.outcome = "interrupt" /\ Silent("bounded", "interrupted")
     \/ /\ p.outcome # "interrupt"
        /\ EmitResult(IF p.outcome = "return" /\ "started" \in p.did
                      THEN "clean_server_return" ELSE "server_or_lifespan_failed", TRUE)
  /\ UNCHANGED <<state, thread, listening>>

-----------------------------------------------------------------------------
(* Uvicorn, and Ctrl-C.                                                    *)

\* The lifespan starts the transport; the bounded service's server then binds.
Serve(s) ==
  /\ Stands(s, "run")
  /\ Becomes(s, [Go(s, "serving", {"started"}) EXCEPT !.transport = "running"])
  /\ IF s = "bounded" THEN Opens(s) ELSE UNCHANGED listening
  /\ UNCHANGED <<state, thread>>

\* It does not start: its configuration or lifespan fails, or the port is taken.
DoNotServe(s, outcome) ==
  /\ Stands(s, "run")
  /\ Becomes(s, [Go(s, "ended", {}) EXCEPT !.outcome = outcome])
  /\ UNCHANGED <<state, thread, listening>>

\* It returns or is interrupted, after closing its sockets and the transport, or
\* it raises and leaves them.
StopServing(s, outcome) ==
  /\ Stands(s, "serving")
  /\ \/ /\ outcome \in {"return", "interrupt"}
        /\ Becomes(s, [Go(s, "ended", {}) EXCEPT !.outcome = outcome, !.transport = "closed"])
        /\ Closes(s)
     \/ /\ outcome = "raise"
        /\ Becomes(s, [Go(s, "ended", {}) EXCEPT !.outcome = outcome])
        /\ UNCHANGED listening
  /\ UNCHANGED <<state, thread>>

\* Before the server runs nothing catches it: only the warm-up's finally runs.
Interrupt(s) ==
  /\ proc[s].pc \notin {"run", "serving", "ended", "done", "gone"}
  /\ Silent(s, "interrupted")
  /\ thread' = (thread /\ s = "local")
  /\ UNCHANGED <<state, listening>>

\* What the process still holds goes with it.
ProcessExits(s) ==
  /\ Stands(s, "done")
  /\ Becomes(s, [proc[s] EXCEPT !.pc = "gone"])
  /\ Closes(s)
  /\ UNCHANGED <<state, thread>>

LocalStep ==
  \/ ParseCli \/ LoadSettings \/ AuthorizeStage150 \/ CheckFlags \/ AuthorizeStage154
  \/ LoadStage145 \/ CreateFactory \/ EvaluateStage145 \/ BeginBuild \/ FinishBuild
  \/ WarmUp \/ ComposeApp \/ Listen \/ CloseAndReport

BoundedStep ==
  \/ ParseBoundedCli \/ LoadBoundedSettings \/ CheckActivation \/ AuthorizeSources
  \/ BuildResources \/ LoadModel \/ CreateRuntime \/ OpenWarmupThread \/ RunWarmupTurn
  \/ ComposeBoundedApp \/ ReportServer

EntrypointNext ==
  \/ LocalStep \/ BoundedStep
  \/ \E s \in Service : Serve(s) \/ Interrupt(s) \/ ProcessExits(s)
  \/ \E s \in Service, o \in {"return", "raise", "interrupt"} :
       DoNotServe(s, o) \/ StopServing(s, o)

EntrypointSpec == EntrypointInit /\ [][EntrypointNext]_entrypointVars

-----------------------------------------------------------------------------
(* Properties.                                                             *)

Ended(s) == proc[s].pc \in {"done", "gone"}

LocalGates == {"settings", "stage150", "flags", "stage154", "stage145"}
Milestones == {"flags", "sources", "built", "model", "warm", "app"}

\* A terminal event does not claim what was not done.  The bounded service's
\* names exactly the completed stages, although it works them out from the exit
\* code; the local service's classifies a failed start by whether the resource
\* build had begun, and never claims resources, a warm-up, a listener or a
\* server it did not have.
EventsAreTruthful ==
  /\ \A i \in DOMAIN proc["local"].events :
       LET e == proc["local"].events[i]  did == proc["local"].did IN
       /\ e.fields.runtime = "eligible" <=> "warm" \in did
       /\ e.fields.resources => {"built", "warm"} \subseteq did
       /\ e.fields.bound <=> "bound" \in did
       /\ e.fields.started <=> "started" \in did
       /\ e.code = "stage145_or_runtime_activation_rejected" => "begun" \notin did
       /\ "begun" \in did => e.fields.source = "stage145_authorized"
       /\ e.code = "clean_server_return" => e.fields.transport = "closed"
  /\ \A i \in DOMAIN proc["bounded"].events :
       LET e == proc["bounded"].events[i]  did == proc["bounded"].did IN
       /\ e.progress = did \intersect Milestones
       /\ e.started <=> "started" \in did

\* A service that can be connected to has passed every gate, is warm, and has
\* given its warm-up thread back; the thread outlives the warm-up in no case.
NothingServesEarly ==
  /\ "local" \in listening => LocalGates \union {"built", "warm", "app"} \subseteq proc["local"].did
  /\ "bounded" \in listening => Milestones \subseteq proc["bounded"].did
  /\ thread => Stands("bounded", "turn")

\* A root reports at its end and not before, once at most, and which ends are
\* without a report is exactly known: Ctrl-C, the bounded service's main() refusing
\* the command line or the settings, and an exception outside every try, of which
\* the local root has none once Stage 154 is authorized and the bounded root none
\* once it is warm.  These exceptions break what the Stage 151 protocol asks of the
\* local service, "exactly_one_terminal_event"
\* (primeqa_hybrid_agent_service_entrypoint_protocol.py:672): the property is what is
\* left of it.  The local root has closed its listener by then, however its server
\* ended.
EndsOnce ==
  /\ \A s \in Service : Len(proc[s].events) <= 1 /\ (~Ended(s) => proc[s].events = <<>>)
  /\ \A s \in Service : Ended(s) /\ proc[s].events = <<>> =>
       \/ proc[s].code = "interrupted"
       \/ s = "bounded" /\ proc[s].did = {}
       \/ proc[s].code = "uncaught" /\ {"stage154", "warm"} \intersect proc[s].did = {}
  /\ Ended("local") => "local" \notin listening

=============================================================================
