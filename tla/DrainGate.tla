------------------------------- MODULE DrainGate -------------------------------
(***************************************************************************)
(* What every lifecycle gate of the service promises, with nothing about   *)
(* how it is built: work enters only while the gate is open, the gate is   *)
(* shut one way, and it reports "closed" only over an empty room.          *)
(*                                                                         *)
(* PrimeQAHybridAgentRequestFacade and BoundedDynamicAgentServiceCoordina- *)
(* tor are shown to implement it, each under its own refinement mapping.   *)
(***************************************************************************)
CONSTANT Work          \* the units of work that may be inside the gate

VARIABLES mode,        \* "open", "closing" or "closed"
          inside       \* the work admitted and not yet gone

gateVars == <<mode, inside>>

GateInit == mode = "open" /\ inside = {}

Enter(w) == /\ mode = "open"
            /\ w \in Work \ inside
            /\ inside' = inside \cup {w}
            /\ UNCHANGED mode

Leave(w) == /\ w \in inside
            /\ inside' = inside \ {w}
            /\ UNCHANGED mode

BeginClosing == /\ mode = "open"
                /\ mode' = "closing"
                /\ UNCHANGED inside

\* An empty gate may be shut in one step or after having been closing.
FinishClosing == /\ mode # "closed"
                 /\ inside = {}
                 /\ mode' = "closed"
                 /\ UNCHANGED inside

GateNext == \/ \E w \in Work : Enter(w) \/ Leave(w)
            \/ BeginClosing
            \/ FinishClosing

GateSpec == GateInit /\ [][GateNext]_gateVars

===============================================================================
