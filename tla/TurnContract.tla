------------------------------ MODULE TurnContract ------------------------------
(***************************************************************************)
(* What a turn on a thread's history promises, with nothing about how it   *)
(* is worked out: it reads the history of the thread it was called on,     *)
(* works without touching the ledger, and either gives up or asks the      *)
(* ledger once, to append one turn under the number after what it read.    *)
(* Others may open, close and use the same thread in between.              *)
(*                                                                         *)
(* The bounded dynamic runtime, the bounded iterative runtime and the      *)
(* coordinated service are shown to implement it, each under its own       *)
(* refinement mapping.                                                     *)
(***************************************************************************)
EXTENDS ThreadLedger

CONSTANT Workers       \* whatever runs turns, one at a time each

VARIABLE turn          \* the turn of each worker

contractVars == <<turn, ledgerVars>>

NoTurn == [phase |-> "idle"]
Called(h) == [phase |-> "called", handle |-> h]
Working(h, read) == [phase |-> "working", handle |-> h, read |-> read]
Worked(h, read) == [phase |-> "worked", handle |-> h, read |-> read]

ContractInit == turn = [w \in Workers |-> NoTurn] /\ LedgerInit

Becomes(w, next) == turn' = [turn EXCEPT ![w] = next]

CallTurn(w, h) ==
  /\ turn[w].phase = "idle"
  /\ Becomes(w, Called(h))
  /\ UNCHANGED ledgerVars

\* Only an open thread has a history to read.
ReadHistory(w) ==
  /\ turn[w].phase = "called"
  /\ turn[w].handle \in opened
  /\ Becomes(w, Working(turn[w].handle, history[turn[w].handle].count))
  /\ UNCHANGED ledgerVars

FinishWork(w) ==
  /\ turn[w].phase = "working"
  /\ Becomes(w, Worked(turn[w].handle, turn[w].read))
  /\ UNCHANGED ledgerVars

\* A turn may fail for want of a thread, or during the work for whatever reason.
GiveUp(w) ==
  /\ \/ turn[w].phase = "called" /\ turn[w].handle \notin opened
     \/ turn[w].phase = "working"
  /\ Becomes(w, NoTurn)
  /\ UNCHANGED ledgerVars

\* A turn whose work is done is appended unless the ledger objects.
AskLedger(w, size) ==
  /\ turn[w].phase = "worked"
  /\ LET h == turn[w].handle
         number == turn[w].read + 1
     IN  IF Acceptable(h, number, size) THEN AppendTurn(h, number, size)
                                        ELSE UNCHANGED ledgerVars
  /\ Becomes(w, NoTurn)

WorkerStep(w) == \/ \E h \in Handles : CallTurn(w, h)
                 \/ ReadHistory(w) \/ FinishWork(w) \/ GiveUp(w)
                 \/ \E size \in Sizes : AskLedger(w, size)

\* Opening, closing, and closing all, whoever does it and for whatever reason.
ThreadsMove == /\ (\E h \in Handles : LedgerOpen(h) \/ LedgerClose(h)) \/ CloseAll
               /\ UNCHANGED turn

ContractNext == (\E w \in Workers : WorkerStep(w)) \/ ThreadsMove

ContractSpec == ContractInit /\ [][ContractNext]_contractVars

===============================================================================
