------------------------------ MODULE ThreadLedger ------------------------------
(***************************************************************************)
(* VolatileThreadStateLedger: the process-local history of each open       *)
(* thread.  Every operation runs under the ledger's lock.  What a turn     *)
(* says is abstracted to its size; a history to how many turns it holds    *)
(* and how many bytes they retain, which is all the limits look at.        *)
(***************************************************************************)
EXTENDS Integers

CONSTANTS
  Handles,       \* opaque thread handles
  Sizes,         \* retained bytes of a completed turn
  MaxTurns,      \* limits.max_completed_turns
  MaxBytes       \* limits.max_retained_bytes

ASSUME LedgerAssumption ==
  /\ Sizes \subseteq Nat \ {0}
  /\ MaxTurns \in Nat \ {0}
  /\ MaxBytes \in Nat \ {0}

VARIABLES
  opened,        \* the handles in _turns
  history        \* _turns: count and retained bytes of each handle's turns

ledgerVars == <<opened, history>>

Empty == [count |-> 0, bytes |-> 0]

LedgerInit == opened = {} /\ history = [h \in Handles |-> Empty]

\* open_thread()
LedgerOpen(h) ==
  /\ h \notin opened
  /\ opened' = opened \cup {h}
  /\ UNCHANGED history

\* Seeded fault: the limits are compared with the history before the turn.
AcceptableBefore(h, number, size) ==
  /\ h \in opened
  /\ number = history[h].count + 1
  /\ history[h].count <= MaxTurns
  /\ history[h].bytes <= MaxBytes

\* append_completed_turn() checks everything before it changes anything; only an
\* open thread, the next sequence number and both limits let a turn in.
Acceptable(h, number, size) ==
  /\ h \in opened
  /\ number = history[h].count + 1
  /\ history[h].count + 1 <= MaxTurns
  /\ history[h].bytes + size <= MaxBytes

AppendTurn(h, number, size) ==
  /\ Acceptable(h, number, size)
  /\ history' = [history EXCEPT ![h] = [count |-> @.count + 1, bytes |-> @.bytes + size]]
  /\ UNCHANGED opened

\* close_thread() deletes the history: the same handle may be opened again, empty.
LedgerClose(h) ==
  /\ h \in opened
  /\ opened' = opened \ {h}
  /\ history' = [history EXCEPT ![h] = Empty]

\* The coordinator's loop over its open handles, under its own lock.
CloseAll ==
  /\ opened' = {}
  /\ history' = [h \in Handles |-> Empty]

LedgerNext ==
  \/ \E h \in Handles : \/ LedgerOpen(h)
                        \/ LedgerClose(h)
                        \/ \E n \in 1 .. MaxTurns, size \in Sizes : AppendTurn(h, n, size)
  \/ CloseAll

LedgerSpec == LedgerInit /\ [][LedgerNext]_ledgerVars

LedgerTypeOK ==
  /\ opened \subseteq Handles
  /\ history \in [Handles -> [count: Nat, bytes: Nat]]

\* No thread ever retains more turns or bytes than the limits, and a thread that
\* is not open retains nothing: what was said cannot outlive its thread.
WithinLimits ==
  /\ \A h \in opened : history[h].count <= MaxTurns /\ history[h].bytes <= MaxBytes
  /\ \A h \in Handles \ opened : history[h] = Empty

===============================================================================
