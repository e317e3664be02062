------------------------ MODULE MCServiceEntrypoints ------------------------
(* The instance TLC checks: both services, started once each.              *)
EXTENDS ServiceEntrypoints
=============================================================================
