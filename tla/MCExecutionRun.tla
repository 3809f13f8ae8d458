--------------------------- MODULE MCExecutionRun ---------------------------
(* The instances of ExecutionRun for TLC: their .cfg files give the number of  *)
(* steps, the stop requests and the bound on restarts.  Stop requests are      *)
(* interchangeable, but the main run checks liveness, where symmetry is not    *)
(* sound, so none is declared.                                                 *)
EXTENDS ExecutionRun

=============================================================================
