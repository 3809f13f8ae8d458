--------------------------- MODULE MCEmbeddingJob ---------------------------
(* The instances of EmbeddingJob that TLC checks.  Chunks, tasks and requests  *)
(* are interchangeable (the chunks have one creation time), but the main run   *)
(* checks liveness, where symmetry is not sound, so none is declared.          *)
EXTENDS EmbeddingJob

=============================================================================
