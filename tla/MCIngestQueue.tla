---------------------------- MODULE MCIngestQueue ----------------------------
(* The instance of IngestQueue for TLC: one job, archived or not, two      *)
(* worker incarnations, a scheduler and two failures.  There is no symmetry*)
(* set: the run checks liveness.                                           *)
EXTENDS IngestQueue
=============================================================================
