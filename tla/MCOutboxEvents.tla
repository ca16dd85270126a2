--------------------------- MODULE MCOutboxEvents ---------------------------
(* The instance of OutboxEvents for TLC: OutboxEvents.cfg names the rows   *)
(* and the workers.                                                        *)
EXTENDS OutboxEvents
=============================================================================
