---------------------------- MODULE MCTelemetry ----------------------------
(* Telemetry with one helper beside main, a queue of two records and a stderr
   of one: two more events than the queue holds, so that it overflows, drains
   and overflows again. *)
EXTENDS Telemetry
=============================================================================
