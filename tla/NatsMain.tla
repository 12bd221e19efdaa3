------------------------------ MODULE NatsMain ------------------------------
(* The goroutine that runs an observation from start to end: it owns the   *)
(* stop owner (NatsStop) and the session (NatsClient).                     *)
CONSTANT Main
=============================================================================
