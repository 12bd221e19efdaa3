----------------------------- MODULE MCNatsStop -----------------------------
(* Instance of NatsStop for TLC: Main, the watcher of the parent context,  *)
(* the session timer and the adapter's callback goroutine.                 *)
EXTENDS NatsStop
CONSTANTS session, adapter
MCCallers == {Main, Watcher, session, adapter}
=============================================================================
