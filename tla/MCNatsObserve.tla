--------------------------- MODULE MCNatsObserve ---------------------------
(* Instance of NatsObserve for TLC: its five goroutines. *)
EXTENDS NatsObserve
MCCallers == {Main, Watcher, Session, Signals, Adapter}
=============================================================================
