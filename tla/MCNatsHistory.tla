--------------------------- MODULE MCNatsHistory ---------------------------
(* Instance of NatsHistory for TLC: a stream of at most three sequences,   *)
(* which are all there are, and selections with each kind of bound.        *)
EXTENDS NatsHistory
MCSelections == {[start |-> 1, from |-> NoTime, end |-> 0],
                 [start |-> 2, from |-> NoTime, end |-> 2],
                 [start |-> 0, from |-> Stored(1, 2), end |-> 0]}
MCInit == /\ HistoryInit
          /\ retained = 1..last /\ matching \in {Seqs, {1, 3}, {2}}
MCSpec == MCInit /\ [][HistoryNext]_inspectVars /\ HistoryFairness
=============================================================================
