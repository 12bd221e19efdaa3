------------------------- MODULE NatsObserveProofs -------------------------
(***************************************************************************)
(* Proofs about one native observation (NatsObserve), for every count,     *)
(* every set of callers and of mishaps and any number of messages: its     *)
(* types, and that its exit status is honest, however the session timer,   *)
(* the signals, the parent context, the session's failure and the watchdog *)
(* come between the steps of Main.                                         *)
(***************************************************************************)
EXTENDS NatsObserve, NatsStopProofs

Asking    == {"loop", "err", "next", "nextErr"}
Emitting  == {"render", "renderErr", "write", "writing", "done"}
Concluding == {"execute", "finish", "exit", "over"}
Choosing  == {"decide", "default", "cancel", "duration"}
Stopping  == {"lastErr", "close", "closeErr", "report"} \cup Choosing \cup Concluding

(* The program order of Main, and the life of its session. *)
Order ==
  /\ finished => step \in {"exit", "over"}
  /\ step \in Concluding <=> status # NoExit
  /\ exited # NoExit => step = "over" /\ exited = status
  /\ step \in {"prepare", "open"} => life = "opening"
  /\ step \in {"opened"} \cup Choosing => life \in {"open", "failed"}
  /\ step = "rewrite" => life = "failed"
  /\ step \in Asking \cup Emitting \cup {"lastErr", "close"} => life = "open"
  /\ step = "closeErr" => life = "closed"
  /\ step = "report" => life \in {"closed", "failed"}
  /\ step \in {"close", "closeErr", "report"} => reason # ""
  /\ ready => life \in {"open", "closed"}

(* What a session that is open has failed of. *)
SessionFacts ==
  /\ failure /\ life \in {"open", "closed"} => harm # "none"
  /\ told # "no" => failure
  /\ seen => failure
  /\ got = "failed" => failure
  /\ got = "broken" => harm # "none"

(* Nothing is begun that the count does not admit, and a count or an       *)
(* exhaustion is asked for between two events.                             *)
Counted ==
  /\ Count > 0 => admitted <= Count
  /\ step \notin Emitting \cup Stopping => ~unfinished /\ (Count > 0 => admitted < Count)
  /\ step \notin Stopping \cup {"writing"} => tail = "whole"
  /\ step = "writing" => tail = "partial"
  /\ reason = "count" => Count > 0 /\ admitted = Count
  /\ reason \in {"count", "exhaustion"} => ~unfinished /\ tail = "whole" /\ step \in Stopping

(* A cancellation has been asked for. *)
Wish == interrupted \/ parent = "cancelled"
Wished ==
  /\ step = "prepare" =>
       /\ clock = "unset" /\ told = "no"
       /\ ctxDone \/ (\E c \in Callers : owes[c] # "nothing") => Wish
  /\ reason = "cancel" \/ status = 130 \/ killed = 130 \/ step = "cancel" => Wish

(* A failure has a ground that stays. *)
Ground == \/ harm # "none" \/ mishap \/ failure \/ life = "failed"
          \/ tail = "partial" /\ step \in Stopping
Grounded ==
  /\ reason = "failure" \/ (\E c \in Callers : owes[c] = "request")
       => Ground \/ status \in {1, 130}
  /\ status = 1 /\ ready => Ground

(* Success is decided after the close, which has found all early trouble.  *)
Earned ==
  /\ step = "closeErr" /\ harm = "early" => failure
  /\ step = "report" /\ harm = "early" /\ life = "closed" => reason \in {"failure", "cancel"}
  /\ status = 0 => /\ ready /\ life = "closed" /\ harm # "early"
                   /\ reason \in Normal \cup {"failure"}
                   /\ reason = "failure" => harm = "late"

ObserveIInv == /\ TypeOK /\ StopIInv /\ Order /\ SessionFacts /\ Counted
               /\ Wished /\ Grounded /\ Earned

-----------------------------------------------------------------------------
(* What a call of the owner may do to the reason and to the debts, if it   *)
(* gives one of the reasons in given.                                      *)
OwnerCall(given) ==
  /\ StopIInv' /\ UNCHANGED <<hook, parent, finished, killed>> /\ (ctxDone => ctxDone')
  /\ \/ reason' = reason
     \/ reason = "" /\ reason' \in given
     \/ reason \in Normal /\ reason' = "failure" /\ "failure" \in given
  /\ (\E c \in Callers : owes'[c] = "request")
       => (\E c \in Callers : owes[c] = "request") \/ "failure" \in given

LEMMA GoroutinesAreCallers ==
  /\ {Main, Watcher, Session, Signals, Adapter} \subseteq Callers
  /\ Main # Watcher
  /\ Session # Main /\ Session # Watcher /\ Signals # Main /\ Signals # Watcher
  /\ Adapter # Main /\ Adapter # Watcher
  BY ObserveAssumption, CallersAssumption

(* A step of the owner that is one in NatsStop keeps its invariant. *)
LEMMA QuietOwner ==
  ASSUME StopIInv, UNCHANGED stopVars
  PROVE  OwnerCall({}) /\ UNCHANGED <<owes, ctxDone, reason>>
<1>1. StopIInv'
  BY NextIInv
<1> QED BY <1>1 DEF stopVars, world, OwnerCall

LEMMA AskingOwner ==
  ASSUME StopIInv, NEW c \in Callers, NEW r \in Reasons \ {""}, Ask(c, r), owes[c] # "cancel",
         watch' \in {"set", "run", "stopped"}
  PROVE  /\ OwnerCall({r}) /\ UNCHANGED ctxDone /\ (~finished => reason' # "")
         /\ reason' = reason \/ (reason = "" /\ reason' = r)
<1>1. StopIInv'
  BY AskKeepsIInv
<1>2. /\ Settle(r) /\ UNCHANGED <<hook, parent, finished, ctxDone, killed>>
  BY DEF Ask, world
<1>3. owes' = [owes EXCEPT ![c] = IF finished THEN "nothing" ELSE "cancel"]
  BY DEF Ask, Owe
<1>4. \A d \in Callers : owes'[d] = "request" => owes[d] = "request"
  BY <1>3 DEF StopIInv, StopTypeOK
<1>5. /\ reason' = reason \/ (reason = "" /\ reason' = r)
      /\ ~finished => reason' # ""
  BY <1>2, SettleDecides DEF StopIInv
<1> QED BY <1>1, <1>2, <1>4, <1>5 DEF OwnerCall

LEMMA RequestingOwner ==
  ASSUME StopIInv, NEW c \in Callers, NEW r \in Reasons \ {""}, Request(c, r)
  PROVE  /\ OwnerCall({r}) /\ UNCHANGED ctxDone /\ (~finished => reason' # "")
         /\ reason' = reason \/ (reason = "" /\ reason' = r)
<1>1. Ask(c, r) /\ owes[c] # "cancel" /\ watch' \in {"set", "run", "stopped"}
  BY DEF Request, Free, StopIInv, StopTypeOK
<1> QED BY <1>1, AskingOwner

LEMMA IncompleteOwner ==
  ASSUME StopIInv, NEW c \in Callers, Incomplete(c), c # Watcher, c = Main => ~finished
  PROVE  OwnerCall({"failure"}) /\ UNCHANGED ctxDone /\ (~finished => reason' \notin Normal)
<1>1. StopIInv'
  BY NextIInv DEF StopNext, Call, MayCall
<1>2. UNCHANGED <<hook, parent, finished, killed, ctxDone>> /\ Downgrade
  BY DEF Incomplete, world
<1>3. /\ reason' = reason \/ (reason \in Normal /\ reason' = "failure")
      /\ ~finished => reason' \notin Normal
  BY <1>2 DEF Downgrade, Normal
<1> QED BY <1>1, <1>2, <1>3 DEF OwnerCall

LEMMA OverridingOwner ==
  ASSUME StopIInv, Override
  PROVE  OwnerCall({"failure"}) /\ UNCHANGED <<owes, ctxDone>>
<1>1. StopIInv'
  BY NextIInv DEF StopNext
<1>2. /\ UNCHANGED <<hook, parent, finished, killed, ctxDone, owes>>
      /\ reason # "" /\ reason' = IF CodeOf(reason) # 130 THEN "failure" ELSE reason
  BY DEF Override, Rewrite, world
<1>3. reason' = reason \/ (reason \in Normal /\ reason' = "failure")
  BY <1>2, OnlyCancelIs130 DEF StopIInv, StopTypeOK, Reasons
<1> QED BY <1>1, <1>2, <1>3 DEF OwnerCall

-----------------------------------------------------------------------------
(* A ground, once there, stays. *)
LEMMA GroundStays ==
  ASSUME harm # "none" => harm' # "none", mishap => mishap', failure => failure',
         life = "failed" => life' = "failed",
         step \in Stopping => step' \in Stopping /\ tail' = tail
  PROVE  Ground => Ground'
  BY DEF Ground

LEMMA GroundedStays ==
  ASSUME ObserveIInv, NEW given, OwnerCall(given), Ground => Ground',
         "failure" \in given => Ground', status' = status, ready' => ready \/ status' = NoExit
  PROVE  Grounded'
<1>1. (\E c \in Callers : owes'[c] = "request")
        => (\E c \in Callers : owes[c] = "request") \/ "failure" \in given
  BY DEF OwnerCall
<1>2. reason' = "failure" => reason = "failure" \/ "failure" \in given
  BY DEF OwnerCall
<1>3. reason' = "failure" \/ (\E c \in Callers : owes'[c] = "request")
        => Ground' \/ status' \in {1, 130}
  BY <1>1, <1>2 DEF ObserveIInv, Grounded
<1>4. status' = 1 /\ ready' => Ground'
  <2>1. NoExit # 1
    BY DEF NoExit
  <2> QED BY <2>1 DEF ObserveIInv, Grounded
<1> QED BY <1>3, <1>4 DEF Grounded

LEMMA WishedStays ==
  ASSUME ObserveIInv, NEW given, OwnerCall(given), step' # "prepare",
         interrupted => interrupted', "cancel" \in given => Wish',
         status' = 130 => status = 130 \/ Wish', step' = "cancel" => step = "cancel" \/ Wish'
  PROVE  Wished'
<1>1. Wish => Wish'
  BY DEF Wish, OwnerCall
<1> QED BY <1>1 DEF ObserveIInv, OwnerCall, Wished, Normal

(* A step of Main that neither opens nor closes the session nor reports:   *)
(* where it leads, what it does to the event, and which reasons it gives.  *)
Leads ==
  /\ step \notin Concluding \cup {"prepare", "open", "close", "report"}
  /\ step' \in Steps \ (Concluding \cup {"prepare", "open", "opened", "closeErr"})
  /\ step \in Stopping => step' \in Stopping
  /\ step' \in Asking \cup Emitting \cup {"lastErr", "close"} => life = "open"
  /\ step' = "rewrite" => life = "failed"
  /\ step' \in Choosing => life \in {"open", "failed"}
  /\ step' = "cancel" => Wish
  /\ step' = "report" => life \in {"closed", "failed"}
  /\ step' \in {"close", "report"} => reason' # ""
  /\ step' = "report" /\ harm = "early" /\ life = "closed" => reason' \in {"failure", "cancel"}
  /\ UNCHANGED <<sessionVars, timeVars, status, exited>>
  /\ seen' \in {seen, failure} /\ mishap' \in {mishap, TRUE}

Handles ==
  /\ ready' \in BOOLEAN /\ (ready' => ready \/ life = "open")
  /\ admitted' \in Nat /\ emitted' \in Nat
  /\ unfinished' \in BOOLEAN /\ data' \in BOOLEAN /\ tail' \in {"whole", "partial"}
  /\ step \in Stopping => UNCHANGED eventVars
  /\ Count > 0 => admitted' <= Count
  /\ step' \notin Emitting \cup Stopping => ~unfinished' /\ (Count > 0 => admitted' < Count)
  /\ step' \notin Stopping \cup {"writing"} => tail' = "whole"
  /\ step' = "writing" => tail' = "partial"

Gives(given) ==
  /\ OwnerCall(given)
  /\ "cancel" \in given => Wish
  /\ "failure" \in given => Ground'
  /\ "count" \in given => Count > 0 /\ admitted' = Count
  /\ "count" \in given \/ "exhaustion" \in given
       => step' \in Stopping /\ ~unfinished' /\ tail' = "whole"

LEMMA MainGoesOn ==
  ASSUME ObserveIInv, Leads, Handles, NEW given, Gives(given)
  PROVE  ObserveIInv'
<1> USE DEF ObserveIInv
<1>1. StopIInv' /\ StopTypeOK'
  BY DEF Gives, OwnerCall, StopIInv
<1>u. /\ UNCHANGED <<sessionDone, life, harm, failure, told, got, clock, deadline, interrupted,
                     status, exited>>
      /\ seen' \in {seen, failure} /\ mishap' \in {mishap, TRUE} /\ step' \in Steps
      /\ status = NoExit
  BY DEF Leads, sessionVars, timeVars, Order
<1>2. TypeOK'
  <2>1. seen' \in BOOLEAN /\ mishap' \in BOOLEAN
    BY <1>u DEF TypeOK
  <2> QED BY <1>1, <1>u, <2>1 DEF Handles, TypeOK
<1>3. Order'
  BY <1>u DEF Leads, Handles, Gives, OwnerCall, Order, Asking, Emitting, Choosing, Concluding, Stopping
<1>4. SessionFacts'
  BY <1>u DEF SessionFacts
<1>5. Counted'
  BY DEF Leads, Handles, Gives, OwnerCall, Counted, eventVars, Normal, Stopping
<1>6. Wished'
  <2>1. Wish => Wish'
    BY <1>u DEF Gives, OwnerCall, Wish
  <2> QED BY <1>u, <2>1, WishedStays DEF Leads, Gives
<1>7. Grounded'
  <2>1. mishap => mishap'
    BY <1>u
  <2>2. step \in Stopping => step' \in Stopping /\ tail' = tail
    BY DEF Leads, Handles, eventVars
  <2>3. Ground => Ground'
    BY <1>u, <2>1, <2>2, GroundStays
  <2> QED BY <1>u, <2>3, GroundedStays DEF Gives
<1>8. Earned'
  <2>1. status' # 0
    BY <1>u DEF NoExit
  <2>2. step' # "closeErr"
    BY DEF Leads
  <2> QED BY <1>u, <2>1, <2>2 DEF Leads, Earned
<1> QED BY <1>1, <1>2, <1>3, <1>4, <1>5, <1>6, <1>7, <1>8

(* What the parts of the loop have in common. *)
LEMMA SameEvent ==
  ASSUME ObserveIInv, UNCHANGED eventVars,
         \/ step \notin Emitting \cup Stopping
         \/ step' \in Stopping
         \/ step \in Emitting \ {"writing"} /\ step' \in Emitting,
         step' # "writing"
  PROVE  Handles
<1>1. /\ UNCHANGED <<ready, admitted, emitted, unfinished, data, tail>>
      /\ ready \in BOOLEAN /\ admitted \in Nat /\ emitted \in Nat
      /\ unfinished \in BOOLEAN /\ data \in BOOLEAN /\ tail \in {"whole", "partial"}
      /\ Count > 0 => admitted <= Count
  BY DEF ObserveIInv, TypeOK, Counted, eventVars
<1>2. step' \notin Emitting \cup Stopping => ~unfinished /\ (Count > 0 => admitted < Count)
  BY DEF ObserveIInv, Counted
<1>3. step' \notin Stopping \cup {"writing"} => tail = "whole"
  BY DEF ObserveIInv, Counted, Emitting, Stopping, Choosing, Concluding
<1> QED BY <1>1, <1>2, <1>3 DEF Handles, eventVars

LEMMA LoopIsOpen ==
  ASSUME ObserveIInv, step \in Asking \cup Emitting
  PROVE  life = "open" /\ ~finished /\ status = NoExit /\ step \in Steps
         /\ (seen => failure) /\ (failure => harm # "none")
         /\ step \notin Stopping \cup {"prepare", "open"}
  BY DEF ObserveIInv, TypeOK, Order, SessionFacts, Asking, Emitting, Stopping, Choosing, Concluding

LEMMA PassMoves ==
  ASSUME ObserveIInv, step \in Asking \cup Emitting, UNCHANGED stopVars,
         UNCHANGED <<sessionVars, timeVars, exitVars>>, seen' \in {seen, failure},
         step' \in Asking \cup Emitting \cup {"lastErr"}, Handles
  PROVE  ObserveIInv'
<1>1. Gives({})
  BY QuietOwner DEF ObserveIInv, Gives
<1>2. Leads
  BY LoopIsOpen DEF Leads, Asking, Emitting, Stopping, Choosing, Concluding, Steps, exitVars
<1> QED BY <1>1, <1>2, MainGoesOn

(* A failure that ends the loop has a ground. *)
LEMMA BreakMoves ==
  ASSUME ObserveIInv, step \in Asking \cup Emitting, Incomplete(Main), step' = "lastErr",
         UNCHANGED <<sessionVars, timeVars, seen, status, exited>>, mishap' \in {mishap, TRUE},
         harm # "none" \/ mishap' \/ failure \/ tail' = "partial", Handles
  PROVE  ObserveIInv'
<1>1. OwnerCall({"failure"})
  BY LoopIsOpen, IncompleteOwner, GoroutinesAreCallers DEF ObserveIInv
<1>2. Ground'
  BY DEF Ground, Stopping, sessionVars
<1>3. Gives({"failure"})
  BY <1>1, <1>2 DEF Gives
<1>4. Leads
  BY LoopIsOpen DEF Leads, Asking, Emitting, Stopping, Choosing, Concluding, Steps
<1> QED BY <1>3, <1>4, MainGoesOn

LEMMA RequestMoves ==
  ASSUME ObserveIInv, step \in Asking \cup Emitting, NEW r \in {"count", "exhaustion"},
         Request(Main, r), step' = "lastErr", UNCHANGED <<sessionVars, timeVars, seen, exitVars>>,
         ~unfinished', tail' = "whole", r = "count" => Count > 0 /\ admitted' = Count, Handles
  PROVE  ObserveIInv'
<1>1. OwnerCall({r})
  BY RequestingOwner, GoroutinesAreCallers DEF ObserveIInv, Reasons, Normal
<1>2. Gives({r})
  BY <1>1 DEF Gives, Stopping
<1>3. Leads
  BY LoopIsOpen DEF Leads, Asking, Emitting, Stopping, Choosing, Concluding, Steps, exitVars
<1> QED BY <1>2, <1>3, MainGoesOn

-----------------------------------------------------------------------------
(* The receive loop, action by action. *)
LEMMA LoopKeepsIInv == ASSUME ObserveIInv, Loop \/ Returned PROVE ObserveIInv'
<1>1. /\ step \in {"loop", "next"} /\ UNCHANGED stopVars
      /\ UNCHANGED <<sessionVars, timeVars, eventVars, exitVars>>
      /\ seen' \in {seen, failure} /\ step' \in {"lastErr", "err", "nextErr"}
  BY DEF Loop, Returned, At, Pass, Err, GoTo, AboutStop, AboutSession
<1>2. Handles
  BY <1>1, SameEvent DEF Emitting, Stopping, Choosing, Concluding
<1> QED BY <1>1, <1>2, PassMoves DEF Asking

LEMMA BreakKeepsIInv ==
  ASSUME ObserveIInv, step \in Asking \cup Emitting, Break,
         failure \/ harm # "none" \/ tail = "partial"
  PROVE  ObserveIInv'
<1>1. /\ Incomplete(Main) /\ step' = "lastErr"
      /\ UNCHANGED <<sessionVars, seen, timeVars, eventVars, exitVars>>
  BY DEF Break, GoTo, AboutStop
<1>2. Handles
  BY <1>1, SameEvent DEF Stopping, Choosing
<1> QED BY <1>1, <1>2, BreakMoves DEF exitVars, eventVars

LEMMA BreakOnKeepsIInv ==
  ASSUME ObserveIInv, step \in Asking \cup Emitting, NEW what, BreakOn(what)
  PROVE  ObserveIInv'
<1>1. /\ Incomplete(Main) /\ step' = "lastErr" /\ mishap' = TRUE
      /\ UNCHANGED <<sessionVars, seen, timeVars, eventVars, status, exited>>
  BY DEF BreakOn, GoesWrong, GoTo, AboutExit
<1>2. Handles
  BY <1>1, SameEvent DEF Stopping, Choosing
<1> QED BY <1>1, <1>2, BreakMoves

(* Next may return anything a session may. *)
LEMMA ReceiveKeepsIInv == ASSUME ObserveIInv, Next1 PROVE ObserveIInv'
<1>1. step = "err" /\ step \in Asking \cup Emitting
  BY DEF Next1, At, Asking
<1>2. CASE seen
  BY <1>1, <1>2, LoopIsOpen, BreakKeepsIInv DEF Next1
<1>3. CASE ~seen
  <2>1. /\ NextReturns /\ step' = "next" /\ seen' = seen /\ UNCHANGED stopVars
        /\ UNCHANGED <<timeVars, eventVars, exitVars>>
    BY <1>3 DEF Next1, GoTo, AboutSession
  <2>2. /\ UNCHANGED <<sessionDone, life, harm, failure, told>> /\ got' \in Results
        /\ got' = "failed" => failure
        /\ got' = "broken" => harm # "none"
    BY <2>1 DEF NextReturns, Results
  <2>3. OwnerCall({}) /\ UNCHANGED <<owes, ctxDone, reason>>
    BY <2>1, QuietOwner DEF ObserveIInv
  <2> USE DEF ObserveIInv, timeVars, eventVars, exitVars
  <2>4. TypeOK'
    BY <2>1, <2>2, <2>3 DEF TypeOK, OwnerCall, StopIInv, Steps
  <2>5. Order'
    BY <1>1, <2>1, <2>2, <2>3, LoopIsOpen DEF Order, OwnerCall, Asking, Emitting, Choosing, Concluding
  <2>6. SessionFacts'
    BY <2>1, <2>2 DEF SessionFacts
  <2>7. Counted'
    BY <1>1, <2>1, <2>3 DEF Counted, Emitting, Stopping, Choosing, Concluding
  <2>8. Wished'
    BY <2>1, <2>3, WishedStays
  <2>9. Ground => Ground'
    BY <1>1, <2>1, <2>2, GroundStays DEF Stopping, Choosing, Concluding
  <2>10. Grounded'
    BY <2>1, <2>3, <2>9, GroundedStays
  <2>11. Earned'
    BY <1>1, <2>1, <2>2, LoopIsOpen DEF Earned, NoExit
  <2> QED BY <2>3, <2>4, <2>5, <2>6, <2>7, <2>8, <2>10, <2>11 DEF OwnerCall
<1> QED BY <1>2, <1>3

LEMMA ReceivedKeepsIInv == ASSUME ObserveIInv, Received PROVE ObserveIInv'
<1>1. step = "nextErr" /\ step \in Asking \cup Emitting
  BY DEF Received, At, Asking
<1>2. CASE seen /\ Break
  BY <1>1, <1>2, LoopIsOpen, BreakKeepsIInv
<1>3. CASE Pass("lastErr")
  <2>1. Handles
    BY <1>3, SameEvent DEF Pass, GoTo, AboutStop, Stopping
  <2> QED BY <1>1, <1>3, <2>1, PassMoves DEF Pass, GoTo, AboutStop
<1>4. CASE Broken(got) /\ Break
  <2>1. failure \/ harm # "none"
    BY <1>4 DEF Broken, ObserveIInv, SessionFacts
  <2> QED BY <1>1, <1>4, <2>1, BreakKeepsIInv
<1>5. CASE \/ Admit("lastErr") /\ Incomplete(Main) /\ mishap' = TRUE
           \/ Admit("render") /\ UNCHANGED <<stopVars, mishap>>
  <2>1. /\ admitted' = admitted + 1 /\ unfinished' = TRUE /\ step' \in {"lastErr", "render"}
        /\ UNCHANGED <<sessionVars, seen, timeVars, ready, emitted, data, tail, status, exited>>
    BY <1>5 DEF Admit, GoTo
  <2>2. /\ ready \in BOOLEAN /\ admitted \in Nat /\ emitted \in Nat
        /\ data \in BOOLEAN /\ Count \in Nat /\ tail = "whole" /\ (Count > 0 => admitted < Count)
    BY <1>1, ObserveAssumption DEF ObserveIInv, TypeOK, Counted, Emitting, Stopping, Choosing, Concluding
  <2>3. admitted' \in Nat /\ (Count > 0 => admitted' <= Count)
    BY <2>1, <2>2
  <2>4. Handles
    BY <1>1, <2>1, <2>2, <2>3 DEF Handles, Emitting, Stopping, Choosing, Concluding
  <2>5. CASE Incomplete(Main) /\ mishap' = TRUE /\ GoTo("lastErr")
    BY <1>1, <2>1, <2>4, <2>5, BreakMoves DEF GoTo
  <2>6. CASE UNCHANGED <<stopVars, mishap>>
    BY <1>1, <2>1, <2>4, <2>6, PassMoves DEF exitVars, Emitting
  <2> QED BY <1>5, <2>5, <2>6 DEF Admit
<1>6. CASE Request(Main, "exhaustion") /\ GoTo("lastErr") /\ AboutStop
  <2>1. Handles
    BY <1>6, SameEvent DEF GoTo, AboutStop, Stopping
  <2>2. ~unfinished' /\ tail' = "whole"
    BY <1>1, <1>6 DEF AboutStop, eventVars, ObserveIInv, Counted, Emitting, Stopping, Choosing, Concluding
  <2> QED BY <1>1, <1>6, <2>1, <2>2, RequestMoves DEF GoTo, AboutStop
<1> QED BY <1>2, <1>3, <1>4, <1>5, <1>6 DEF Received

LEMMA RenderKeepsIInv == ASSUME ObserveIInv, Render \/ Rendered PROVE ObserveIInv'
<1>1. step \in {"render", "renderErr"} /\ step \in Asking \cup Emitting
  BY DEF Render, Rendered, At, Emitting
<1>2. ASSUME NEW s \in {"lastErr", "write", "done"}, Pass(s)
      PROVE  ObserveIInv'
  <2>1. Handles
    BY <1>1, <1>2, SameEvent DEF Pass, GoTo, AboutStop, Stopping, Emitting
  <2> QED BY <1>1, <1>2, <2>1, PassMoves DEF Pass, GoTo, AboutStop, Emitting
<1>3. CASE BreakOn("payload")
  BY <1>1, <1>3, BreakOnKeepsIInv
<1>4. CASE seen /\ Break
  BY <1>1, <1>4, LoopIsOpen, BreakKeepsIInv
<1>5. CASE /\ data' \in BOOLEAN /\ seen' = failure /\ GoTo("renderErr")
           /\ UNCHANGED <<stopVars, sessionVars, timeVars, ready, admitted, emitted,
                          unfinished, tail, exitVars>>
  <2>1. Handles
    BY <1>1, <1>5 DEF GoTo, Handles, ObserveIInv, TypeOK, Counted, Emitting, Stopping, Choosing, Concluding
  <2> QED BY <1>1, <1>5, <2>1, PassMoves DEF GoTo, Emitting
<1> QED BY <1>2, <1>3, <1>4, <1>5 DEF Render, Rendered

(* An event is whole again before the next one is received. *)
LEMMA WriteKeepsIInv == ASSUME ObserveIInv, Write PROVE ObserveIInv'
<1>1. step \in {"write", "writing"} /\ step \in Asking \cup Emitting
  BY DEF Write, At, Emitting
<1>2. CASE Pass("lastErr")
  <2>1. Handles
    BY <1>2, SameEvent DEF Pass, GoTo, AboutStop, Stopping
  <2> QED BY <1>1, <1>2, <2>1, PassMoves DEF Pass, GoTo, AboutStop
<1>3. CASE Output("writing", "partial", emitted) \/ Output("done", "whole", emitted + 1)
  <2>1. /\ \/ step' = "writing" /\ tail' = "partial" /\ emitted' = emitted
           \/ step' = "done" /\ tail' = "whole" /\ emitted' = emitted + 1
        /\ UNCHANGED <<stopVars, ready, admitted, unfinished, data, sessionVars, seen, timeVars,
                       exitVars>>
    BY <1>3 DEF Output, GoTo, AboutEvent
  <2>2. emitted' \in Nat /\ Count \in Nat
    BY <2>1, ObserveAssumption DEF ObserveIInv, TypeOK
  <2>3. Handles
    BY <1>1, <2>1, <2>2 DEF Handles, ObserveIInv, TypeOK, Counted, Emitting, Stopping, Choosing, Concluding
  <2> QED BY <1>1, <2>1, <2>3, PassMoves DEF Emitting
<1>4. CASE step = "writing" /\ sessionDone /\ Break
  <2>1. tail = "partial"
    BY <1>4 DEF ObserveIInv, Counted
  <2> QED BY <1>1, <1>4, <2>1, BreakKeepsIInv
<1>5. CASE BreakOn("write")
  BY <1>1, <1>5, BreakOnKeepsIInv
<1> QED BY <1>2, <1>3, <1>4, <1>5 DEF Write, At

LEMMA EventDoneKeepsIInv == ASSUME ObserveIInv, EventDone PROVE ObserveIInv'
<1>1. step = "done" /\ step \in Asking \cup Emitting
  BY DEF EventDone, At, Emitting
<1>2. /\ unfinished' = FALSE
      /\ UNCHANGED <<ready, admitted, emitted, data, tail, sessionVars, seen, timeVars, exitVars>>
  BY DEF EventDone, AboutEvent
<1>3. /\ Count \in Nat /\ ready \in BOOLEAN /\ admitted \in Nat /\ emitted \in Nat
      /\ data \in BOOLEAN /\ tail = "whole" /\ (Count > 0 => admitted <= Count)
  BY <1>1, ObserveAssumption DEF ObserveIInv, TypeOK, Counted, Stopping, Choosing, Concluding
<1>4. CASE CountReached
  <2>1. Count > 0 /\ admitted = Count
    BY <1>3, <1>4 DEF CountReached
  <2>2. Request(Main, "count") /\ step' = "lastErr"
    BY <1>4 DEF EventDone, GoTo
  <2>3. Handles
    BY <1>1, <1>2, <1>3, <2>2 DEF Handles, Emitting, Stopping, Choosing, Concluding
  <2> QED BY <1>1, <1>2, <1>3, <2>1, <2>2, <2>3, RequestMoves
<1>5. CASE ~CountReached
  <2>1. Count > 0 => admitted < Count
    BY <1>3, <1>5 DEF CountReached
  <2>2. UNCHANGED stopVars /\ step' = "loop"
    BY <1>5 DEF EventDone, GoTo
  <2>3. Handles
    BY <1>1, <1>2, <1>3, <2>1, <2>2 DEF Handles, Emitting, Stopping, Choosing, Concluding
  <2> QED BY <1>1, <1>2, <2>2, <2>3, PassMoves DEF Asking
<1> QED BY <1>4, <1>5

LEMMA ReceivingKeepsIInv == ASSUME ObserveIInv, Receiving PROVE ObserveIInv'
  BY LoopKeepsIInv, ReceiveKeepsIInv, ReceivedKeepsIInv, RenderKeepsIInv, WriteKeepsIInv,
     EventDoneKeepsIInv DEF Receiving

-----------------------------------------------------------------------------
(* Before and after the loop. *)
LEMMA OpenedKeepsIInv == ASSUME ObserveIInv, OpenFailed \/ RewriteVerdict PROVE ObserveIInv'
<1>1. /\ step \in {"opened", "rewrite"} /\ life = "failed" /\ ~finished
      /\ step' \in {"rewrite", "decide"}
      /\ UNCHANGED <<sessionVars, seen, timeVars, eventVars, exitVars>>
  BY DEF OpenFailed, RewriteVerdict, At, GoTo, AboutStop, ObserveIInv, Order
<1>2. OwnerCall({"failure"})
  BY RequestingOwner, OverridingOwner, GoroutinesAreCallers
     DEF OpenFailed, RewriteVerdict, ObserveIInv, Reasons
<1>3. Ground'
  BY <1>1 DEF Ground, sessionVars
<1>4. Gives({"failure"})
  BY <1>2, <1>3 DEF Gives
<1>5. Handles
  BY <1>1, SameEvent DEF Emitting, Stopping, Choosing, Concluding
<1>6. Leads
  BY <1>1 DEF Leads, Asking, Emitting, Stopping, Choosing, Concluding, Steps, exitVars
<1> QED BY <1>4, <1>5, <1>6, MainGoesOn

LEMMA ReadyKeepsIInv == ASSUME ObserveIInv, Ready PROVE ObserveIInv'
<1>1. /\ step = "opened" /\ life = "open" /\ ready' = TRUE /\ step' = "loop" /\ ~finished
      /\ UNCHANGED <<sessionVars, seen, timeVars, admitted, emitted, unfinished, data, tail>>
  BY DEF Ready, At, GoTo, ObserveIInv, Order
<1>2. \/ UNCHANGED <<stopVars, exitVars>>
      \/ Incomplete(Main) /\ mishap' = TRUE /\ UNCHANGED <<status, exited>>
  BY DEF Ready, GoesWrong
<1>3. Handles
  BY <1>1 DEF Handles, ObserveIInv, TypeOK, Counted, Emitting, Stopping, Choosing, Concluding
<1>4. Leads
  BY <1>1, <1>2 DEF Leads, Asking, Emitting, Stopping, Choosing, Concluding, Steps, exitVars
<1>5. CASE UNCHANGED <<stopVars, exitVars>>
  <2>1. Gives({})
    BY <1>5, QuietOwner DEF ObserveIInv, Gives
  <2> QED BY <1>3, <1>4, <2>1, MainGoesOn
<1>6. CASE Incomplete(Main) /\ mishap' = TRUE
  <2>1. Gives({"failure"})
    BY <1>1, <1>6, IncompleteOwner, GoroutinesAreCallers DEF ObserveIInv, Gives, Ground
  <2> QED BY <1>3, <1>4, <2>1, MainGoesOn
<1> QED BY <1>2, <1>5, <1>6

(* A look at the session after the loop and after its close. *)
LEMMA LastErrKeepsIInv == ASSUME ObserveIInv, LastErr \/ CloseErr PROVE ObserveIInv'
<1>1. /\ step \in {"lastErr", "closeErr"} /\ ~finished
      /\ step' = (IF step = "lastErr" THEN "decide" ELSE "report")
      /\ UNCHANGED <<sessionVars, seen, timeVars, eventVars, exitVars>>
      /\ IF failure THEN Incomplete(Main) ELSE UNCHANGED stopVars
  BY DEF LastErr, CloseErr, At, GoTo, AboutStop, ObserveIInv, Order
<1>2. /\ step = "lastErr" => life = "open"
      /\ step = "closeErr" => life = "closed" /\ reason # "" /\ (harm = "early" => failure)
  BY DEF ObserveIInv, Order, Earned
<1>3. Handles
  BY <1>1, SameEvent DEF Stopping, Choosing
<1>4. CASE failure
  <2>1. OwnerCall({"failure"}) /\ reason' \notin Normal
    BY <1>1, <1>4, IncompleteOwner, GoroutinesAreCallers DEF ObserveIInv
  <2>2. Ground'
    BY <1>1, <1>4 DEF Ground, sessionVars
  <2>3. Gives({"failure"})
    BY <2>1, <2>2 DEF Gives
  <2>4. reason' \in Reasons /\ (reason # "" => reason' # "")
    BY <2>1 DEF OwnerCall, StopIInv, StopTypeOK
  <2>5. Leads
    BY <1>1, <1>2, <2>1, <2>4
       DEF Leads, Asking, Emitting, Stopping, Choosing, Concluding, Steps, exitVars, Reasons
  <2> QED BY <1>3, <2>3, <2>5, MainGoesOn
<1>5. CASE ~failure
  <2>1. OwnerCall({}) /\ reason' = reason
    BY <1>1, <1>5, QuietOwner DEF ObserveIInv
  <2>2. Gives({})
    BY <2>1 DEF Gives
  <2>3. Leads
    BY <1>1, <1>2, <1>5, <2>1 DEF Leads, Asking, Emitting, Stopping, Choosing, Concluding, Steps, exitVars
  <2> QED BY <1>3, <2>2, <2>3, MainGoesOn
<1> QED BY <1>4, <1>5

(* The types of a step of Main that emits nothing and asks for nothing. *)
LEMMA TypesStay ==
  ASSUME TypeOK, StopIInv', step' \in Steps,
         UNCHANGED <<sessionDone, failure, seen, interrupted, harm, told, got, eventVars, exited>>,
         clock' \in {"unset", "running", "out"},
         deadline' \in {"unset", "set", "run", "stopped"},
         life' \in {"opening", "open", "failed", "closed"},
         mishap' \in BOOLEAN, status' \in {NoExit, 0, 1, 130}
  PROVE  TypeOK'
<1>1. StopTypeOK'
  BY DEF StopIInv
<1>2. {sessionDone', failure', seen', interrupted', ready', unfinished', data', mishap'}
         \subseteq BOOLEAN
  BY DEF TypeOK, eventVars
<1>3. {status', exited'} \subseteq {NoExit, 0, 1, 130}
  BY DEF TypeOK
<1>4. /\ harm' \in {"none", "late", "early"} /\ told' \in {"no", "due", "yes"}
      /\ got' \in Results
      /\ admitted' \in Nat /\ emitted' \in Nat /\ tail' \in {"whole", "partial"}
  BY DEF TypeOK, eventVars
<1> QED BY <1>1, <1>2, <1>3, <1>4 DEF TypeOK

(* Main gives a reason when nobody else did. *)
LEMMA DecideKeepsIInv == ASSUME ObserveIInv, Decide PROVE ObserveIInv'
<1>1. /\ step \in Choosing /\ ~finished /\ life \in {"open", "failed"}
      /\ UNCHANGED <<sessionVars, seen, timeVars, eventVars, exitVars>>
      /\ step = "cancel" => Wish
  BY DEF Decide, Pass, At, AboutStop, ObserveIInv, Order, Wished, Choosing
<1>2. ASSUME step' \in Choosing \cup {"close", "report"} PROVE Handles
  BY <1>1, <1>2, SameEvent DEF Stopping, Choosing
<1>3. CASE /\ UNCHANGED stopVars
           /\ \/ step' = CleanUp /\ reason # ""
              \/ step' \in {"default", DefaultReason}
  <2>1. OwnerCall({}) /\ reason' = reason
    BY <1>3, QuietOwner DEF ObserveIInv
  <2>2. Gives({})
    BY <2>1 DEF Gives
  <2>3. \/ step' = (IF life = "open" THEN "close" ELSE "report") /\ reason # ""
        \/ step' \in Choosing /\ (step' = "cancel" => Wish)
    BY <1>3 DEF CleanUp, DefaultReason, Choosing, Wish
  <2>4. Leads
    BY <1>1, <2>1, <2>3 DEF Leads, Asking, Emitting, Stopping, Choosing, Concluding, Steps, exitVars
  <2> QED BY <1>2, <2>2, <2>3, <2>4, MainGoesOn
<1>4. CASE step \in {"cancel", "duration"} /\ Request(Main, step) /\ step' = CleanUp
  <2>1. OwnerCall({step}) /\ reason' # ""
    BY <1>1, <1>4, RequestingOwner, GoroutinesAreCallers DEF ObserveIInv, Reasons, Normal
  <2>2. Gives({step})
    BY <1>1, <1>4, <2>1 DEF Gives
  <2>3. step' = (IF life = "open" THEN "close" ELSE "report")
    BY <1>4 DEF CleanUp
  <2>4. Leads
    BY <1>1, <1>4, <2>1, <2>3
       DEF Leads, Asking, Emitting, Stopping, Choosing, Concluding, Steps, exitVars
  <2> QED BY <1>2, <2>2, <2>3, <2>4, MainGoesOn
<1> QED BY <1>3, <1>4 DEF Decide, Pass, At, GoTo

LEMMA PrepareKeepsIInv == ASSUME ObserveIInv, PrepareFails \/ Prepare PROVE ObserveIInv'
<1> USE DEF ObserveIInv, timeVars, eventVars
<1>1. /\ step = "prepare" /\ life = "opening" /\ status = NoExit /\ ~finished /\ clock = "unset"
      /\ ~ready /\ ~unfinished /\ tail = "whole" /\ exited = NoExit /\ (ctxDone => Wish)
      /\ UNCHANGED <<sessionVars, seen, interrupted, eventVars, exited>>
  BY DEF PrepareFails, Prepare, At, AboutExit, Order, Counted, Wished, Emitting, Stopping,
         Choosing, Concluding, exitVars
<1>2. CASE PrepareFails
  <2>1. /\ UNCHANGED <<stopVars, clock, deadline>> /\ step' = "execute"
        /\ \/ status' = 130 /\ Wish /\ mishap' = mishap
           \/ status' = 1 /\ mishap' = TRUE
    BY <1>1, <1>2 DEF PrepareFails, GoTo, AboutExit, Wish
  <2>2. OwnerCall({}) /\ UNCHANGED <<owes, ctxDone, reason>>
    BY <2>1, QuietOwner
  <2>3. TypeOK'
    <3>1. mishap' \in BOOLEAN /\ status' \in {NoExit, 0, 1, 130}
      BY <2>1 DEF TypeOK
    <3>2. life' \in {"opening", "open", "failed", "closed"}
      BY <1>1 DEF sessionVars
    <3>3. /\ clock' \in {"unset", "running", "out"} /\ step' \in Steps
          /\ deadline' \in {"unset", "set", "run", "stopped"}
      BY <2>1 DEF TypeOK, Steps
    <3> QED BY <1>1, <2>2, <3>1, <3>2, <3>3, TypesStay DEF OwnerCall, sessionVars
  <2>4. Order'
    <3>1. status' # NoExit
      BY <2>1 DEF NoExit
    <3> QED BY <1>1, <2>1, <2>2, <3>1 DEF Order, OwnerCall, Asking, Emitting, Choosing, Concluding, sessionVars
  <2>5. SessionFacts'
    BY <1>1 DEF SessionFacts, sessionVars
  <2>6. Counted'
    BY <1>1, <2>1, <2>2 DEF Counted, Emitting, Stopping, Choosing, Concluding
  <2>7. Wished'
    <3>1. Wish => Wish'
      BY <1>1, <2>2 DEF Wish, OwnerCall
    <3> QED BY <1>1, <2>1, <2>2, <3>1, WishedStays
  <2>8. Grounded'
    BY <1>1, <2>1 DEF Grounded
  <2>9. Earned'
    BY <1>1, <2>1 DEF Earned
  <2> QED BY <2>2, <2>3, <2>4, <2>5, <2>6, <2>7, <2>8, <2>9 DEF OwnerCall
<1>3. CASE Prepare
  <2>1. /\ clock' = "running" /\ deadline' = "set" /\ step' = "open"
        /\ UNCHANGED <<mishap, status>>
        /\ IF parent = "cancelled" THEN Request(Main, "cancel") ELSE UNCHANGED stopVars
    BY <1>3 DEF Prepare, GoTo, exitVars
  <2>2. PICK given \in {{}, {"cancel"}} : OwnerCall(given) /\ ("cancel" \in given => Wish)
    BY <2>1, QuietOwner, RequestingOwner, GoroutinesAreCallers DEF Wish, Reasons
  <2>3. TypeOK'
    <3>1. mishap' \in BOOLEAN /\ status' \in {NoExit, 0, 1, 130}
      BY <1>1, <2>1 DEF TypeOK
    <3>2. life' \in {"opening", "open", "failed", "closed"}
      BY <1>1 DEF sessionVars
    <3>3. /\ clock' \in {"unset", "running", "out"} /\ step' \in Steps
          /\ deadline' \in {"unset", "set", "run", "stopped"}
      BY <2>1 DEF Steps
    <3> QED BY <1>1, <2>2, <3>1, <3>2, <3>3, TypesStay DEF OwnerCall, sessionVars
  <2>4. Order'
    BY <1>1, <2>1, <2>2 DEF Order, OwnerCall, Asking, Emitting, Choosing, Concluding, sessionVars
  <2>5. SessionFacts'
    BY <1>1 DEF SessionFacts, sessionVars
  <2>6. Counted'
    BY <1>1, <2>1, <2>2 DEF Counted, OwnerCall, Emitting, Stopping, Choosing, Concluding, Normal
  <2>7. Wished'
    <3>1. Wish => Wish'
      BY <1>1, <2>2 DEF Wish, OwnerCall
    <3> QED BY <1>1, <2>1, <2>2, <3>1, WishedStays
  <2>8. Grounded'
    <3>1. Ground => Ground'
      BY <1>1, <2>1 DEF Ground, sessionVars, Stopping, Choosing, Concluding
    <3> QED BY <1>1, <2>1, <2>2, <3>1, GroundedStays
  <2>9. Earned'
    BY <1>1, <2>1 DEF Earned, NoExit
  <2> QED BY <2>2, <2>3, <2>4, <2>5, <2>6, <2>7, <2>8, <2>9 DEF OwnerCall
<1> QED BY <1>2, <1>3

LEMMA OpenKeepsIInv == ASSUME ObserveIInv, Open PROVE ObserveIInv'
<1> USE DEF ObserveIInv, timeVars, eventVars
<1>a. /\ step = "open" /\ step' = "opened" /\ OpenReturns
      /\ mishap' = (mishap \/ (life' = "failed" /\ ~sessionDone /\ harm = "none"))
      /\ UNCHANGED <<stopVars, seen, timeVars, eventVars, status, exited>>
  BY DEF Open, At, GoTo
<1>b. status = NoExit /\ life = "opening" /\ ~ready /\ ~finished
  BY <1>a DEF Order, Choosing, Concluding
<1>c. mishap' \in BOOLEAN /\ (mishap => mishap')
  BY <1>a DEF TypeOK
<1>1. /\ step = "open" /\ step' = "opened" /\ OpenReturns /\ status = NoExit /\ ~ready /\ ~finished
      /\ mishap' \in BOOLEAN /\ (mishap => mishap')
      /\ UNCHANGED <<stopVars, seen, timeVars, eventVars, status, exited>>
  BY <1>a, <1>b, <1>c
<1>2. /\ life' \in {"open", "failed"} /\ (life' = "open" /\ failure => harm # "none")
      /\ UNCHANGED <<sessionDone, harm, failure, told, got>>
  BY <1>1 DEF OpenReturns
<1>3. OwnerCall({}) /\ UNCHANGED <<owes, ctxDone, reason>>
  BY <1>1, QuietOwner
<1>4. TypeOK'
  BY <1>1, <1>2, <1>3 DEF TypeOK, OwnerCall, StopIInv, Steps
<1>5. Order'
  BY <1>1, <1>2, <1>3 DEF Order, OwnerCall, Asking, Emitting, Choosing, Concluding
<1>6. SessionFacts'
  BY <1>1, <1>2 DEF SessionFacts
<1>7. Counted'
  BY <1>1, <1>3 DEF Counted, Emitting, Stopping, Choosing, Concluding
<1>8. Wished'
  BY <1>1, <1>3, WishedStays DEF Wish
<1>9. Grounded'
  <2>1. Ground => Ground'
    BY <1>1, <1>2 DEF Ground, OpenReturns, Stopping, Choosing, Concluding
  <2> QED BY <1>1, <1>3, <2>1, GroundedStays
<1>10. Earned'
  BY <1>1 DEF Earned, NoExit
<1> QED BY <1>3, <1>4, <1>5, <1>6, <1>7, <1>8, <1>9, <1>10 DEF OwnerCall

LEMMA CloseKeepsIInv == ASSUME ObserveIInv, Close PROVE ObserveIInv'
<1> USE DEF ObserveIInv, timeVars, eventVars, exitVars
<1>1. /\ step = "close" /\ step' = "closeErr" /\ status = NoExit /\ ~finished /\ reason # ""
      /\ life = "open" /\ life' = "closed" /\ (harm = "early" => failure)
      /\ UNCHANGED <<sessionDone, harm, failure, told, got>>
      /\ UNCHANGED <<stopVars, seen, timeVars, eventVars, exitVars>>
  <2>1. /\ step = "close" /\ step' = "closeErr" /\ CloseReturns
        /\ UNCHANGED <<stopVars, seen, timeVars, eventVars, exitVars>>
    BY DEF Close, AboutSession, At, GoTo
  <2>2. /\ life = "open" /\ life' = "closed" /\ (harm = "early" => failure)
        /\ UNCHANGED <<sessionDone, harm, failure, told, got>>
    BY <2>1 DEF CloseReturns
  <2>3. status = NoExit /\ ~finished /\ reason # ""
    BY <2>1 DEF Order, Choosing, Concluding
  <2> QED BY <2>1, <2>2, <2>3
<1>2. OwnerCall({}) /\ UNCHANGED <<owes, ctxDone, reason>>
  BY <1>1, QuietOwner
<1>3. TypeOK'
  <2>1. /\ clock' \in {"unset", "running", "out"} /\ step' \in Steps
        /\ deadline' \in {"unset", "set", "run", "stopped"}
    BY <1>1 DEF TypeOK, Steps
  <2>2. mishap' \in BOOLEAN /\ status' \in {NoExit, 0, 1, 130}
    BY <1>1 DEF TypeOK
  <2> QED BY <1>1, <1>2, <2>1, <2>2, TypesStay DEF OwnerCall
<1>4. Order'
  BY <1>1, <1>2 DEF Order, OwnerCall, Asking, Emitting, Choosing, Concluding
<1>5. SessionFacts'
  BY <1>1 DEF SessionFacts
<1>6. Counted'
  BY <1>1, <1>2 DEF Counted, Emitting, Stopping, Choosing, Concluding
<1>7. Wished'
  BY <1>1, <1>2, WishedStays DEF Wish
<1>8. Grounded'
  <2>1. Ground => Ground'
    BY <1>1 DEF Ground, Stopping
  <2> QED BY <1>1, <1>2, <2>1, GroundedStays
<1>9. Earned'
  BY <1>1 DEF Earned, NoExit
<1> QED BY <1>2, <1>3, <1>4, <1>5, <1>6, <1>7, <1>8, <1>9 DEF OwnerCall

LEMMA StatusesDiffer ==
  /\ 0 # 1 /\ 0 # 130 /\ 1 # 130
  /\ NoExit # 0 /\ NoExit # 1 /\ NoExit # 130
  BY DEF NoExit

(* The status that Main will return. *)
LEMMA Outcomes ==
  ASSUME reason \in Reasons \ {""}, ready \in BOOLEAN
  PROVE  /\ Outcome \in {0, 1, 130}
         /\ Outcome = 0 => ready /\ reason \in Normal
         /\ Outcome = 130 => reason = "cancel"
         /\ Outcome = 1 /\ ready => reason = "failure"
<1>1. reason \in Normal \cup {"failure", "cancel"}
  BY DEF Reasons
<1>2. /\ reason \in Normal => CodeOf(reason) = 0
      /\ reason = "failure" => CodeOf(reason) = 1
      /\ reason = "cancel" => CodeOf(reason) = 130
  BY DEF CodeOf, Normal
<1>3. \/ Outcome = 0 /\ ready /\ reason \in Normal
      \/ Outcome = 1 /\ (ready => reason = "failure")
      \/ Outcome = 130 /\ reason = "cancel"
  BY <1>1, <1>2 DEF Outcome
<1> QED BY <1>3, StatusesDiffer, ZenonT(30)

LEMMA ReportKeepsIInv == ASSUME ObserveIInv, Report PROVE ObserveIInv'
<1> USE DEF ObserveIInv, eventVars
<1>1. /\ step = "report" /\ step' = "execute" /\ status = NoExit /\ exited = NoExit /\ ~finished
      /\ reason # "" /\ life \in {"closed", "failed"} /\ (ready => life = "closed")
      /\ \/ status' = Outcome /\ mishap' = mishap
         \/ mishap' = TRUE /\ status' = IF Outcome = 0 THEN 1 ELSE Outcome
      /\ deadline' \in {"unset", "set", "run", "stopped"}
      /\ UNCHANGED <<stopVars, sessionVars, seen, clock, interrupted, eventVars, exited>>
  <2>1. /\ step = "report" /\ step' = "execute"
        /\ \/ status' = Outcome /\ mishap' = mishap
           \/ mishap' = TRUE /\ status' = IF Outcome = 0 THEN 1 ELSE Outcome
        /\ UNCHANGED <<stopVars, sessionVars, seen, clock, interrupted, eventVars, exited>>
    BY DEF Report, At, GoTo
  <2>2. deadline' \in {"unset", "set", "run", "stopped"}
    BY DEF Report, TypeOK
  <2>3. /\ status = NoExit /\ exited = NoExit /\ ~finished
        /\ reason # "" /\ life \in {"closed", "failed"} /\ (ready => life = "closed")
    BY <2>1 DEF Order, Choosing, Concluding
  <2> QED BY <2>1, <2>2, <2>3
<1>2. OwnerCall({}) /\ UNCHANGED <<owes, ctxDone, reason, parent>>
  BY <1>1, QuietOwner DEF OwnerCall
<1>3. /\ status' \in {0, 1, 130} /\ mishap' \in BOOLEAN /\ (mishap => mishap')
      /\ status' = 0 => ready /\ reason \in Normal
      /\ status' = 130 => reason = "cancel"
      /\ status' = 1 /\ ready => reason = "failure" \/ mishap'
  <2>1. /\ Outcome \in {0, 1, 130}
        /\ Outcome = 0 => ready /\ reason \in Normal
        /\ Outcome = 130 => reason = "cancel"
        /\ Outcome = 1 /\ ready => reason = "failure"
        /\ mishap \in BOOLEAN
    BY <1>1, Outcomes DEF TypeOK, StopTypeOK
  <2>2. CASE status' = Outcome /\ mishap' = mishap
    BY <2>1, <2>2
  <2>3. CASE mishap' = TRUE /\ status' = IF Outcome = 0 THEN 1 ELSE Outcome
    BY <2>1, <2>3
  <2> QED BY <1>1, <2>2, <2>3
<1>4. TypeOK'
  <2>1. step' \in Steps /\ clock' \in {"unset", "running", "out"}
    BY <1>1 DEF TypeOK, Steps
  <2>2. status' \in {NoExit, 0, 1, 130} /\ mishap' \in BOOLEAN
    BY <1>3
  <2>3. life' \in {"opening", "open", "failed", "closed"}
    BY <1>1 DEF sessionVars
  <2> QED BY <1>1, <1>2, <2>1, <2>2, <2>3, TypesStay DEF OwnerCall, sessionVars
<1>5. Order'
  <2>1. status' # NoExit
    BY <1>3 DEF NoExit
  <2> QED BY <1>1, <1>2, <2>1 DEF Order, OwnerCall, Asking, Emitting, Choosing, Concluding, sessionVars
<1>6. SessionFacts'
  BY <1>1 DEF SessionFacts, sessionVars
<1>7. Counted'
  BY <1>1, <1>2 DEF Counted, Emitting, Stopping, Choosing, Concluding
<1>8. Wished'
  BY <1>1, <1>2, <1>3 DEF Wished, Wish, OwnerCall
<1>9. Grounded'
  <2>1. Ground => Ground'
    BY <1>1, <1>3 DEF Ground, Stopping, Choosing, Concluding, sessionVars
  <2>2. status \notin {1, 130}
    <3>1. NoExit # 1 /\ NoExit # 130
      BY DEF NoExit
    <3> QED BY <1>1, <3>1
  <2>3. status' = 1 /\ ready => Ground'
    BY <1>3, <2>1, <2>2 DEF Grounded, Ground
  <2>4. reason' = "failure" \/ (\E c \in Callers : owes'[c] = "request") => Ground'
    BY <1>2, <2>1, <2>2 DEF Grounded
  <2> QED BY <1>1, <2>3, <2>4 DEF Grounded
<1>10. Earned'
  <2>1. status' = 0 => life = "closed" /\ harm # "early"
    BY <1>1, <1>3 DEF Earned, Normal
  <2> QED BY <1>1, <1>2, <1>3, <2>1 DEF Earned, sessionVars, Normal
<1> QED BY <1>2, <1>4, <1>5, <1>6, <1>7, <1>8, <1>9, <1>10 DEF OwnerCall

-----------------------------------------------------------------------------
(* Who concludes goes on to conclude. *)
LEMMA OrderStays ==
  ASSUME Order, step' = step \/ {step, step'} \subseteq Concluding \ {"exit", "over"},
         UNCHANGED <<finished, status, exited, life, ready>>, reason # "" => reason' # ""
  PROVE  Order'
<1>1. CASE step' = step
  BY <1>1 DEF Order
<1>2. CASE {step, step'} \subseteq Concluding \ {"exit", "over"}
  <2>1. /\ {step, step'} \cap (Asking \cup Emitting) = {}
        /\ \A s \in {step, step'} : s \notin {"prepare", "open", "opened", "rewrite", "lastErr", "decide",
             "default", "cancel", "duration", "close", "closeErr", "report", "exit", "over"}
    BY <1>2 DEF Asking, Emitting, Concluding
  <2> QED BY <1>2, <2>1 DEF Order, Choosing
<1> QED BY <1>1, <1>2

(* The others, and Main at its end, do not touch what Main knows.  A call  *)
(* of the owner by one of them,                                            *)
LEMMA CallMoves ==
  ASSUME ObserveIInv, NEW given, OwnerCall(given),
         step' = step \/ (step \in Concluding \ {"exit", "over"} /\ step' = "finish"),
         UNCHANGED <<sessionDone, life, harm, failure, got, seen, eventVars, exitVars>>,
         told' = told \/ (told # "no" /\ told' = "yes"),
         clock' = clock, deadline' \in {deadline, "run"}, interrupted' \in {interrupted, TRUE},
         "count" \notin given, "exhaustion" \notin given,
         "cancel" \in given => Wish', step = "prepare" => Wish',
         "failure" \in given => Ground \/ status \in {1, 130},
         status = 0 => reason' = reason \/ (reason' = "failure" /\ harm = "late")
  PROVE  ObserveIInv'
<1> USE DEF ObserveIInv, eventVars, exitVars
<1>1. /\ StopIInv' /\ StopTypeOK' /\ UNCHANGED <<hook, parent, finished, killed>>
      /\ reason # "" => reason' # ""
  BY DEF OwnerCall, StopIInv, Normal
<1>2. step' = step \/ {step, step'} \subseteq Concluding \ {"exit", "over"}
  BY DEF Concluding
<1>3. TypeOK'
  <2>1. step' \in Steps
    BY <1>2 DEF TypeOK, Steps, Choosing, Concluding
  <2>2. told' \in {"no", "due", "yes"}
    BY DEF TypeOK
  <2>3. deadline' \in {"unset", "set", "run", "stopped"}
    BY DEF TypeOK
  <2>4. interrupted' \in BOOLEAN
    BY DEF TypeOK
  <2>5. /\ {sessionDone', failure', seen', interrupted', ready', unfinished', data', mishap'}
             \subseteq BOOLEAN
        /\ {status', exited'} \subseteq {NoExit, 0, 1, 130}
    BY <2>4 DEF TypeOK
  <2>6. /\ life' \in {"opening", "open", "failed", "closed"} /\ harm' \in {"none", "late", "early"}
        /\ got' \in Results /\ clock' \in {"unset", "running", "out"}
        /\ admitted' \in Nat /\ emitted' \in Nat /\ tail' \in {"whole", "partial"}
    BY DEF TypeOK
  <2> QED BY <1>1, <2>1, <2>2, <2>3, <2>5, <2>6 DEF TypeOK
<1>4. Order'
  BY <1>1, <1>2, OrderStays
<1>5. SessionFacts'
  BY DEF SessionFacts
<1>6. Counted'
  <2>1. reason' \in {"count", "exhaustion"} => reason' = reason
    BY DEF OwnerCall
  <2> QED BY <1>2, <2>1 DEF Counted, Emitting, Stopping, Choosing, Concluding
<1>7. Wished'
  <2>1. Wish => Wish'
    BY <1>1 DEF Wish
  <2>2. reason' = "cancel" => reason = "cancel" \/ "cancel" \in given
    BY DEF OwnerCall
  <2>3. step' = "prepare" => step = "prepare"
    BY <1>2 DEF Concluding
  <2> QED BY <1>1, <2>1, <2>2, <2>3 DEF Wished
<1>8. Grounded'
  <2>1. Ground => Ground'
    BY <1>2, GroundStays DEF Stopping
  <2>2. reason' = "failure" => reason = "failure" \/ "failure" \in given
    BY DEF OwnerCall
  <2>3. (\E c \in Callers : owes'[c] = "request")
          => (\E c \in Callers : owes[c] = "request") \/ "failure" \in given
    BY DEF OwnerCall
  <2>4. reason' = "failure" \/ (\E c \in Callers : owes'[c] = "request")
          => Ground \/ status \in {1, 130}
    BY <2>2, <2>3 DEF Grounded
  <2>5. status' = 1 /\ ready' => Ground'
    BY <2>1 DEF Grounded
  <2> QED BY <2>1, <2>4, <2>5 DEF Grounded
<1>9. Earned'
  <2>1. reason \in {"failure", "cancel"} => reason' = reason
    BY DEF OwnerCall, Normal
  <2> QED BY <1>2, <2>1 DEF Earned, Choosing, Concluding
<1> QED BY <1>1, <1>3, <1>4, <1>5, <1>6, <1>7, <1>8, <1>9

(* a step of the owner that asks nobody for anything,                      *)
LEMMA QuietMoves ==
  ASSUME ObserveIInv, StopIInv', UNCHANGED <<reason, hook, sessionVars, seen, timeVars, eventVars>>,
         UNCHANGED <<mishap, status>>,
         \/ step' = step /\ exited' = exited /\ finished' = finished
         \/ step = "finish" /\ step' = "exit" /\ exited' = exited
         \/ step = "exit" /\ step' = "over" /\ exited' = status,
         parent' \in {parent, "cancelled"},
         ctxDone' => ctxDone \/ Wish' \/ step # "prepare",
         killed' = 130 => killed = 130 \/ Wish,
         \A c \in Callers : owes'[c] # owes[c] => step # "prepare" /\ owes'[c] # "request"
  PROVE  ObserveIInv'
<1> USE DEF ObserveIInv, timeVars, eventVars, sessionVars
<1>1. StopTypeOK'
  BY DEF StopIInv
<1>2. step' = step \/ {step, step'} \subseteq Concluding
  BY DEF Concluding
<1>3. TypeOK'
  <2>1. step' \in Steps /\ exited' \in {NoExit, 0, 1, 130}
    BY DEF TypeOK, Steps
  <2> QED BY <1>1, <2>1 DEF TypeOK
<1>4. Order'
  <2>1. CASE step' = step /\ exited' = exited /\ finished' = finished
    BY <2>1 DEF Order
  <2>2. CASE step = "finish" /\ step' = "exit" /\ exited' = exited
    BY <2>2 DEF Order, Asking, Emitting, Choosing, Concluding
  <2>3. CASE step = "exit" /\ step' = "over" /\ exited' = status
    BY <2>3 DEF Order, Asking, Emitting, Choosing, Concluding
  <2> QED BY <2>1, <2>2, <2>3
<1>5. SessionFacts'
  BY DEF SessionFacts
<1>6. Counted'
  BY <1>2 DEF Counted, Emitting, Stopping, Choosing, Concluding
<1>7. Wished'
  <2>1. Wish => Wish'
    BY DEF Wish
  <2>2. step' = "prepare" => step = "prepare"
    BY <1>2 DEF Concluding
  <2>3. step = "prepare" /\ (\E c \in Callers : owes'[c] # "nothing") => Wish
    BY DEF Wished
  <2> QED BY <2>1, <2>2, <2>3 DEF Wished
<1>8. Grounded'
  <2>1. Ground => Ground'
    BY <1>2, GroundStays DEF Stopping
  <2>2. (\E c \in Callers : owes'[c] = "request") => (\E c \in Callers : owes[c] = "request")
    OBVIOUS
  <2> QED BY <2>1, <2>2 DEF Grounded
<1>9. Earned'
  BY <1>2 DEF Earned, Choosing, Concluding
<1> QED BY <1>3, <1>4, <1>5, <1>6, <1>7, <1>8, <1>9

(* and a step of the clock or of the session alone.                        *)
LEMMA SessionMoves ==
  ASSUME ObserveIInv, UNCHANGED <<stopVars, step, seen, eventVars, exitVars>>,
         UNCHANGED <<life, got, deadline, interrupted>>,
         clock' \in {"unset", "running", "out"}, clock # "unset",
         clock = "unset" => clock' = "unset",
         sessionDone' \in BOOLEAN,
         failure' \in BOOLEAN, failure => failure', harm' \in {"none", "late", "early"},
         failure' /\ life \in {"open", "closed"} => harm' # "none",
         harm # "none" => harm' # "none",
         harm' = "early" => harm = "early" \/ life \in {"opening", "open"},
         harm = "early" => harm' = "early",
         told' = told \/ (failure' /\ told' = "due")
  PROVE  ObserveIInv'
<1> USE DEF ObserveIInv, eventVars, exitVars
<1>1. OwnerCall({}) /\ UNCHANGED <<owes, ctxDone, reason>>
  BY QuietOwner
<1>2. StopIInv' /\ StopTypeOK' /\ UNCHANGED <<hook, parent, finished, killed>>
  BY <1>1 DEF OwnerCall, StopIInv
<1>3. TypeOK'
  <2>1. told' \in {"no", "due", "yes"}
    BY DEF TypeOK
  <2> QED BY <1>2, <2>1 DEF TypeOK
<1>4. Order'
  BY <1>1, <1>2 DEF Order
<1>5. SessionFacts'
  BY DEF SessionFacts
<1>6. Counted'
  BY <1>1 DEF Counted
<1>7. Wished'
  BY <1>1, <1>2 DEF Wished, Wish
<1>8. Grounded'
  <2>1. Ground => Ground'
    <3>1. mishap => mishap'
      OBVIOUS
    <3> QED BY <3>1, GroundStays
  <2> QED BY <1>1, <2>1 DEF Grounded
<1>9. Earned'
  BY <1>1 DEF Earned, Order
<1> QED BY <1>2, <1>3, <1>4, <1>5, <1>6, <1>7, <1>8, <1>9

-----------------------------------------------------------------------------
(* Main at its end, and the others, action by action. *)
LEMMA ExecuteKeepsIInv == ASSUME ObserveIInv, Execute PROVE ObserveIInv'
<1> USE DEF ObserveIInv
<1>1. /\ step = "execute" /\ step' = "finish" /\ step \in Concluding \ {"exit", "over"}
      /\ UNCHANGED <<sessionVars, seen, timeVars, eventVars, exitVars>>
      /\ IF hook /\ status # 0 THEN Request(Main, "failure") ELSE UNCHANGED stopVars
  BY DEF Execute, At, GoTo, AboutStop, Choosing, Concluding
<1>2. CASE hook /\ status # 0
  <2>1. status \in {1, 130}
    BY <1>1, <1>2 DEF Order, TypeOK
  <2>2. "failure" \in Reasons \ {""}
    BY DEF Reasons
  <2>3. OwnerCall({"failure"})
    BY <1>1, <1>2, <2>2, RequestingOwner, GoroutinesAreCallers
  <2> QED BY <1>1, <1>2, <2>1, <2>3, CallMoves DEF sessionVars, timeVars
<1>3. CASE ~(hook /\ status # 0)
  <2>1. OwnerCall({}) /\ reason' = reason
    BY <1>1, <1>3, QuietOwner
  <2> QED BY <1>1, <2>1, CallMoves DEF sessionVars, timeVars
<1> QED BY <1>2, <1>3

(* A goroutine that owes a cancellation pays, *)
LEMMA PaidKeepsIInv ==
  ASSUME ObserveIInv, NEW c \in Callers, CancelCtx(c), UNCHANGED <<sessionVars, obsVars>>
  PROVE  ObserveIInv'
<1>1. StopIInv'
  BY NextIInv DEF StopNext, Call, ObserveIInv
<1>2. /\ UNCHANGED <<hook, parent, finished, killed, reason>> /\ ctxDone' = TRUE
      /\ owes' = [owes EXCEPT ![c] = "nothing"] /\ owes[c] = "cancel"
  BY DEF CancelCtx, Owing, Owe, world
<1>3. owes'[c] = "nothing" /\ \A d \in Callers : d # c => owes'[d] = owes[d]
  BY <1>2 DEF ObserveIInv, StopIInv, StopTypeOK
<1>4. (\E d \in Callers : owes'[d] = "request") => (\E d \in Callers : owes[d] = "request")
  BY <1>3
<1>5. OwnerCall({})
  BY <1>1, <1>2, <1>4 DEF OwnerCall
<1>6. step = "prepare" => Wish'
  BY <1>2 DEF ObserveIInv, Wished, Wish, obsVars, timeVars
<1> QED BY <1>2, <1>5, <1>6, CallMoves DEF sessionVars, obsVars, timeVars

LEMMA LeavingKeepsIInv == ASSUME ObserveIInv, Leaving PROVE ObserveIInv'
<1>1. CASE At("finish") /\ Finish /\ GoTo("exit") /\ AboutStop
  <2>1. StopIInv'
    BY <1>1, NextIInv DEF StopNext, ObserveIInv
  <2>2. /\ step = "finish" /\ step' = "exit"
        /\ UNCHANGED <<hook, parent, killed, reason, ctxDone>>
        /\ UNCHANGED <<sessionVars, seen, timeVars, eventVars, mishap, status, exited>>
        /\ owes' = [owes EXCEPT ![Main] = "cancel"]
    BY <1>1 DEF At, Finish, Owe, GoTo, AboutStop, world, exitVars
  <2>3. \A c \in Callers : owes'[c] # owes[c] => owes'[c] # "request"
    BY <2>2 DEF ObserveIInv, StopIInv, StopTypeOK
  <2> QED BY <2>1, <2>2, <2>3, QuietMoves
<1>2. CASE finished /\ CancelCtx(Main) /\ UNCHANGED <<sessionVars, obsVars>>
  BY <1>2, PaidKeepsIInv, GoroutinesAreCallers
<1>3. CASE At("exit") /\ exited' = status /\ GoTo("over")
           /\ UNCHANGED <<stopVars, mishap, status>> /\ AboutExit
  <2>1. StopIInv'
    BY <1>3, NextIInv DEF ObserveIInv
  <2>2. /\ step = "exit" /\ step' = "over" /\ exited' = status
        /\ UNCHANGED <<hook, parent, killed, reason, ctxDone, owes>>
        /\ UNCHANGED <<sessionVars, seen, timeVars, eventVars, mishap, status>>
    BY <1>3 DEF At, GoTo, AboutExit, stopVars, world
  <2> QED BY <2>1, <2>2, QuietMoves
<1> QED BY <1>1, <1>2, <1>3 DEF Leaving

(* or goes on with the second half of incomplete. *)
LEMMA OwnerRunsKeepsIInv ==
  ASSUME ObserveIInv, NEW c \in Callers, OwnerRuns(c) PROVE ObserveIInv'
<1>1. CASE IncompleteRequest(c)
  <2>1. /\ Ask(c, "failure") /\ owes[c] = "request" /\ UNCHANGED watch
        /\ UNCHANGED <<sessionVars, obsVars>>
    BY <1>1 DEF OwnerRuns, IncompleteRequest, Owing
  <2>2. "failure" \in Reasons \ {""} /\ watch' \in {"set", "run", "stopped"}
    BY <2>1 DEF Reasons, ObserveIInv, StopIInv, StopTypeOK
  <2>3. /\ OwnerCall({"failure"})
        /\ reason' = reason \/ (reason = "" /\ reason' = "failure")
    BY <2>1, <2>2, AskingOwner DEF ObserveIInv
  <2>4. Ground \/ status \in {1, 130}
    BY <2>1 DEF ObserveIInv, Grounded
  <2>5. step = "prepare" => Wish'
    BY <2>1, <2>3 DEF ObserveIInv, Wished, Wish, OwnerCall, obsVars, timeVars
  <2>6. status = 0 => reason # ""
    BY DEF ObserveIInv, Earned, Normal
  <2> QED BY <2>1, <2>3, <2>4, <2>5, <2>6, CallMoves DEF sessionVars, obsVars, timeVars
<1>2. CASE CancelCtx(c)
  BY <1>2, PaidKeepsIInv DEF OwnerRuns
<1> QED BY <1>1, <1>2 DEF OwnerRuns

(* The session timer, the signals and the parent's watcher ask for a stop; *)
(* the session's callback reports a failure.                               *)
LEMMA AskedKeepsIInv ==
  ASSUME ObserveIInv, DeadlineFires \/ Interrupt PROVE ObserveIInv'
<1>1. CASE DeadlineFires
  <2>1. /\ Request(Session, "duration") /\ clock = "out" /\ deadline' = "run"
        /\ UNCHANGED <<sessionVars, step, seen, clock, interrupted, eventVars, exitVars>>
    BY <1>1 DEF DeadlineFires
  <2>2. "duration" \in Reasons \ {""}
    BY DEF Reasons, Normal
  <2>3. OwnerCall({"duration"}) /\ (reason' = reason \/ reason = "")
    BY <2>1, <2>2, RequestingOwner, GoroutinesAreCallers DEF ObserveIInv
  <2>4. step # "prepare" /\ (status = 0 => reason # "")
    BY <2>1 DEF ObserveIInv, Wished, Earned, Normal
  <2> QED BY <2>1, <2>3, <2>4, CallMoves DEF sessionVars
<1>2. CASE Interrupt
  <2>1. /\ Request(Signals, "cancel") /\ interrupted' = TRUE
        /\ UNCHANGED <<sessionVars, step, seen, clock, deadline, eventVars, exitVars>>
    BY <1>2 DEF Interrupt
  <2>2. "cancel" \in Reasons \ {""}
    BY DEF Reasons
  <2>3. OwnerCall({"cancel"}) /\ (reason' = reason \/ reason = "")
    BY <2>1, <2>2, RequestingOwner, GoroutinesAreCallers DEF ObserveIInv
  <2>4. Wish' /\ (status = 0 => reason # "")
    BY <2>1 DEF Wish, ObserveIInv, Earned, Normal
  <2> QED BY <2>1, <2>3, <2>4, CallMoves DEF sessionVars
<1> QED BY <1>1, <1>2

LEMMA OnFailureKeepsIInv == ASSUME ObserveIInv, OnFailure PROVE ObserveIInv'
<1>1. /\ Incomplete(Adapter) /\ told = "due" /\ told' = "yes"
      /\ UNCHANGED <<sessionDone, life, harm, failure, got, obsVars>>
  BY DEF OnFailure, Tell
<1>2. OwnerCall({"failure"}) /\ failure /\ step # "prepare"
  BY <1>1, IncompleteOwner, GoroutinesAreCallers DEF ObserveIInv, SessionFacts, Wished
<1>3. status = 0 => harm = "late" /\ (reason' = reason \/ reason' = "failure")
  <2>1. ASSUME status = 0 PROVE harm = "late" /\ reason # ""
    BY <1>2, <2>1 DEF ObserveIInv, SessionFacts, Earned, TypeOK, Normal
  <2> QED BY <1>2, <2>1 DEF OwnerCall
<1> QED BY <1>1, <1>2, <1>3, CallMoves DEF obsVars, timeVars, Ground

(* The parent is cancelled, its cancellation reaches the context or the    *)
(* owner.                                                                  *)
LEMMA ParentKeepsIInv == ASSUME ObserveIInv, ParentRuns PROVE ObserveIInv'
<1>0. UNCHANGED <<sessionVars, obsVars>>
  BY DEF ParentRuns
<1>1. CASE ParentCancel \/ Propagate
  <2>1. StopIInv'
    BY <1>1, NextIInv DEF StopNext, ObserveIInv
  <2>2. /\ UNCHANGED <<hook, finished, killed, reason, owes>> /\ parent' \in {parent, "cancelled"}
        /\ ctxDone' = ctxDone \/ parent' = "cancelled"
    BY <1>1 DEF ParentCancel, Propagate, world
  <2> QED BY <1>0, <2>1, <2>2, QuietMoves DEF obsVars, exitVars, Wish
<1>2. CASE step # "prepare" /\ WatcherRuns
  <2>1. Ask(Watcher, "cancel") /\ owes[Watcher] # "cancel" /\ watch' = "run"
        /\ parent = "cancelled"
    BY <1>2 DEF WatcherRuns, Free
  <2>2. "cancel" \in Reasons \ {""}
    BY DEF Reasons
  <2>3. OwnerCall({"cancel"}) /\ (reason' = reason \/ reason = "")
    BY <2>1, <2>2, AskingOwner, GoroutinesAreCallers DEF ObserveIInv
  <2>4. Wish' /\ (status = 0 => reason # "")
    BY <2>1, <2>3 DEF Wish, OwnerCall, ObserveIInv, Earned, Normal
  <2> QED BY <1>0, <1>2, <2>3, <2>4, CallMoves DEF sessionVars, obsVars, timeVars
<1> QED BY <1>1, <1>2 DEF ParentRuns

(* The watchdog exits with 130 only if the decision is a cancellation. *)
LEMMA WatchdogKeepsIInv == ASSUME ObserveIInv, WatchdogRuns PROVE ObserveIInv'
<1>1. Watchdog /\ UNCHANGED <<sessionVars, obsVars>>
  BY DEF WatchdogRuns
<1>2. StopIInv'
  BY <1>1, NextIInv DEF StopNext, ObserveIInv
<1>3. UNCHANGED <<hook, parent, finished, reason, ctxDone, owes>>
  BY <1>1 DEF Watchdog, TimerDue, TimerCheck, TimerExit, Tick, world
<1>4. killed' = 130 => killed = 130 \/ Wish
  <2>1. CASE TimerDue \/ TimerCheck
    BY <2>1 DEF TimerDue, TimerCheck, Tick
  <2>2. CASE TimerExit
    <3>1. killed' = 130 => timer = "exit130"
      BY <2>2 DEF TimerExit
    <3> QED BY <3>1 DEF ObserveIInv, StopIInv, SentenceHolds, Wished
  <2> QED BY <1>1, <2>1, <2>2 DEF Watchdog
<1> QED BY <1>1, <1>2, <1>3, <1>4, QuietMoves DEF obsVars, exitVars

(* The clock, and what the session does by itself. *)
LEMMA SessionKeepsIInv ==
  ASSUME ObserveIInv, TimePasses \/ SessionStops \/ SessionFails \/ SessionSuffers
  PROVE  ObserveIInv'
<1> USE DEF sessionVars, obsVars, timeVars
<1>1. /\ clock \in {"unset", "running", "out"} /\ sessionDone \in BOOLEAN /\ failure \in BOOLEAN
      /\ harm \in {"none", "late", "early"}
      /\ failure /\ life \in {"open", "closed"} => harm # "none"
      /\ life \in {"opening", "open", "failed", "closed"}
  BY DEF ObserveIInv, TypeOK, SessionFacts
<1>2. CASE TimePasses
  BY <1>1, <1>2, SessionMoves DEF TimePasses
<1>3. CASE SessionStops
  BY <1>1, <1>3, SessionMoves DEF SessionStops, SessionEnds
<1>4. CASE SessionFails
  BY <1>1, <1>4, SessionMoves DEF SessionFails, Latch
<1>5. CASE SessionSuffers
  BY <1>1, <1>5, SessionMoves DEF SessionSuffers, Suffer
<1> QED BY <1>2, <1>3, <1>4, <1>5

-----------------------------------------------------------------------------
LEMMA InitObserveIInv == Init => ObserveIInv
<1> SUFFICES ASSUME Init PROVE ObserveIInv
  OBVIOUS
<1> USE DEF Init, SessionInit
<1>1. StopIInv /\ StopTypeOK
  BY InitIInv DEF StopIInv
<1>2. /\ reason = "" /\ ~finished /\ killed = NoExit /\ ctxDone = FALSE /\ parent = "live"
      /\ \A c \in Callers : owes[c] = "nothing"
  BY DEF StopInit
<1>3. TypeOK
  BY <1>1 DEF TypeOK, Steps, Results
<1>4. Order /\ SessionFacts
  BY <1>2 DEF Order, SessionFacts, Asking, Emitting, Choosing, Concluding
<1>5. Counted
  <2>1. admitted <= Count /\ (Count > 0 => admitted < Count)
    BY ObserveAssumption
  <2> QED BY <1>2, <2>1 DEF Counted
<1>6. Wished /\ Grounded /\ Earned
  <2>1. status # 0 /\ status # 1 /\ status # 130 /\ killed # 130
    BY <1>2, StatusesDiffer
  <2> QED BY <1>2, <2>1 DEF Wished, Grounded, Earned
<1> QED BY <1>1, <1>3, <1>4, <1>5, <1>6 DEF ObserveIInv

LEMMA ObserveNextIInv == ObserveIInv /\ [Next]_vars => ObserveIInv'
<1> SUFFICES ASSUME ObserveIInv, [Next]_vars PROVE ObserveIInv'
  OBVIOUS
<1>1. CASE MainRuns
  BY <1>1, PrepareKeepsIInv, OpenKeepsIInv, OpenedKeepsIInv, ReadyKeepsIInv, ReceivingKeepsIInv,
     LastErrKeepsIInv, DecideKeepsIInv, CloseKeepsIInv, ReportKeepsIInv, ExecuteKeepsIInv
     DEF MainRuns
<1>2. CASE Leaving
  BY <1>2, LeavingKeepsIInv
<1>3. CASE TimePasses \/ SessionStops \/ SessionFails \/ SessionSuffers
  BY <1>3, SessionKeepsIInv
<1>4. CASE DeadlineFires \/ Interrupt
  BY <1>4, AskedKeepsIInv
<1>5. CASE OnFailure \/ WatchdogRuns \/ ParentRuns
  BY <1>5, OnFailureKeepsIInv, WatchdogKeepsIInv, ParentKeepsIInv
<1>6. CASE \E c \in Callers : OwnerRuns(c)
  BY <1>6, OwnerRunsKeepsIInv
<1>7. CASE UNCHANGED vars
  <2>1. StopIInv'
    BY <1>7, NextIInv DEF vars, ObserveIInv
  <2> QED BY <1>7, <2>1, QuietMoves DEF vars, obsVars, stopVars, world, exitVars
<1> QED BY <1>1, <1>2, <1>3, <1>4, <1>5, <1>6, <1>7 DEF Next

(* The invariant holds in every reachable state of an observation.         *)
THEOREM ObserveInvariant == Spec => []ObserveIInv
  BY InitObserveIInv, ObserveNextIInv, PTL DEF Spec

(* The state of an observation is well typed (runNATSWithRenderer and what *)
(* runs beside it).                                                        *)
THEOREM ObserveTypes == Spec => []TypeOK
  BY ObserveInvariant, PTL DEF ObserveIInv

(* The status that an observation returns tells what happened: a count is  *)
(* not exceeded and cuts nothing off, 0 is earned, early trouble is never  *)
(* hidden, 130 has been asked for, and 1 has a ground (runNATSWithRenderer *)
(* with natsStop, in every interleaving and for any number of messages).   *)
THEOREM StatusesAreHonest == Spec => []StatusIsHonest
<1>1. ObserveIInv => StatusIsHonest
  <2> SUFFICES ASSUME ObserveIInv PROVE StatusIsHonest
    OBVIOUS
  <2> USE DEF ObserveIInv
  <2>0. NoExit # 0 /\ NoExit # 1 /\ NoExit # 130
    BY DEF NoExit
  <2>1. CountLimits
    BY DEF Counted, CountLimits
  <2>2. exited # NoExit => exited = status
    BY DEF Order
  <2>3. SuccessIsEarned
    BY <2>0, <2>2 DEF Earned, Counted, SuccessIsEarned, TypeOK, Normal
  <2>4. TroubleIsReported
    BY <2>0, <2>2 DEF Earned, TroubleIsReported
  <2>5. CancelIsGenuine
    BY <2>0, <2>2 DEF Wished, Wish, CancelIsGenuine
  <2>6. FailureIsGenuine
    <3> SUFFICES ASSUME exited = 1, ready, harm = "none", ~mishap
                 PROVE  tail = "partial"
      BY DEF FailureIsGenuine, TypeOK
    <3>1. step = "over" /\ life \in {"open", "closed"} /\ ~failure
      BY <2>0 DEF Order, SessionFacts
    <3>2. Ground
      BY <2>0, <2>2 DEF Grounded
    <3> QED BY <3>1, <3>2 DEF Ground
  <2> QED BY <2>1, <2>3, <2>4, <2>5, <2>6 DEF StatusIsHonest
<1> QED BY <1>1, ObserveInvariant, PTL

-----------------------------------------------------------------------------
(* The parts of an observation: it uses the owner and the session as       *)
(* NatsStop and NatsSession let them be used.                              *)

(* Main calls the owner only before it has finished. *)
LEMMA MainCallsTheOwner ==
  ASSUME ObserveIInv, MainRuns
  PROVE  [StopNext]_stopVars
<1>1. step \in Steps \ {"exit", "over"} => ~finished
  BY DEF ObserveIInv, TypeOK, Order
<1>2. ASSUME NEW r \in Reasons \ {""}, Request(Main, r), ~finished PROVE StopNext
  BY <1>2, GoroutinesAreCallers DEF StopNext, Call, MayCall
<1>3. ASSUME Incomplete(Main), ~finished PROVE StopNext
  BY <1>3, GoroutinesAreCallers DEF StopNext, Call, MayCall
<1>4. {"cancel", "failure", "count", "exhaustion", "duration"} \subseteq Reasons \ {""}
  BY DEF Reasons, Normal
<1>5. CASE PrepareFails \/ Prepare \/ Open \/ OpenFailed \/ RewriteVerdict \/ Ready
  <2>1. ~finished
    BY <1>1, <1>5 DEF PrepareFails, Prepare, Open, OpenFailed, RewriteVerdict, Ready, At, Steps
  <2> QED BY <1>2, <1>3, <1>4, <1>5, <2>1
        DEF PrepareFails, Prepare, Open, OpenFailed, RewriteVerdict, Ready, StopNext
<1>6. CASE Loop \/ Next1 \/ Returned \/ Received
  <2>1. ~finished
    BY <1>1, <1>6 DEF Loop, Next1, Returned, Received, At, Steps
  <2> QED BY <1>2, <1>3, <1>4, <1>6, <2>1
        DEF Loop, Next1, Returned, Received, Pass, Err, Break, AboutSession
<1>7. CASE Render \/ Rendered \/ Write \/ EventDone
  <2>1. ~finished
    BY <1>1, <1>7 DEF Render, Rendered, Write, EventDone, At, Steps
  <2> QED BY <1>2, <1>3, <1>4, <1>7, <2>1
        DEF Render, Rendered, Write, EventDone, Pass, Break, BreakOn, Output
<1>8. CASE LastErr \/ Decide \/ Close \/ CloseErr \/ Report \/ Execute
  <2>1. ~finished
    BY <1>1, <1>8 DEF LastErr, Decide, Close, CloseErr, Report, Execute, At, Steps
  <2> QED BY <1>2, <1>3, <1>4, <1>8, <2>1
        DEF LastErr, Decide, Pass, Close, CloseErr, Report, Execute, AboutSession
<1> QED BY <1>5, <1>6, <1>7, <1>8 DEF MainRuns, Receiving

(* So every step of an observation is one of its owner, or none. *)
LEMMA OwnerIsUsedAsSpecified ==
  ASSUME ObserveIInv, [Next]_vars
  PROVE  [StopNext]_stopVars
<1>1. CASE MainRuns
  BY <1>1, MainCallsTheOwner
<1>2. CASE Leaving
  BY <1>2, GoroutinesAreCallers DEF Leaving, StopNext, Call
<1>3. CASE TimePasses \/ SessionStops \/ SessionFails \/ SessionSuffers
  BY <1>3 DEF TimePasses, SessionStops, SessionFails, SessionSuffers
<1>4. CASE DeadlineFires \/ Interrupt \/ OnFailure
  <2>1. {"cancel", "duration"} \subseteq Reasons \ {""}
    BY DEF Reasons, Normal
  <2> QED BY <1>4, <2>1, GoroutinesAreCallers
        DEF DeadlineFires, Interrupt, OnFailure, StopNext, Call, MayCall
<1>5. CASE WatchdogRuns \/ ParentRuns
  BY <1>5 DEF WatchdogRuns, ParentRuns, StopNext
<1>6. CASE \E c \in Callers : OwnerRuns(c)
  BY <1>6 DEF OwnerRuns, StopNext, Call
<1>7. CASE UNCHANGED vars
  BY <1>7 DEF vars
<1> QED BY <1>1, <1>2, <1>3, <1>4, <1>5, <1>6, <1>7 DEF Next

(* And every step is one that the session may take, or none. *)
LEMMA SessionIsUsedAsSpecified ==
  ASSUME [Next]_vars
  PROVE  [SessionNext]_sessionVars
<1> USE DEF SessionNext
<1>1. CASE PrepareFails \/ Prepare \/ Open \/ OpenFailed \/ RewriteVerdict \/ Ready
  BY <1>1 DEF PrepareFails, Prepare, Open, OpenFailed, RewriteVerdict, Ready, AboutStop, AboutExit
<1>2. CASE Receiving
  BY <1>2 DEF Receiving, Loop, Next1, Returned, Received, Render, Rendered, Write, EventDone, Pass,
              Err, Break, BreakOn, Admit, Output, AboutStop, AboutEvent, AboutExit
<1>3. CASE LastErr \/ Decide \/ Close \/ CloseErr \/ Report \/ Execute \/ Leaving
  BY <1>3 DEF LastErr, Decide, Pass, Close, CloseErr, Report, Execute, Leaving, AboutStop, AboutExit
<1>4. CASE TimePasses \/ SessionStops \/ DeadlineFires \/ Interrupt \/ OnFailure
           \/ SessionFails \/ SessionSuffers \/ WatchdogRuns \/ ParentRuns
           \/ \E c \in Callers : OwnerRuns(c)
  BY <1>4 DEF TimePasses, SessionStops, DeadlineFires, Interrupt, OnFailure, SessionFails,
              SessionSuffers, WatchdogRuns, ParentRuns, OwnerRuns
<1>5. CASE UNCHANGED vars
  BY <1>5 DEF vars
<1> QED BY <1>1, <1>2, <1>3, <1>4, <1>5 DEF Next, MainRuns

(* An observation is a run of its stop owner and of its session, and of    *)
(* nothing that either of them does not allow: what NatsStop promises of   *)
(* any callers holds of these, and a NatsClient may be the session         *)
(* (runNATSWithRenderer's calls of natsStop and of Session).               *)
THEOREM ObservationIsComposed == Spec => StopSpec /\ SessionSpec
<1>1. Init => StopInit /\ SessionInit
  BY DEF Init
<1> QED BY <1>1, ObserveInvariant, OwnerIsUsedAsSpecified, SessionIsUsedAsSpecified, PTL
      DEF Spec, StopSpec, SessionSpec

(* The decision of an observation is taken once, only degrades, is frozen  *)
(* by finish and reported by a forced exit, with the callers it really has *)
(* (nats_stop.go as run/nats.go uses it).                                  *)
THEOREM ObservationDecides == Spec => ImplementsDecision
  BY ObservationIsComposed, StopRefinesDecision
=============================================================================
