-------------------------- MODULE NatsClientProofs --------------------------
(***************************************************************************)
(* Proofs about the adapter around the NATS client library (NatsClient),   *)
(* for every capacity of the subscription and every set of faults: its     *)
(* types, that a session tells of one failure and ends with its socket     *)
(* closed, and that it is the session the observation relies on            *)
(* (NatsSession), whose early trouble is latched when Close returns.       *)
(***************************************************************************)
EXTENDS NatsClient, SequenceTheorems, TLAPS

Connecting == {"dial", "handshake", "connected"}
Aborted    == {"abort", "aborting", "failed"}
Serving    == {"subscribe", "flush", "check", "open", "next", "receive",
               "recheck", "close", "closing", "closed"}

(* Which goroutine is where, and in which phase of Main. *)
Places ==
  /\ \A t \in Threads : /\ at[t] = "asleep" => t = Closer
                        /\ at[t] = "latch" => t = Dispatcher
  /\ at[Dispatcher] \in {"idle", "latch", "fail", "notify", "cancel"}
  /\ at[Closer] # "asleep" => Cancelled
  /\ at[Main] # "idle" => phase \in {"check", "open", "next", "recheck",
                                     "aborting", "closing"}
  /\ phase = "recheck" => sessionDone

(* One goroutine owns the close, and Main does not return without it. *)
Claims ==
  /\ claimed \subseteq {Main, Closer} /\ \A t, u \in claimed : t = u
  /\ socketDone = "made" <=> claimed # {}
  /\ socketDone = "nil" => ~closing
  /\ socketDone = "closed" => closing
  /\ \A t \in claimed : /\ at[t] \in {"err", "probe", "fail", "notify", "cancel",
                                      "reread", "mark", "shut"}
                        /\ closing <=> at[t] = "shut"
  /\ \A t \in Threads : at[t] \in {"mark", "shut"} => t \in claimed
  /\ Main \in claimed \/ at[Main] = "wait" => phase \in {"aborting", "closing"}
  /\ phase \in {"aborting", "closing"}
       => \/ Main \in claimed \/ at[Main] = "wait"
          \/ at[Main] = "idle" /\ socketDone = "closed"
  /\ phase \in {"failed", "closed"} => socketDone = "closed"
  /\ socketDone # "nil" /\ at[Closer] = "asleep"
       => phase \in {"aborting", "closing", "failed", "closed"}

(* The socket is closed for one of two reasons, and the library has a      *)
(* connection only behind the handshake.                                   *)
Socket ==
  /\ sockClosed => conn # "open" /\ (closing \/ startup = "run")
  /\ socketDone = "closed" => sockClosed
  /\ conn = "shut" => sockClosed \/ (lib = "none" /\ phase \notin {"dial", "handshake"})
  /\ startup = "set" => phase \in Connecting
  /\ startup = "run" => phase \in Connecting \cup Aborted
  /\ phase \in {"dial", "handshake"} => lib = "none"
  /\ phase \in Serving => nc

(* Whatever looks like a failure has a cause: trouble from outside, the    *)
(* close of the adapter itself, or the end of the connect allowance.       *)
Cause == harm # "none" \/ closing \/ startup = "run"

Caused ==
  /\ lib = "down" \/ callbacks # <<>> \/ (\E t \in Threads : at[t] = "fail") => Cause
  /\ trouble # {} \/ at[Dispatcher] = "latch" => harm # "none"
  /\ \A i \in 1..Len(callbacks) : callbacks[i] = "async" => harm # "none"
  /\ failure => harm # "none" \/ startup = "run"

(* A failure is told by the goroutine that latched it. *)
Telling ==
  /\ notified \in {0, 1}
  /\ \A t \in Threads : at[t] = "notify" => failure /\ notified = 0
  /\ \A t, u \in Threads : at[t] = "notify" /\ at[u] = "notify" => t = u
  /\ failure <=> notified = 1 \/ \E t \in Threads : at[t] = "notify"
  /\ \A t \in Threads : at[t] = "cancel" => failure
  /\ adapterDone => failure \/ phase \in {"failed", "closed"}
  /\ seen => failure

(* Early trouble shows, and the owner of the close has looked for it.      *)
Asked ==
  harm = "early" =>
    /\ lib = "down" \/ trouble # {}
    /\ phase \in Serving =>
         /\ socketDone = "closed" => failure
         /\ \A t \in claimed :
              at[t] \in {"notify", "cancel", "reread", "mark", "shut"} => failure

ClientIInv == ClientTypeOK /\ Places /\ Claims /\ Socket /\ Caused /\ Telling /\ Asked

-----------------------------------------------------------------------------
LEMMA ThreeThreads ==
  /\ Threads = {Main, Closer, Dispatcher}
  /\ Main # Closer /\ Main # Dispatcher /\ Closer # Dispatcher
  BY ClientAssumption DEF Threads

(* A goroutine that goes on does so alone. *)
LEMMA StepMoves ==
  ASSUME at \in [Threads -> Statements], NEW t \in Threads, NEW s \in Statements,
         at' = [at EXCEPT ![t] = s]
  PROVE  /\ at' \in [Threads -> Statements] /\ at'[t] = s
         /\ \A u \in Threads : u # t => at'[u] = at[u]
  OBVIOUS

LEMMA ClientInitIInv == ClientInit => ClientIInv
<1> SUFFICES ASSUME ClientInit PROVE ClientIInv
  OBVIOUS
<1> USE ThreeThreads DEF ClientInit
<1>1. ClientTypeOK
  <2>1. at \in [Threads -> Statements]
    BY DEF Statements
  <2>2. callbacks \in Seq({"async", "disconnected", "closed"}) /\ pending \in 0..PendingMessages
    BY ClientAssumption
  <2> QED BY <2>1, <2>2 DEF ClientTypeOK, Phases, Results
<1>2. Places
  BY DEF Places
<1>3. Claims
  BY DEF Claims
<1>4. Socket
  BY DEF Socket, Connecting, Serving
<1>5. Caused
  BY DEF Caused
<1>6. Telling
  BY DEF Telling
<1>7. Asked
  BY DEF Asked
<1> QED BY <1>1, <1>2, <1>3, <1>4, <1>5, <1>6, <1>7 DEF ClientIInv

(* Main goes from one phase to the next, outside of Err and of the close.  *)
Quick == {"subscribe", "flush", "check", "open", "next", "receive", "recheck"}

LEMMA MainMoves ==
  ASSUME ClientIInv, at[Main] = "idle", got' \in Results, pending' \in 0..PendingMessages,
         UNCHANGED <<ctxVars, sockVars, latchVars, frameVars, seen,
                     lib, trouble, callbacks, harm>>,
         \/ phase \in {"dial", "handshake"} /\ phase' = "connected"
         \/ phase \in Quick /\ phase' \in {"flush", "open", "receive", "close", "abort"}
  PROVE  ClientIInv'
<1> USE ThreeThreads DEF ClientIInv, ctxVars, sockVars, latchVars, frameVars, Quick
<1>1. ClientTypeOK'
  BY DEF ClientTypeOK, Phases
<1>2. Places'
  BY DEF Places, Cancelled
<1>3. Claims'
  BY DEF Claims
<1>4. Socket'
  BY DEF Socket, Connecting, Serving, Aborted
<1>5. Caused'
  BY DEF Caused, Cause
<1>6. Telling'
  BY DEF Telling
<1>7. Asked'
  BY DEF Asked, Serving, Claims
<1> QED BY <1>1, <1>2, <1>3, <1>4, <1>5, <1>6, <1>7

(* Main calls Err. *)
LEMMA MainAsks ==
  ASSUME ClientIInv, at[Main] = "idle", phase \in Quick,
         NEW p \in {"check", "open", "next", "recheck"}, CallErr(p), got' = got,
         p = "recheck" => sessionDone,
         UNCHANGED <<lib, trouble, callbacks, harm, pending>>
  PROVE  ClientIInv'
<1> USE ThreeThreads DEF ClientIInv, ctxVars, sockVars, latchVars, libVars, CallErr, Enter, Quick
<1>a. /\ at' \in [Threads -> Statements] /\ at'[Main] = "err"
      /\ \A u \in Threads : u # Main => at'[u] = at[u]
  BY StepMoves DEF ClientTypeOK, Statements
<1>1. ClientTypeOK'
  BY <1>a DEF ClientTypeOK, Phases
<1>2. Places'
  BY <1>a DEF Places, Cancelled
<1>3. Claims'
  BY <1>a DEF Claims
<1>4. Socket'
  BY DEF Socket, Connecting, Serving, Aborted
<1>5. Caused'
  BY <1>a DEF Caused, Cause
<1>6. Telling'
  BY <1>a DEF Telling
<1>7. Asked'
  BY <1>a DEF Asked, Serving, Claims
<1> QED BY <1>1, <1>2, <1>3, <1>4, <1>5, <1>6, <1>7

-----------------------------------------------------------------------------
(* Err, fail and closeSocket, statement by statement. *)
LEMMA ReturnKeepsIInv ==
  ASSUME ClientIInv, NEW t \in Threads, Return(t), at[t] \in {"err", "reread"},
         at[t] = "err" => failure \/ closing \/ ~nc
  PROVE  ClientIInv'
<1> USE ThreeThreads DEF ClientIInv, Return, ctxVars, sockVars, libVars, latchVars
<1>a. /\ at' \in [Threads -> Statements]
      /\ at'[t] = IF t \in claimed THEN "mark" ELSE "idle"
      /\ \A u \in Threads : u # t => at'[u] = at[u]
  BY StepMoves DEF ClientTypeOK, Statements
<1>s. seen' \in BOOLEAN /\ (seen' => failure)
  BY DEF ClientTypeOK, Telling
<1>1. ClientTypeOK'
  BY <1>a, <1>s DEF ClientTypeOK
<1>2. Places'
  BY <1>a DEF Places, Cancelled, Claims
<1>3. Claims'
  BY <1>a DEF Claims
<1>4. Socket'
  BY DEF Socket
<1>5. Caused'
  BY <1>a DEF Caused, Cause
<1>6. Telling'
  BY <1>a, <1>s DEF Telling
<1>7. Asked'
  BY <1>a DEF Asked, Claims, Socket
<1> QED BY <1>1, <1>2, <1>3, <1>4, <1>5, <1>6, <1>7

LEMMA SnapshotKeepsIInv ==
  ASSUME ClientIInv, NEW t \in Threads, Snapshot(t)
  PROVE  ClientIInv'
<1>1. CASE failure \/ closing \/ ~nc
  BY <1>1, ReturnKeepsIInv DEF Snapshot
<1>2. CASE ~(failure \/ closing \/ ~nc)
  <2> USE ThreeThreads DEF ClientIInv, butAt, ctxVars, sockVars, libVars, latchVars, mainVars
  <2>u. at[t] = "err" /\ at' = [at EXCEPT ![t] = "probe"] /\ UNCHANGED butAt
    BY <1>2 DEF Snapshot
  <2>a. /\ at' \in [Threads -> Statements] /\ at'[t] = "probe"
        /\ \A u \in Threads : u # t => at'[u] = at[u]
    BY <2>u, StepMoves DEF ClientTypeOK, Statements
  <2>1. ClientTypeOK'
    BY <2>a, <2>u DEF ClientTypeOK
  <2>2. Places'
    BY <2>a, <2>u DEF Places, Cancelled
  <2>3. Claims'
    BY <2>a, <2>u DEF Claims
  <2>4. Socket'
    BY <2>u DEF Socket
  <2>5. Caused'
    BY <2>a, <2>u DEF Caused, Cause
  <2>6. Telling'
    BY <2>a, <2>u DEF Telling
  <2>7. Asked'
    BY <2>a, <2>u DEF Asked
  <2> QED BY <2>1, <2>2, <2>3, <2>4, <2>5, <2>6, <2>7
<1> QED BY <1>1, <1>2

LEMMA ProbeKeepsIInv ==
  ASSUME ClientIInv, NEW t \in Threads, Probe(t)
  PROVE  ClientIInv'
<1> USE ThreeThreads DEF ClientIInv, Probe, Step, butAt, ctxVars, sockVars, libVars, latchVars, mainVars
<1>a. /\ at' \in [Threads -> Statements] /\ at[t] = "probe"
      /\ at'[t] = IF lib = "down" \/ trouble # {} THEN "fail" ELSE "reread"
      /\ \A u \in Threads : u # t => at'[u] = at[u]
  BY StepMoves DEF ClientTypeOK, Statements
<1>1. ClientTypeOK'
  BY <1>a DEF ClientTypeOK
<1>2. Places'
  BY <1>a DEF Places, Cancelled
<1>3. Claims'
  BY <1>a DEF Claims
<1>4. Socket'
  BY DEF Socket
<1>5. Caused'
  BY <1>a DEF Caused, Cause
<1>6. Telling'
  BY <1>a DEF Telling
<1>7. Asked'
  BY <1>a DEF Asked
<1> QED BY <1>1, <1>2, <1>3, <1>4, <1>5, <1>6, <1>7

(* The failure that is latched is fresh, and nobody else tells of it.      *)
LEMMA FailKeepsIInv ==
  ASSUME ClientIInv, NEW t \in Threads, Fail(t)
  PROVE  ClientIInv'
<1> USE ThreeThreads DEF ClientIInv, ctxVars, sockVars, libVars, latchVars, mainVars
<1>u. UNCHANGED <<nc, closing, socketDone, notified, claimed, ctxVars, sockVars, libVars, mainVars>>
  BY DEF Fail
<1>f. PICK teardown \in BOOLEAN :
        /\ at[t] = IF teardown THEN "fail" ELSE "latch"
        /\ at' = [at EXCEPT ![t] = IF Fresh(teardown) THEN "notify" ELSE AfterFail(t)]
        /\ failure' = (failure \/ Fresh(teardown))
  BY DEF Fail, Step
<1>a. /\ at' \in [Threads -> Statements]
      /\ at'[t] = IF Fresh(teardown) THEN "notify" ELSE IF t = Dispatcher THEN "idle" ELSE "reread"
      /\ \A u \in Threads : u # t => at'[u] = at[u]
  BY <1>f, StepMoves DEF ClientTypeOK, Statements, AfterFail
<1>n. failure \in BOOLEAN /\ failure' \in BOOLEAN
  BY <1>f DEF ClientTypeOK, Fresh
<1>1. ClientTypeOK'
  BY <1>a, <1>n, <1>u DEF ClientTypeOK
<1>2. Places'
  BY <1>a, <1>f, <1>u DEF Places, Cancelled
<1>3. Claims'
  BY <1>a, <1>f, <1>u DEF Claims, Places
<1>4. Socket'
  BY <1>u DEF Socket
<1>5. Caused'
  <2>1. failure' => harm # "none" \/ startup = "run"
    BY <1>f DEF Fresh, Caused, Cause, Places
  <2> QED BY <1>a, <1>u, <2>1 DEF Caused, Cause
<1>6. Telling'
  <2>1. CASE ~Fresh(teardown)
    BY <1>a, <1>f, <1>n, <1>u, <2>1 DEF Telling
  <2>2. CASE Fresh(teardown)
    <3>1. ~failure /\ failure' /\ \A u \in Threads : at'[u] = "notify" <=> u = t
      BY <1>a, <1>f, <1>n, <2>2 DEF Telling, Fresh
    <3> QED BY <1>a, <1>f, <1>u, <3>1 DEF Telling
  <2> QED BY <2>1, <2>2
<1>7. Asked'
  BY <1>a, <1>f, <1>n, <1>u DEF Asked, Fresh, Claims, Places
<1> QED BY <1>1, <1>2, <1>3, <1>4, <1>5, <1>6, <1>7

LEMMA NotifyKeepsIInv ==
  ASSUME ClientIInv, NEW t \in Threads, Notify(t)
  PROVE  ClientIInv'
<1> USE ThreeThreads DEF ClientIInv, Notify, Step, ctxVars, sockVars, libVars, latchVars, mainVars
<1>a. /\ at' \in [Threads -> Statements] /\ at[t] = "notify" /\ at'[t] = "cancel"
      /\ \A u \in Threads : u # t => at'[u] = at[u]
  BY StepMoves DEF ClientTypeOK, Statements
<1>n. notified = 0 /\ notified' = 1 /\ failure
  BY <1>a DEF Telling
<1>1. ClientTypeOK'
  BY <1>a, <1>n DEF ClientTypeOK
<1>2. Places'
  BY <1>a DEF Places, Cancelled
<1>3. Claims'
  BY <1>a DEF Claims
<1>4. Socket'
  BY DEF Socket
<1>5. Caused'
  BY <1>a DEF Caused, Cause
<1>6. Telling'
  BY <1>a, <1>n DEF Telling
<1>7. Asked'
  BY <1>a DEF Asked
<1> QED BY <1>1, <1>2, <1>3, <1>4, <1>5, <1>6, <1>7

LEMMA CancelKeepsIInv ==
  ASSUME ClientIInv, NEW t \in Threads, CancelAdapter(t)
  PROVE  ClientIInv'
<1> USE ThreeThreads DEF ClientIInv, CancelAdapter, Step, AfterFail, sockVars, libVars, latchVars, mainVars
<1>a. /\ at' \in [Threads -> Statements] /\ at[t] = "cancel"
      /\ at'[t] = IF t = Dispatcher THEN "idle" ELSE "reread"
      /\ \A u \in Threads : u # t => at'[u] = at[u]
  BY StepMoves DEF ClientTypeOK, Statements
<1>1. ClientTypeOK'
  BY <1>a DEF ClientTypeOK
<1>2. Places'
  BY <1>a DEF Places, Cancelled
<1>3. Claims'
  BY <1>a DEF Claims, Places
<1>4. Socket'
  BY DEF Socket
<1>5. Caused'
  BY <1>a DEF Caused, Cause
<1>6. Telling'
  BY <1>a DEF Telling
<1>7. Asked'
  BY <1>a DEF Asked
<1> QED BY <1>1, <1>2, <1>3, <1>4, <1>5, <1>6, <1>7

LEMMA WaitKeepsIInv ==
  ASSUME ClientIInv, NEW t \in Threads, Wait(t)
  PROVE  ClientIInv'
<1> USE ThreeThreads DEF ClientIInv, Wait, Step, butAt, ctxVars, sockVars, libVars, latchVars, mainVars
<1>a. /\ at' \in [Threads -> Statements] /\ at[t] = "wait" /\ at'[t] = "idle"
      /\ \A u \in Threads : u # t => at'[u] = at[u]
  BY StepMoves DEF ClientTypeOK, Statements
<1>1. ClientTypeOK'
  BY <1>a DEF ClientTypeOK
<1>2. Places'
  BY <1>a DEF Places, Cancelled
<1>3. Claims'
  BY <1>a DEF Claims
<1>4. Socket'
  BY DEF Socket
<1>5. Caused'
  BY <1>a DEF Caused, Cause
<1>6. Telling'
  BY <1>a DEF Telling
<1>7. Asked'
  BY <1>a DEF Asked
<1> QED BY <1>1, <1>2, <1>3, <1>4, <1>5, <1>6, <1>7

LEMMA MarkKeepsIInv ==
  ASSUME ClientIInv, NEW t \in Threads, Mark(t)
  PROVE  ClientIInv'
<1> USE ThreeThreads DEF ClientIInv, Mark, Step, ctxVars, sockVars, libVars, latchVars, mainVars
<1>a. /\ at' \in [Threads -> Statements] /\ at[t] = "mark" /\ at'[t] = "shut"
      /\ \A u \in Threads : u # t => at'[u] = at[u]
  BY StepMoves DEF ClientTypeOK, Statements
<1>1. ClientTypeOK'
  BY <1>a DEF ClientTypeOK
<1>2. Places'
  BY <1>a DEF Places, Cancelled
<1>3. Claims'
  BY <1>a DEF Claims
<1>4. Socket'
  BY DEF Socket, Claims
<1>5. Caused'
  BY <1>a DEF Caused, Cause
<1>6. Telling'
  BY <1>a DEF Telling
<1>7. Asked'
  BY <1>a DEF Asked
<1> QED BY <1>1, <1>2, <1>3, <1>4, <1>5, <1>6, <1>7

(* The owner has closed the socket, after it looked for a failure.         *)
LEMMA ShutKeepsIInv ==
  ASSUME ClientIInv, NEW t \in Threads, Shut(t)
  PROVE  ClientIInv'
<1> USE ThreeThreads DEF ClientIInv, Shut, CloseConn, Step, ctxVars, libVars, latchVars, mainVars
<1>a. /\ at' \in [Threads -> Statements] /\ at[t] = "shut" /\ at'[t] = "idle"
      /\ \A u \in Threads : u # t => at'[u] = at[u]
  BY StepMoves DEF ClientTypeOK, Statements
<1>c. claimed = {t} /\ claimed' = {} /\ closing /\ t # Dispatcher
  BY <1>a DEF Claims
<1>1. ClientTypeOK'
  BY <1>a, <1>c DEF ClientTypeOK
<1>2. Places'
  BY <1>a DEF Places, Cancelled
<1>3. Claims'
  BY <1>a, <1>c DEF Claims
<1>4. Socket'
  BY <1>c DEF Socket, ClientTypeOK
<1>5. Caused'
  BY <1>a DEF Caused, Cause
<1>6. Telling'
  BY <1>a DEF Telling
<1>7. Asked'
  BY <1>a, <1>c DEF Asked
<1> QED BY <1>1, <1>2, <1>3, <1>4, <1>5, <1>6, <1>7

LEMMA MethodKeepsIInv ==
  ASSUME ClientIInv, NEW t \in Threads, Method(t) \/ Notify(t)
  PROVE  ClientIInv'
<1>1. CASE Reread(t)
  BY <1>1, ReturnKeepsIInv DEF Reread
<1>2. CASE ~Reread(t)
  BY <1>2, SnapshotKeepsIInv, ProbeKeepsIInv, FailKeepsIInv, NotifyKeepsIInv,
     CancelKeepsIInv, WaitKeepsIInv, MarkKeepsIInv, ShutKeepsIInv DEF Method
<1> QED BY <1>1, <1>2

(* closeSocket is entered by the context and by Main; who comes second     *)
(* waits.                                                                  *)
LEMMA CloseSocketKeepsIInv ==
  ASSUME ClientIInv, NEW t \in {Main, Closer}, CloseSocket(t), UNCHANGED <<seen, got>>,
         \/ t = Closer /\ at[t] = "asleep" /\ Cancelled /\ UNCHANGED phase
         \/ /\ t = Main /\ at[t] = "idle"
            /\ \/ phase = "abort" /\ phase' = "aborting"
               \/ phase = "close" /\ phase' = "closing"
  PROVE  ClientIInv'
<1> USE ThreeThreads DEF ClientIInv, CloseSocket, ctxVars, sockVars, libVars
<1>u. UNCHANGED <<nc, failure, closing, notified, ctxVars, sockVars, libVars, seen, got>>
  OBVIOUS
<1>a. /\ at' \in [Threads -> Statements]
      /\ at'[t] = IF socketDone = "nil" THEN "err" ELSE "wait"
      /\ \A u \in Threads : u # t => at'[u] = at[u]
  BY StepMoves DEF ClientTypeOK, Statements
<1>c. IF socketDone = "nil" THEN socketDone' = "made" /\ claimed = {} /\ claimed' = {t} /\ ~closing
                            ELSE UNCHANGED <<socketDone, claimed>>
  BY DEF Claims
<1>1. ClientTypeOK'
  BY <1>a, <1>c, <1>u DEF ClientTypeOK, Phases
<1>2. Places'
  BY <1>a, <1>u DEF Places, Cancelled
<1>3. Claims'
  <2>1. CASE socketDone = "nil"
    BY <1>a, <1>c, <1>u, <2>1 DEF Claims, Places, ClientTypeOK
  <2>2. CASE socketDone # "nil"
    BY <1>a, <1>c, <1>u, <2>2 DEF Claims, Places, ClientTypeOK
  <2> QED BY <2>1, <2>2
<1>4. Socket'
  BY <1>c, <1>u DEF Socket, Connecting, Aborted, Serving
<1>5. Caused'
  BY <1>a, <1>u DEF Caused, Cause
<1>6. Telling'
  BY <1>a, <1>u DEF Telling
<1>7. Asked'
  BY <1>a, <1>c, <1>u DEF Asked, Serving, Claims
<1> QED BY <1>1, <1>2, <1>3, <1>4, <1>5, <1>6, <1>7

(* The connect allowance, the session and the callbacks of the library.    *)
LEMMA StartupEndsKeepsIInv == ASSUME ClientIInv, StartupEnds PROVE ClientIInv'
<1> USE DEF ClientIInv, StartupEnds, CloseConn, libVars, latchVars, mainVars, frameVars
<1>1. ClientTypeOK'
  BY DEF ClientTypeOK
<1>2. Places'
  BY DEF Places, Cancelled
<1>3. Claims'
  BY DEF Claims
<1>4. Socket'
  BY DEF Socket, ClientTypeOK
<1>5. Caused'
  BY DEF Caused, Cause
<1>6. Telling'
  BY DEF Telling
<1>7. Asked'
  BY DEF Asked
<1> QED BY <1>1, <1>2, <1>3, <1>4, <1>5, <1>6, <1>7

LEMMA SessionEndsKeepsIInv == ASSUME ClientIInv, SessionEnds PROVE ClientIInv'
<1> USE DEF ClientIInv, SessionEnds, sockVars, libVars, latchVars, mainVars, frameVars
<1>1. ClientTypeOK'
  BY DEF ClientTypeOK
<1>2. Places'
  BY DEF Places, Cancelled
<1>3. Claims'
  BY DEF Claims
<1>4. Socket'
  BY DEF Socket
<1>5. Caused'
  BY DEF Caused, Cause
<1>6. Telling'
  BY DEF Telling
<1>7. Asked'
  BY DEF Asked
<1> QED BY <1>1, <1>2, <1>3, <1>4, <1>5, <1>6, <1>7

LEMMA DispatchKeepsIInv == ASSUME ClientIInv, Dispatch PROVE ClientIInv'
<1> USE ThreeThreads DEF ClientIInv, Dispatch, Step, ctxVars, sockVars, latchVars, mainVars
<1>a. /\ at' \in [Threads -> Statements] /\ at[Dispatcher] = "idle"
      /\ at'[Dispatcher] = IF Head(callbacks) = "async" THEN "latch" ELSE "fail"
      /\ \A u \in Threads : u # Dispatcher => at'[u] = at[u]
  BY StepMoves DEF ClientTypeOK, Statements
<1>c. /\ callbacks \in Seq({"async", "disconnected", "closed"}) /\ callbacks # <<>>
      /\ callbacks' = Tail(callbacks)
  BY DEF ClientTypeOK
<1>d. /\ callbacks' \in Seq({"async", "disconnected", "closed"})
      /\ Head(callbacks) = callbacks[1] /\ 1 \in 1..Len(callbacks)
      /\ \A i \in 1..Len(callbacks') : callbacks'[i] = callbacks[i + 1] /\ i + 1 \in 1..Len(callbacks)
  BY <1>c
<1>1. ClientTypeOK'
  BY <1>a, <1>d DEF ClientTypeOK
<1>2. Places'
  BY <1>a DEF Places, Cancelled
<1>3. Claims'
  BY <1>a DEF Claims
<1>4. Socket'
  BY DEF Socket
<1>5. Caused'
  BY <1>a, <1>c, <1>d DEF Caused, Cause
<1>6. Telling'
  BY <1>a DEF Telling
<1>7. Asked'
  BY <1>a DEF Asked, Claims
<1> QED BY <1>1, <1>2, <1>3, <1>4, <1>5, <1>6, <1>7

-----------------------------------------------------------------------------
(* Opening, reading and closing. *)
LEMMA DialKeepsIInv == ASSUME ClientIInv, Dial \/ Handshake PROVE ClientIInv'
<1> USE DEF ClientIInv, Dial, Handshake, In, Enter, ctxVars, libVars, latchVars, frameVars
<1>u. /\ UNCHANGED <<ctxVars, latchVars, frameVars, seen, got, trouble, callbacks, pending, harm>>
      /\ sockClosed' = sockClosed /\ at[Main] = "idle"
      /\ \/ /\ phase = "dial" /\ lib' = lib
            /\ IF TooLate THEN conn' = "shut" /\ phase' = "connected"
                          ELSE conn' = "open" /\ phase' = "handshake"
         \/ /\ phase = "handshake" /\ phase' = "connected" /\ conn' = conn
            /\ lib' = lib \/ (conn = "open" /\ lib' = "up")
  BY DEF sockVars
<1>1. ClientTypeOK'
  BY <1>u DEF ClientTypeOK, Phases
<1>2. Places'
  BY <1>u DEF Places, Cancelled
<1>3. Claims'
  BY <1>u DEF Claims
<1>4. Socket'
  BY <1>u DEF Socket, Connecting, Serving, Aborted, TooLate
<1>5. Caused'
  BY <1>u DEF Caused, Cause, Socket
<1>6. Telling'
  BY <1>u DEF Telling
<1>7. Asked'
  BY <1>u DEF Asked, Serving, Claims, Socket
<1> QED BY <1>1, <1>2, <1>3, <1>4, <1>5, <1>6, <1>7

(* A connection is accepted only while nobody has begun to close it.       *)
LEMMA ConnectedKeepsIInv == ASSUME ClientIInv, Connected PROVE ClientIInv'
<1> USE ThreeThreads DEF ClientIInv, Connected, In, Enter, sockVars, libVars, frameVars
<1>a. Accepted => socketDone = "nil" /\ claimed = {} /\ startup' = "stopped" /\ nc'
  BY DEF Accepted, Places, Claims, ClientTypeOK
<1>1. ClientTypeOK'
  BY DEF ClientTypeOK, Phases
<1>2. Places'
  BY DEF Places, Cancelled
<1>3. Claims'
  BY DEF Claims
<1>4. Socket'
  BY <1>a DEF Socket, Connecting, Serving, Aborted, Accepted, ClientTypeOK
<1>5. Caused'
  BY DEF Caused, Cause
<1>6. Telling'
  BY DEF Telling
<1>7. Asked'
  BY <1>a DEF Asked, Serving
<1> QED BY <1>1, <1>2, <1>3, <1>4, <1>5, <1>6, <1>7

LEMMA CallbacksGrow ==
  ASSUME callbacks \in Seq({"async", "disconnected", "closed"}),
         NEW s \in Seq({"async", "disconnected", "closed"}), callbacks' = callbacks \o s
  PROVE  /\ callbacks' \in Seq({"async", "disconnected", "closed"})
         /\ \A i \in 1..Len(callbacks') : \/ i \in 1..Len(callbacks) /\ callbacks'[i] = callbacks[i]
                                          \/ \E j \in 1..Len(s) : callbacks'[i] = s[j]
<1>1. /\ Len(callbacks) \in Nat /\ Len(s) \in Nat
      /\ callbacks' \in Seq({"async", "disconnected", "closed"})
      /\ Len(callbacks') = Len(callbacks) + Len(s)
      /\ \A i \in 1..Len(callbacks') :
           callbacks'[i] = IF i <= Len(callbacks) THEN callbacks[i] ELSE s[i - Len(callbacks)]
  BY ConcatProperties
<1> SUFFICES ASSUME NEW i \in 1..Len(callbacks')
             PROVE  \/ i \in 1..Len(callbacks) /\ callbacks'[i] = callbacks[i]
                    \/ \E j \in 1..Len(s) : callbacks'[i] = s[j]
  BY <1>1
<1>2. CASE i <= Len(callbacks)
  BY <1>1, <1>2
<1>3. CASE ~(i <= Len(callbacks))
  <2>1. i - Len(callbacks) \in 1..Len(s)
    BY <1>1, <1>3
  <2> QED BY <1>1, <1>3, <2>1
<1> QED BY <1>2, <1>3

LEMMA LosesConnection ==
  ASSUME ClientTypeOK, LoseConnection
  PROVE  /\ lib' \in {"none", "down"} /\ (lib' = "none" <=> lib = "none")
         /\ callbacks' \in Seq({"async", "disconnected", "closed"})
         /\ callbacks' # <<>> => lib' = "down" \/ callbacks # <<>>
         /\ (\A i \in 1..Len(callbacks) : callbacks[i] # "async")
              => \A i \in 1..Len(callbacks') : callbacks'[i] # "async"
<1>1. CASE lib = "up"
  <2> DEFINE s == <<"disconnected", "closed">>
  <2>1. /\ s \in Seq({"async", "disconnected", "closed"})
        /\ Len(s) = 2 /\ s[1] # "async" /\ s[2] # "async"
    OBVIOUS
  <2>2. \A j \in 1..Len(s) : s[j] # "async"
    BY <2>1
  <2> HIDE DEF s
  <2>3. callbacks' = callbacks \o s /\ lib' = "down"
    BY <1>1 DEF LoseConnection, s
  <2>4. callbacks \in Seq({"async", "disconnected", "closed"})
    BY DEF ClientTypeOK
  <2>5. /\ callbacks' \in Seq({"async", "disconnected", "closed"})
        /\ \A i \in 1..Len(callbacks') :
              \/ i \in 1..Len(callbacks) /\ callbacks'[i] = callbacks[i]
              \/ \E j \in 1..Len(s) : callbacks'[i] = s[j]
    BY <2>1, <2>3, <2>4, CallbacksGrow
  <2>6. ASSUME \A i \in 1..Len(callbacks) : callbacks[i] # "async",
               NEW i \in 1..Len(callbacks')
        PROVE  callbacks'[i] # "async"
    BY <2>2, <2>5, <2>6
  <2> QED BY <1>1, <2>3, <2>5, <2>6
<1>2. CASE lib # "up"
  BY <1>2 DEF LoseConnection, ClientTypeOK
<1> QED BY <1>1, <1>2

(* When Close goes on the socket is closed, whoever closed it. *)
LEMMA CloseReturnsKeepsIInv == ASSUME ClientIInv, CloseReturns PROVE ClientIInv'
<1> USE ThreeThreads DEF ClientIInv, CloseReturns, Enter, sockVars, latchVars, frameVars
<1>a. /\ at[Main] = "idle" /\ phase \in {"aborting", "closing"} /\ socketDone = "closed" /\ closing
      /\ phase' = (IF phase = "aborting" THEN "failed" ELSE "closed")
      /\ adapterDone' /\ adapterDone' \in BOOLEAN
      /\ UNCHANGED <<sessionDone, startup, trouble, pending, harm, sockVars, latchVars,
                     frameVars, seen, got>>
  BY DEF Claims, latchVars
<1>l. /\ lib' \in {"none", "up", "down"} /\ (lib' = "none" <=> lib = "none")
      /\ lib = "down" => lib' = "down"
      /\ callbacks' \in Seq({"async", "disconnected", "closed"})
      /\ (\A i \in 1..Len(callbacks) : callbacks[i] # "async")
           => \A i \in 1..Len(callbacks') : callbacks'[i] # "async"
  <2>1. CASE nc
    BY <2>1, LosesConnection DEF ClientTypeOK
  <2>2. CASE ~nc
    BY <2>2 DEF ClientTypeOK
  <2> QED BY <2>1, <2>2
<1>1. ClientTypeOK'
  BY <1>a, <1>l DEF ClientTypeOK, Phases
<1>2. Places'
  BY <1>a DEF Places, Cancelled
<1>3. Claims'
  BY <1>a DEF Claims
<1>4. Socket'
  BY <1>a, <1>l DEF Socket, Connecting, Serving, Aborted
<1>5. Caused'
  BY <1>a, <1>l DEF Caused, Cause
<1>6. Telling'
  BY <1>a DEF Telling
<1>7. Asked'
  BY <1>a, <1>l DEF Asked, Serving
<1> QED BY <1>1, <1>2, <1>3, <1>4, <1>5, <1>6, <1>7

LEMMA MainKeepsIInv == ASSUME ClientIInv, MainStep PROVE ClientIInv'
<1> USE DEF In, butMain, ctxVars, sockVars, libVars, latchVars, frameVars
<1>1. CASE DialFails \/ Subscribe \/ Opened \/ NextChecked \/ Rechecked \/ CloseSession
  <2>1. /\ at[Main] = "idle" /\ got' \in Results /\ UNCHANGED <<butMain, seen>>
        /\ \/ phase \in {"dial", "handshake"} /\ phase' = "connected"
           \/ phase \in Quick /\ phase' \in {"flush", "open", "receive", "close", "abort"}
    BY <1>1 DEF DialFails, Subscribe, Opened, NextChecked, Rechecked, CloseSession, Enter,
                Deliver, Quick, Results, ClientIInv, ClientTypeOK
  <2>2. pending' \in 0..PendingMessages
    BY <2>1 DEF ClientIInv, ClientTypeOK
  <2> QED BY <2>1, <2>2, MainMoves
<1>2. CASE Dial \/ Handshake
  BY <1>2, DialKeepsIInv
<1>3. CASE Connected
  BY <1>3, ConnectedKeepsIInv
<1>4. CASE Flush
  <2>1. at[Main] = "idle" /\ phase = "flush"
    BY <1>4 DEF Flush
  <2>2. CASE CallErr("check")
    BY <1>4, <2>1, <2>2, MainAsks DEF Quick, CallErr, Enter
  <2>3. CASE Enter("abort") /\ UNCHANGED butMain
    <3>1. pending' \in 0..PendingMessages /\ got' \in Results
      BY <2>3 DEF ClientIInv, ClientTypeOK, Enter
    <3> QED BY <2>1, <2>3, <3>1, MainMoves DEF Quick, Enter
  <2> QED BY <1>4, <2>2, <2>3 DEF Flush
<1>5. CASE CallNext \/ (In("open") /\ CallErr("open"))
  <2>1. PICK p \in {"open", "next"} : at[Main] = "idle" /\ phase = "open" /\ CallErr(p)
    BY <1>5 DEF CallNext
  <2> QED BY <2>1, MainAsks DEF Quick, CallErr, Enter
<1>6. CASE Receive
  <2>1. at[Main] = "idle" /\ phase = "receive"
    BY <1>6 DEF Receive
  <2>2. CASE sessionDone /\ CallErr("recheck")
    BY <2>1, <2>2, MainAsks DEF Quick, CallErr, Enter
  <2>3. CASE /\ phase' = "open" /\ UNCHANGED <<ctxVars, sockVars, latchVars, frameVars, seen,
                                                lib, trouble, callbacks, harm>>
             /\ got' \in Results /\ pending' \in 0..PendingMessages
    BY <2>1, <2>3, MainMoves DEF Quick
  <2>4. pending \in 0..PendingMessages /\ (pending > 0 => pending - 1 \in 0..PendingMessages)
    BY ClientAssumption DEF ClientIInv, ClientTypeOK
  <2> QED BY <1>6, <2>2, <2>3, <2>4 DEF Receive, Deliver, Results
<1>7. CASE CallClose
  BY <1>7, CloseSocketKeepsIInv DEF CallClose, Enter
<1>8. CASE CloseReturns
  BY <1>8, CloseReturnsKeepsIInv
<1> QED BY <1>1, <1>2, <1>3, <1>4, <1>5, <1>6, <1>7, <1>8 DEF MainStep, Opening, Reading

-----------------------------------------------------------------------------
(* The library: harm that is early shows. *)
LEMMA HarmIsTyped ==
  ASSUME ClientTypeOK, Harm
  PROVE  /\ harm' \in {"early", "late"} /\ (harm = "early" => harm' = "early")
         /\ harm' = "early" => harm = "early" \/ (~Cancelled /\ socketDone = "nil")
  BY DEF Harm

LEMMA DisconnectedKeepsIInv == ASSUME ClientIInv, Disconnected PROVE ClientIInv'
<1> USE DEF ClientIInv, Quiet, ctxVars, sockVars, latchVars, mainVars, frameVars
<1>a. /\ UNCHANGED <<ctxVars, sockVars, latchVars, mainVars, frameVars, trouble, pending>>
      /\ lib = "up" /\ lib' = "down"
      /\ callbacks' \in Seq({"async", "disconnected", "closed"})
      /\ (\A i \in 1..Len(callbacks) : callbacks[i] # "async")
           => \A i \in 1..Len(callbacks') : callbacks'[i] # "async"
  BY LosesConnection DEF Disconnected
<1>h. \/ conn = "shut" /\ harm' = harm
      \/ /\ harm' \in {"early", "late"} /\ (harm = "early" => harm' = "early")
         /\ harm' = "early" => harm = "early" \/ (~Cancelled /\ socketDone = "nil")
  BY HarmIsTyped DEF Disconnected
<1>1. ClientTypeOK'
  BY <1>a, <1>h DEF ClientTypeOK
<1>2. Places'
  BY <1>a DEF Places, Cancelled
<1>3. Claims'
  BY <1>a DEF Claims
<1>4. Socket'
  BY <1>a DEF Socket
<1>5. Caused'
  BY <1>a, <1>h DEF Caused, Cause, Socket
<1>6. Telling'
  BY <1>a DEF Telling
<1>7. Asked'
  BY <1>a, <1>h DEF Asked, Claims
<1> QED BY <1>1, <1>2, <1>3, <1>4, <1>5, <1>6, <1>7

LEMMA ComplainKeepsIInv ==
  ASSUME ClientIInv, NEW what \in SUBSET {"error", "dropped"}, what # {}, Complain(what), Quiet
  PROVE  ClientIInv'
<1> USE DEF ClientIInv, Quiet, ctxVars, sockVars, latchVars, mainVars, frameVars
<1>a. /\ UNCHANGED <<ctxVars, sockVars, latchVars, mainVars, frameVars, lib, pending>>
      /\ trouble' = trouble \cup what /\ callbacks' = callbacks \o <<"async">>
      /\ harm' \in {"early", "late"} /\ (harm = "early" => harm' = "early")
      /\ harm' = "early" => harm = "early" \/ (~Cancelled /\ socketDone = "nil")
  BY HarmIsTyped DEF Complain, ClientTypeOK
<1>c. callbacks' \in Seq({"async", "disconnected", "closed"})
  BY <1>a DEF ClientTypeOK
<1>1. ClientTypeOK'
  BY <1>a, <1>c DEF ClientTypeOK
<1>2. Places'
  BY <1>a DEF Places, Cancelled
<1>3. Claims'
  BY <1>a DEF Claims
<1>4. Socket'
  BY <1>a DEF Socket
<1>5. Caused'
  BY <1>a DEF Caused, Cause
<1>6. Telling'
  BY <1>a DEF Telling
<1>7. Asked'
  BY <1>a DEF Asked, Claims
<1> QED BY <1>1, <1>2, <1>3, <1>4, <1>5, <1>6, <1>7

LEMMA LibraryKeepsIInv == ASSUME ClientIInv, Library PROVE ClientIInv'
<1>1. CASE Disconnected
  BY <1>1, DisconnectedKeepsIInv
<1>2. CASE Denied
  BY <1>2, ComplainKeepsIInv DEF Denied
<1>3. CASE Arrive
  <2>1. CASE Complain({"error", "dropped"})
    BY <1>3, <2>1, ComplainKeepsIInv DEF Arrive
  <2>2. CASE ~Full /\ pending' = pending + 1 /\ UNCHANGED <<lib, trouble, callbacks, harm>>
    <3> USE DEF ClientIInv, ctxVars, sockVars, latchVars, mainVars, frameVars
    <3>1. UNCHANGED <<ctxVars, sockVars, latchVars, mainVars, frameVars, lib, trouble,
                      callbacks, harm>>
      BY <1>3, <2>2 DEF Arrive, Quiet
    <3>2. pending' \in 0..PendingMessages
      BY <2>2, ClientAssumption DEF Full, ClientTypeOK
    <3>3. ClientTypeOK'
      BY <3>1, <3>2 DEF ClientTypeOK
    <3> QED BY <3>1, <3>3 DEF Places, Cancelled, Claims, Socket, Caused, Cause, Telling, Asked
  <2> QED BY <1>3, <2>1, <2>2 DEF Arrive
<1> QED BY <1>1, <1>2, <1>3 DEF Library

LEMMA ClientNextIInv == ClientIInv /\ [ClientNext]_clientVars => ClientIInv'
<1> SUFFICES ASSUME ClientIInv, [ClientNext]_clientVars PROVE ClientIInv'
  OBVIOUS
<1>1. CASE MainStep
  BY <1>1, MainKeepsIInv
<1>2. CASE \E t \in Threads : Method(t) \/ Notify(t)
  BY <1>2, MethodKeepsIInv
<1>3. CASE CloserWakes
  BY <1>3, CloseSocketKeepsIInv DEF CloserWakes, mainVars
<1>4. CASE Dispatch
  BY <1>4, DispatchKeepsIInv
<1>5. CASE StartupEnds
  BY <1>5, StartupEndsKeepsIInv
<1>6. CASE Library
  BY <1>6, LibraryKeepsIInv
<1>7. CASE SessionEnds
  BY <1>7, SessionEndsKeepsIInv
<1>8. CASE UNCHANGED clientVars
  BY <1>8 DEF clientVars, butMain, ctxVars, sockVars, libVars, latchVars, mainVars, frameVars,
     ClientIInv, ClientTypeOK, Places, Cancelled, Claims, Socket, Caused, Cause, Telling, Asked
<1> QED BY <1>1, <1>2, <1>3, <1>4, <1>5, <1>6, <1>7, <1>8 DEF ClientNext

(* The inductive invariant of the adapter: who owns the close, why the     *)
(* socket is closed, what caused a failure, who tells of it, and that the  *)
(* owner of the close has asked for trouble before it marked the close     *)
(* (closeSocket, fail, Err).                                               *)
THEOREM ClientInvariant == ClientSpec => []ClientIInv
<1>1. ClientInit => ClientIInv
  BY ClientInitIInv
<1>2. ClientIInv /\ [ClientNext]_clientVars => ClientIInv'
  BY ClientNextIInv
<1> QED BY <1>1, <1>2, PTL DEF ClientSpec

(* The fields of the adapter, the places of its goroutines and the buffer  *)
(* of the subscription keep to their ranges (client, SetPendingLimits).    *)
THEOREM ClientTypes == ClientSpec => []ClientTypeOK
<1>1. ClientIInv => ClientTypeOK
  BY DEF ClientIInv
<1> QED BY <1>1, ClientInvariant, PTL

(* A session tells the stop owner of one failure at most, the first, and   *)
(* of every one that is latched; and neither a failed open nor Close       *)
(* returns before the raw socket is closed (fail, closeSocket, Dial).      *)
THEOREM ClientEndsCleanly == ClientSpec => []EndIsClean
<1>1. ClientIInv => EndIsClean
  <2> SUFFICES ASSUME ClientIInv PROVE EndIsClean
    OBVIOUS
  <2>1. NotifiedOnce
    BY DEF ClientIInv, Telling, NotifiedOnce
  <2>2. SocketReleased
    BY DEF ClientIInv, Claims, Socket, SocketReleased
  <2> QED BY <2>1, <2>2 DEF EndIsClean
<1> QED BY <1>1, ClientInvariant, PTL

-----------------------------------------------------------------------------
(* The adapter as a session.  Seen from outside it is Life, Told and the   *)
(* variables they share.                                                   *)
Outside == <<sessionDone, Life, harm, failure, Told, got>>

LEMMA OutsideIsSession == Session!sessionVars = Outside
  BY DEF Session!sessionVars, Outside

(* The phases of Main, as the session counts them. *)
LEMMA LifeOfPhases ==
  ASSUME phase \in Phases
  PROVE  /\ Life = "failed" <=> phase = "failed"
         /\ Life = "closed" <=> phase = "closed"
         /\ Life = "open" <=> phase \in {"open", "next", "receive", "recheck", "close", "closing"}
         /\ Life \in {"opening", "open", "failed", "closed"}
  BY DEF Life, Phases

LEMMA LifeOfPhasesNext ==
  ASSUME phase' \in Phases
  PROVE  /\ Life' = "failed" <=> phase' = "failed"
         /\ Life' = "closed" <=> phase' = "closed"
         /\ Life' = "open" <=> phase' \in {"open", "next", "receive", "recheck", "close", "closing"}
         /\ Life' \in {"opening", "open", "failed", "closed"}
  BY DEF Life, Phases

(* A step in which Main stays, or stays within one life, tells nobody.     *)
LEMMA HiddenStep ==
  ASSUME UNCHANGED <<sessionDone, harm, failure, notified, got>>, Life' = Life
  PROVE  UNCHANGED Session!sessionVars
<1>1. Told' = Told
  BY DEF Told
<1> QED BY <1>1, OutsideIsSession DEF Session!sessionVars

LEMMA SamePhase == ASSUME phase' = phase PROVE Life' = Life
  BY DEF Life

(* A failure is latched for a reason: trouble, or a session that does not  *)
(* open.                                                                   *)
LEMMA LatchRefines ==
  ASSUME ClientIInv, NEW t \in Threads, Fail(t)
  PROVE  [Session!SessionNext]_Session!sessionVars
<1>1. /\ UNCHANGED <<sessionDone, harm, notified, phase, got>>
      /\ failure \in BOOLEAN /\ failure' \in BOOLEAN /\ (failure => failure')
  BY DEF Fail, Fresh, ctxVars, libVars, mainVars, ClientIInv, ClientTypeOK
<1>2. Life' = Life
  BY <1>1, SamePhase
<1>3. CASE failure' = failure
  BY <1>1, <1>2, <1>3, HiddenStep
<1>4. CASE failure' # failure
  <2>1. ~failure /\ failure'
    BY <1>1, <1>4
  <2>2. ClientIInv'
    BY FailKeepsIInv
  <2>3. harm # "none" \/ startup' = "run"
    BY <1>1, <2>1, <2>2 DEF ClientIInv, Caused
  <2>4. harm # "none" \/ Life \in {"opening", "failed"}
    <3>1. startup' = "run" => phase \in Connecting \cup Aborted
      BY <1>1, <2>2 DEF ClientIInv, Socket
    <3>2. phase \in Phases
      BY DEF ClientIInv, ClientTypeOK
    <3> QED BY <2>3, <3>1, <3>2, LifeOfPhases DEF Connecting, Aborted
  <2>5. notified = 0 /\ notified' = 0
    BY <1>1, <2>1 DEF ClientIInv, Telling
  <2>6. Told' = "due"
    BY <2>1, <2>5 DEF Told
  <2>7. Session!Latch
    BY <1>1, <1>2, <2>1, <2>4, <2>6 DEF Session!Latch
  <2> QED BY <2>7 DEF Session!SessionNext
<1> QED BY <1>3, <1>4

LEMMA NotifyRefines ==
  ASSUME ClientIInv, NEW t \in Threads, Notify(t)
  PROVE  [Session!SessionNext]_Session!sessionVars
<1>1. /\ UNCHANGED <<sessionDone, harm, failure, phase, got>> /\ at[t] = "notify"
      /\ notified' = notified + 1
  BY DEF Notify, Step, ctxVars, libVars, mainVars
<1>2. failure /\ notified = 0
  BY <1>1 DEF ClientIInv, Telling
<1>3. Told = "due" /\ Told' = "yes"
  BY <1>1, <1>2 DEF Told
<1>4. Life' = Life
  BY <1>1, SamePhase
<1> QED BY <1>1, <1>3, <1>4 DEF Session!Tell, Session!SessionNext

LEMMA MethodRefines ==
  ASSUME ClientIInv, NEW t \in Threads, Method(t) \/ Notify(t)
  PROVE  [Session!SessionNext]_Session!sessionVars
<1>1. CASE Fail(t)
  BY <1>1, LatchRefines
<1>2. CASE Notify(t)
  BY <1>2, NotifyRefines
<1>3. CASE Snapshot(t) \/ Probe(t) \/ Reread(t) \/ CancelAdapter(t) \/ Wait(t) \/ Mark(t) \/ Shut(t)
  <2>1. UNCHANGED <<sessionDone, harm, failure, notified, phase, got>>
    BY <1>3 DEF Snapshot, Probe, Reread, Return, CancelAdapter, Wait, Mark, Shut,
       butAt, ctxVars, libVars, latchVars, mainVars
  <2> QED BY <2>1, SamePhase, HiddenStep
<1> QED BY <1>1, <1>2, <1>3 DEF Method

(* Trouble is early only while the session is open and nobody stops it.    *)
LEMMA LibraryRefines ==
  ASSUME ClientIInv, Library
  PROVE  [Session!SessionNext]_Session!sessionVars
<1>1. UNCHANGED <<sessionDone, failure, notified, phase, got>> /\ (Harm \/ UNCHANGED harm)
  BY DEF Library, Disconnected, Denied, Arrive, Complain, Quiet, ctxVars, latchVars, mainVars
<1>2. Life' = Life /\ Told' = Told
  BY <1>1, SamePhase DEF Told
<1>3. CASE UNCHANGED harm
  BY <1>1, <1>2, <1>3, HiddenStep
<1>4. CASE Harm
  <2>1. /\ harm' \in {"early", "late"} /\ (harm = "early" => harm' = "early")
        /\ harm' = "early" => harm = "early" \/ (~Cancelled /\ socketDone = "nil")
    BY <1>4, HarmIsTyped DEF ClientIInv
  <2>2. socketDone = "nil" => Life \in {"opening", "open"}
    <3>1. phase \in Phases /\ (phase \in {"failed", "closed"} => socketDone = "closed")
      BY DEF ClientIInv, ClientTypeOK, Claims
    <3> QED BY <3>1, LifeOfPhases
  <2>3. Session!Suffer
    BY <1>1, <1>2, <2>1, <2>2 DEF Session!Suffer, Cancelled
  <2> QED BY <2>3 DEF Session!SessionNext
<1> QED BY <1>1, <1>3, <1>4

(* Next returns what happened, and Close nothing before its time.          *)
LEMMA NextRefines ==
  ASSUME ClientIInv, Reading
  PROVE  [Session!SessionNext]_Session!sessionVars
<1>1. /\ UNCHANGED <<sessionDone, harm, failure, notified>>
      /\ phase \in {"next", "receive", "recheck"} /\ phase' \in {"open", "receive", "recheck"}
  BY DEF Reading, NextChecked, Receive, Rechecked, In, Deliver, Enter, CallErr, butMain,
         ctxVars, libVars, latchVars
<1>2. Life = "open" /\ Life' = "open" /\ Told' = Told
  BY <1>1 DEF Life, Told
<1>3. CASE got' = got
  BY <1>1, <1>2, <1>3, HiddenStep
<1>4. CASE got' # got
  <2>1. \/ got' \in {"message", "empty"}
        \/ got' = "failed" /\ seen
        \/ got' = "cancelled" /\ (sessionDone \/ phase = "recheck")
        \/ got' = "broken" /\ trouble # {}
        \/ got' = "broken" /\ lib = "down" /\ ~sessionDone
    BY <1>4 DEF Reading, NextChecked, Receive, Rechecked, In, Deliver, Enter, CallErr
  <2>2. /\ seen => failure
        /\ phase = "recheck" => sessionDone
        /\ trouble # {} => harm # "none"
    BY DEF ClientIInv, Telling, Places, Caused
  <2>3. lib = "down" /\ ~sessionDone => harm # "none"
    <3> SUFFICES ASSUME lib = "down", ~sessionDone, harm = "none" PROVE FALSE
      OBVIOUS
    <3>1. startup # "run" /\ closing
      BY <1>1 DEF ClientIInv, Caused, Cause, Socket, Connecting, Aborted
    <3>2. at[Closer] # "asleep"
      BY <1>1, <3>1 DEF ClientIInv, Claims
    <3>3. adapterDone
      BY <3>2 DEF ClientIInv, Places, Cancelled
    <3> QED BY <1>1, <3>1, <3>3 DEF ClientIInv, Telling, Caused
  <2>4. Session!NextReturns
    BY <1>1, <1>2, <2>1, <2>2, <2>3 DEF Session!NextReturns
  <2> QED BY <2>4 DEF Session!SessionNext
<1> QED BY <1>3, <1>4

LEMMA OpeningRefines ==
  ASSUME ClientIInv, Opening
  PROVE  [Session!SessionNext]_Session!sessionVars
<1>1. UNCHANGED <<sessionDone, harm, failure, notified, got>>
  BY DEF Opening, Dial, DialFails, Handshake, Connected, Subscribe, Flush, Opened, CallErr,
         Enter, butMain, ctxVars, libVars, latchVars, sockVars, frameVars
<1>2. Told' = Told
  BY <1>1 DEF Told
<1>3. CASE Opened /\ phase' = "open"
  <2>1. phase = "check" /\ ~seen
    BY <1>3 DEF Opened, In, Enter
  <2>2. failure => harm # "none"
    BY <2>1 DEF ClientIInv, Caused, Socket, Connecting, Aborted
  <2>3. Life = "opening" /\ Life' = "open"
    BY <1>3, <2>1 DEF Life
  <2>4. Session!OpenReturns
    BY <1>1, <1>2, <2>2, <2>3 DEF Session!OpenReturns
  <2> QED BY <2>4 DEF Session!SessionNext
<1>4. CASE ~(Opened /\ phase' = "open")
  <2>1. /\ phase \in {"dial", "handshake", "connected", "subscribe", "flush", "check"}
        /\ phase' \in {"handshake", "connected", "subscribe", "flush", "check", "abort"}
    BY <1>4 DEF Opening, Dial, DialFails, Handshake, Connected, Subscribe, Flush, Opened,
       CallErr, Enter, In
  <2>2. Life' = Life
    BY <2>1 DEF Life
  <2> QED BY <1>1, <2>2, HiddenStep
<1> QED BY <1>3, <1>4

(* When Close returns, early trouble has been latched. *)
LEMMA CloseReturnsRefines ==
  ASSUME ClientIInv, CloseReturns
  PROVE  [Session!SessionNext]_Session!sessionVars
<1>1. /\ UNCHANGED <<sessionDone, harm, failure, notified, got>> /\ at[Main] = "idle"
      /\ \/ phase = "aborting" /\ phase' = "failed"
         \/ phase = "closing" /\ phase' = "closed"
  BY DEF CloseReturns, Enter, latchVars
<1>2. Told' = Told
  BY <1>1 DEF Told
<1>3. CASE phase = "aborting"
  <2>1. Life = "opening" /\ Life' = "failed"
    BY <1>1, <1>3 DEF Life
  <2>2. Session!OpenReturns
    BY <1>1, <1>2, <2>1 DEF Session!OpenReturns
  <2> QED BY <2>2 DEF Session!SessionNext
<1>4. CASE phase = "closing"
  <2>1. Life = "open" /\ Life' = "closed"
    BY <1>1, <1>4 DEF Life
  <2>2. socketDone = "closed"
    <3>1. at[Main] # "wait" /\ ~(Main \in claimed)
      BY <1>1 DEF ClientIInv, Claims
    <3> QED BY <1>4, <3>1 DEF ClientIInv, Claims
  <2>3. harm = "early" => failure
    BY <1>4, <2>2 DEF ClientIInv, Asked, Serving
  <2>4. Session!CloseReturns
    BY <1>1, <1>2, <2>1, <2>3 DEF Session!CloseReturns
  <2> QED BY <2>4 DEF Session!SessionNext
<1> QED BY <1>1, <1>3, <1>4

LEMMA MainRefines ==
  ASSUME ClientIInv, MainStep
  PROVE  [Session!SessionNext]_Session!sessionVars
<1>1. CASE Opening
  BY <1>1, OpeningRefines
<1>2. CASE Reading
  BY <1>2, NextRefines
<1>3. CASE CloseReturns
  BY <1>3, CloseReturnsRefines
<1>4. CASE CallNext \/ (In("open") /\ CallErr("open")) \/ CloseSession \/ CallClose
  <2>1. /\ UNCHANGED <<sessionDone, harm, failure, notified, got>>
        /\ \/ phase = "open" /\ phase' \in {"open", "next", "close"}
           \/ phase = "abort" /\ phase' = "aborting"
           \/ phase = "close" /\ phase' = "closing"
    BY <1>4 DEF CallNext, In, CallErr, CloseSession, CallClose, CloseSocket, Enter, butMain,
       ctxVars, libVars, latchVars
  <2>2. Life' = Life
    BY <2>1 DEF Life
  <2> QED BY <2>1, <2>2, HiddenStep
<1> QED BY <1>1, <1>2, <1>3, <1>4 DEF MainStep

(* The adapter is a session: however its goroutines interleave, one        *)
(* failure is latched and told, its own close is never one, Next fails for *)
(* a reason, and early trouble is latched when Close returns (client).     *)
THEOREM ClientImplementsSession == ClientSpec => ImplementsSession
<1>1. ClientInit => Session!SessionInit
  BY DEF ClientInit, Session!SessionInit, Life, Told
<1>2. ClientIInv /\ [ClientNext]_clientVars => [Session!SessionNext]_Session!sessionVars
  <2> SUFFICES ASSUME ClientIInv, [ClientNext]_clientVars
               PROVE  [Session!SessionNext]_Session!sessionVars
    OBVIOUS
  <2>1. CASE \E t \in Threads : Method(t) \/ Notify(t)
    BY <2>1, MethodRefines
  <2>2. CASE CloserWakes \/ Dispatch \/ StartupEnds \/ UNCHANGED clientVars
    <3>1. UNCHANGED <<sessionDone, harm, failure, notified, phase, got>>
      BY <2>2 DEF CloserWakes, CloseSocket, Dispatch, StartupEnds, clientVars, butMain,
         ctxVars, libVars, latchVars, mainVars
    <3> QED BY <3>1, SamePhase, HiddenStep
  <2>3. CASE SessionEnds
    <3>1. /\ ~sessionDone /\ sessionDone' = TRUE
          /\ UNCHANGED <<harm, failure, notified, phase, got>>
      BY <2>3 DEF SessionEnds, libVars, latchVars, mainVars
    <3>2. Life' = Life /\ Told' = Told
      BY <3>1, SamePhase DEF Told
    <3> QED BY <3>1, <3>2 DEF Session!SessionEnds, Session!SessionNext
  <2> QED BY <2>1, <2>2, <2>3, MainRefines, LibraryRefines DEF ClientNext
<1> QED BY <1>1, <1>2, ClientInvariant, PTL DEF ClientSpec, ImplementsSession, Session!SessionSpec
=============================================================================
