----------------------------- MODULE NatsClient -----------------------------
(***************************************************************************)
(* The adapter around the NATS client library (natsinspect/client.go): the *)
(* startup barrier, the failure latch, the deliberate close of the raw     *)
(* socket and the reads of one subscription.                               *)
(*                                                                         *)
(* Main opens, checks, reads and closes; Closer waits for the context and  *)
(* closes the socket; Dispatcher runs the library's callbacks.  Err, fail  *)
(* and closeSocket release the mutex on the way, so at[t] is the next      *)
(* statement of goroutine t in them.  The library is external: it is what  *)
(* the adapter can observe of it.                                          *)
(***************************************************************************)
EXTENDS Integers, Sequences, NatsMain

CONSTANTS Closer, Dispatcher,  \* its goroutines, besides Main
          PendingMessages,  \* capacity of the subscription
          Faults            \* what may go wrong outside the adapter

Threads == {Main, Closer, Dispatcher}

AllFaults == {"refused", "expiry", "rejected", "permission", "disconnect",
              "overflow"}

ASSUME ClientAssumption == /\ PendingMessages \in Nat \ {0}
                           /\ Faults \subseteq AllFaults
                           /\ Main # Closer /\ Main # Dispatcher
                           /\ Closer # Dispatcher

VARIABLES
  sessionDone,  \* the context given to open is done
  adapterDone,  \* c.cancel() was called
  startup,      \* AfterFunc(connect, socket.close): "set", "run", "stopped"
  conn,         \* the raw socket: "none", "open", "shut"
  sockClosed,   \* socket.closed
  lib,          \* the library's connection: "none", "up", "down"
  trouble,      \* what LastError and Dropped report
  callbacks,    \* callbacks queued by the library
  pending,      \* messages buffered for the subscription
  nc,           \* c.nc is published
  failure,      \* c.failure # nil
  closing,      \* c.closing
  socketDone,   \* c.socketDone: "nil", "made", "closed"
  notified,     \* calls of onFailure
  phase,        \* where Main is, see Phases
  at,           \* the next statement of each goroutine
  claimed,      \* the goroutines that own the close of the socket
  seen,         \* Main's last Err returned a failure
  got,          \* what Main's last Next returned
  harm          \* trouble from outside: "none", or found "late" or "early"

ctxVars    == <<sessionDone, adapterDone, startup>>
sockVars   == <<conn, sockClosed>>
libVars    == <<lib, trouble, callbacks, pending, harm>>
latchVars  == <<nc, failure, closing, socketDone, notified>>
mainVars   == <<phase, seen, got>>
frameVars  == <<at, claimed>>
butMain    == <<ctxVars, sockVars, libVars, latchVars, frameVars>>
butAt      == <<ctxVars, sockVars, libVars, latchVars, mainVars, claimed>>
clientVars == <<butMain, mainVars>>

Phases == {"dial", "handshake", "connected", "subscribe", "flush", "check",
           "open", "next", "receive", "recheck", "abort", "aborting", "failed",
           "close", "closing", "closed"}

Statements == {"asleep", "idle", "err", "probe", "fail", "latch", "notify",
               "cancel", "reread", "mark", "shut", "wait"}

Results == {"none", "message", "empty", "cancelled", "failed", "broken"}

ClientTypeOK ==
  /\ {sessionDone, adapterDone, sockClosed, nc, failure, closing, seen}
       \subseteq BOOLEAN
  /\ startup \in {"set", "run", "stopped"}
  /\ conn \in {"none", "open", "shut"} /\ lib \in {"none", "up", "down"}
  /\ trouble \subseteq {"error", "dropped"}
  /\ callbacks \in Seq({"async", "disconnected", "closed"})
  /\ pending \in 0..PendingMessages
  /\ socketDone \in {"nil", "made", "closed"}
  /\ notified \in Nat
  /\ phase \in Phases /\ got \in Results
  /\ at \in [Threads -> Statements] /\ claimed \subseteq Threads
  /\ harm \in {"none", "late", "early"}

ClientInit ==
  /\ sessionDone = FALSE /\ adapterDone = FALSE /\ startup = "set"
  /\ conn = "none" /\ sockClosed = FALSE
  /\ lib = "none" /\ trouble = {} /\ callbacks = <<>> /\ pending = 0
  /\ harm = "none"
  /\ nc = FALSE /\ failure = FALSE /\ closing = FALSE /\ socketDone = "nil"
  /\ notified = 0
  /\ phase = "dial" /\ seen = FALSE /\ got = "none"
  /\ at = [t \in Threads |-> IF t = Closer THEN "asleep" ELSE "idle"]
  /\ claimed = {}

Cancelled   == sessionDone \/ adapterDone
ConnectDone == Cancelled \/ startup = "run"

Step(t, from, to) == at[t] = from /\ at' = [at EXCEPT ![t] = to]

(* Main is in the given phase and in none of the methods below. *)
In(p)    == phase = p /\ at[Main] = "idle"
Enter(p) == phase' = p /\ UNCHANGED <<seen, got>>

-----------------------------------------------------------------------------
(* Err returns; closeSocket goes on where it called it. *)
Return(t) == /\ at' = [at EXCEPT ![t] = IF t \in claimed THEN "mark" ELSE "idle"]
             /\ seen' = IF t = Main /\ t \notin claimed THEN failure ELSE seen
             /\ UNCHANGED <<phase, got, claimed, ctxVars, sockVars, libVars,
                            latchVars>>

(* Err: the snapshot under the mutex, *)
Snapshot(t) ==
  /\ at[t] = "err"
  /\ IF failure \/ closing \/ ~nc
       THEN Return(t)
       ELSE /\ at' = [at EXCEPT ![t] = "probe"]
            /\ UNCHANGED butAt

(* the questions to the library without it, *)
Probe(t) ==
  /\ Step(t, "probe", IF lib = "down" \/ trouble # {} THEN "fail" ELSE "reread")
  /\ UNCHANGED butAt

(* and the result under the mutex again. *)
Reread(t) == at[t] = "reread" /\ Return(t)

AfterFail(t) == IF t = Dispatcher THEN "idle" ELSE "reread"

(* fail keeps the first failure; one that the close itself can cause does  *)
(* not count any more once the close is marked.                            *)
BugTeardownCounts(teardown) == ~failure
Fresh(teardown) == ~failure /\ (~teardown \/ ~closing)

Fail(t) ==
  \E teardown \in BOOLEAN :
    /\ Step(t, IF teardown THEN "fail" ELSE "latch",
            IF Fresh(teardown) THEN "notify" ELSE AfterFail(t))
    /\ failure' = (failure \/ Fresh(teardown))
    /\ UNCHANGED <<nc, closing, socketDone, notified, claimed, ctxVars,
                   sockVars, libVars, mainVars>>

(* onFailure is called without the mutex, before the context is cancelled. *)
Notify(t) ==
  /\ Step(t, "notify", "cancel")
  /\ notified' = notified + 1
  /\ UNCHANGED <<nc, failure, closing, socketDone, claimed, ctxVars, sockVars,
                 libVars, mainVars>>

CancelAdapter(t) ==
  /\ Step(t, "cancel", AfterFail(t))
  /\ adapterDone' = TRUE
  /\ UNCHANGED <<sessionDone, startup, claimed, sockVars, libVars, latchVars,
                 mainVars>>

(* closeSocket: the first caller owns the close, the others wait for it. *)
CloseSocket(t) ==
  /\ IF socketDone = "nil"
       THEN /\ at' = [at EXCEPT ![t] = "err"]
            /\ socketDone' = "made"
            /\ claimed' = claimed \cup {t}
       ELSE /\ at' = [at EXCEPT ![t] = "wait"]
            /\ UNCHANGED <<socketDone, claimed>>
  /\ UNCHANGED <<nc, failure, closing, notified, ctxVars, sockVars, libVars>>

Wait(t) ==
  /\ socketDone = "closed"
  /\ Step(t, "wait", "idle")
  /\ UNCHANGED butAt

Mark(t) ==
  /\ Step(t, "mark", "shut")
  /\ closing' = TRUE
  /\ UNCHANGED <<nc, failure, socketDone, notified, claimed, ctxVars, sockVars,
                 libVars, mainVars>>

(* socketOwner.close: a connection that is registered is closed. *)
CloseConn == sockClosed' = TRUE /\ conn' = IF conn = "open" THEN "shut" ELSE conn

BugDoneNeverClosed(t) ==
  /\ Step(t, "shut", "idle")
  /\ CloseConn
  /\ claimed' = claimed \ {t}
  /\ UNCHANGED <<nc, failure, closing, socketDone, notified, ctxVars, libVars,
                 mainVars>>
Shut(t) ==
  /\ Step(t, "shut", "idle")
  /\ CloseConn
  /\ socketDone' = "closed"
  /\ claimed' = claimed \ {t}
  /\ UNCHANGED <<nc, failure, closing, notified, ctxVars, libVars, mainVars>>

(* Everything but Notify, which reaches into the stop owner. *)
Method(t) == \/ Snapshot(t) \/ Probe(t) \/ Reread(t) \/ Fail(t)
             \/ CancelAdapter(t) \/ Wait(t) \/ Mark(t) \/ Shut(t)

CloserWakes == Cancelled /\ at[Closer] = "asleep" /\ CloseSocket(Closer)
               /\ UNCHANGED mainVars

(* AsyncErrorCB latches; DisconnectedErrCB and ClosedCB may be our doing. *)
Dispatch ==
  /\ callbacks # <<>>
  /\ Step(Dispatcher, "idle", IF Head(callbacks) = "async" THEN "latch" ELSE "fail")
  /\ callbacks' = Tail(callbacks)
  /\ UNCHANGED <<lib, trouble, pending, harm, claimed, ctxVars, sockVars,
                 latchVars, mainVars>>

-----------------------------------------------------------------------------
(* connectConfigured.  socketOwner.Dial registers a connection unless the  *)
(* owner was closed while it was dialling; then it closes it itself.       *)
BugRegisterAnyway == FALSE
TooLate == sockClosed \/ ConnectDone

Dial ==
  /\ In("dial")
  /\ conn' = IF TooLate THEN "shut" ELSE "open"
  /\ Enter(IF TooLate THEN "connected" ELSE "handshake")
  /\ UNCHANGED <<sockClosed, ctxVars, libVars, latchVars, frameVars>>

DialFails ==
  /\ In("dial")
  /\ ConnectDone \/ "refused" \in Faults
  /\ Enter("connected")
  /\ UNCHANGED butMain

(* The library's INFO/TLS/CONNECT exchange over the registered socket. *)
Handshake ==
  /\ In("handshake")
  /\ \/ conn = "open" /\ lib' = "up"
     \/ (conn = "shut" \/ "refused" \in Faults) /\ UNCHANGED lib
  /\ Enter("connected")
  /\ UNCHANGED <<trouble, callbacks, pending, harm, ctxVars, sockVars,
                 latchVars, frameVars>>

(* Connect has returned: disarm the allowance, then publish the pointer. *)
Accepted == lib # "none" /\ startup = "set" /\ ~Cancelled

Connected ==
  /\ In("connected")
  /\ startup' = IF startup = "set" THEN "stopped" ELSE startup
  /\ nc' = (lib # "none")
  /\ Enter(IF Accepted THEN "subscribe" ELSE "abort")
  /\ UNCHANGED <<sessionDone, adapterDone, failure, closing, socketDone,
                 notified, sockVars, libVars, frameVars>>

(* The connect allowance ends, or its context is cancelled. *)
StartupEnds ==
  /\ startup = "set" /\ (Cancelled \/ "expiry" \in Faults)
  /\ startup' = "run"
  /\ CloseConn
  /\ UNCHANGED <<sessionDone, adapterDone, libVars, latchVars, mainVars,
                 frameVars>>

(* openConfigured: subscribe, wait for the PING/PONG barrier, *)
Subscribe ==
  /\ In("subscribe")
  /\ \/ lib = "up" /\ Enter("flush")
     \/ (lib = "down" \/ "rejected" \in Faults) /\ Enter("abort")
  /\ UNCHANGED butMain

CallErr(p) == /\ at' = [at EXCEPT ![Main] = "err"]
              /\ Enter(p)
              /\ UNCHANGED <<claimed, ctxVars, sockVars, libVars, latchVars>>

Flush ==
  /\ In("flush")
  /\ \/ lib = "up" /\ CallErr("check")
     \/ /\ lib = "down" \/ sessionDone \/ "expiry" \in Faults
        /\ Enter("abort")
        /\ UNCHANGED butMain

(* and ask for a failure and for the context once more. *)
Opened ==
  /\ In("check")
  /\ Enter(IF seen \/ sessionDone THEN "abort" ELSE "open")
  /\ UNCHANGED butMain

Opening == Dial \/ DialFails \/ Handshake \/ Connected \/ Subscribe \/ Flush
           \/ Opened

-----------------------------------------------------------------------------
(* Next: Err first, then the library's receive. *)
CallNext == In("open") /\ CallErr("next")

Deliver(p, r) == phase' = p /\ got' = r /\ UNCHANGED seen

NextChecked ==
  /\ In("next")
  /\ IF seen THEN Deliver("open", "failed") ELSE Enter("receive")
  /\ UNCHANGED butMain

Receive ==
  /\ In("receive")
  /\ \/ /\ pending > 0 /\ pending' = pending - 1
        /\ \E r \in {"message", "empty"} : Deliver("open", r)
        /\ UNCHANGED <<lib, trouble, callbacks, harm, frameVars, latchVars>>
     \/ /\ \/ sessionDone /\ Deliver("open", "cancelled")
           \/ trouble # {} /\ Deliver("open", "broken")
           \/ lib = "down" /\ ~sessionDone /\ Deliver("open", "broken")
        /\ UNCHANGED <<libVars, frameVars, latchVars>>
     \/ lib = "down" /\ sessionDone /\ CallErr("recheck")
  /\ UNCHANGED <<ctxVars, sockVars>>

(* A receive that broke on our own close is a cancellation. *)
Rechecked ==
  /\ In("recheck")
  /\ Deliver("open", IF seen THEN "failed" ELSE "cancelled")
  /\ UNCHANGED butMain

Reading == NextChecked \/ Receive \/ Rechecked

(* Close, and the same after a failed open. *)
CallClose ==
  /\ at[Main] = "idle" /\ phase \in {"abort", "close"}
  /\ CloseSocket(Main)
  /\ Enter(IF phase = "abort" THEN "aborting" ELSE "closing")

LoseConnection ==
  IF lib = "up" THEN lib' = "down" /\ callbacks' = callbacks \o <<"disconnected", "closed">>
                ELSE UNCHANGED <<lib, callbacks>>

CloseReturns ==
  /\ at[Main] = "idle" /\ phase \in {"aborting", "closing"}
  /\ adapterDone' = TRUE
  /\ IF nc THEN LoseConnection ELSE UNCHANGED <<lib, callbacks>>
  /\ Enter(IF phase = "aborting" THEN "failed" ELSE "closed")
  /\ UNCHANGED <<sessionDone, startup, trouble, pending, harm, sockVars,
                 latchVars, frameVars>>

-----------------------------------------------------------------------------
(* The library and the broker.  Harm is early when it comes before anybody *)
(* stops the session.                                                      *)
Harm == harm' = IF harm = "early" \/ (~Cancelled /\ socketDone = "nil")
                  THEN "early" ELSE "late"

Quiet == UNCHANGED <<ctxVars, sockVars, latchVars, mainVars, frameVars>>

Disconnected ==
  /\ lib = "up"
  /\ \/ conn = "shut" /\ UNCHANGED harm
     \/ conn = "open" /\ "disconnect" \in Faults /\ Harm
  /\ LoseConnection
  /\ UNCHANGED <<trouble, pending>> /\ Quiet

Complain(what) == /\ "error" \notin trouble
                /\ trouble' = trouble \cup what
                /\ callbacks' = Append(callbacks, "async")
                /\ Harm
                /\ UNCHANGED <<lib, pending>>

Denied == lib = "up" /\ "permission" \in Faults /\ Complain({"error"}) /\ Quiet

(* SubChanLen and SetPendingLimits. *)
BugRoomForOneMore == pending > PendingMessages
Full == pending >= PendingMessages

Arrive ==
  /\ lib = "up" /\ phase \in {"flush", "check", "open", "next", "receive"}
  /\ \/ /\ ~Full
        /\ pending' = pending + 1
        /\ UNCHANGED <<lib, trouble, callbacks, harm>>
     \/ /\ Full /\ "overflow" \in Faults
        /\ Complain({"error", "dropped"})
  /\ Quiet

Library == Disconnected \/ Denied \/ Arrive

-----------------------------------------------------------------------------
(* The adapter alone: a session that anybody may stop, and a Main that     *)
(* checks, reads and closes as it likes.                                   *)
SessionEnds == /\ ~sessionDone /\ sessionDone' = TRUE
               /\ UNCHANGED <<adapterDone, startup, sockVars, libVars,
                              latchVars, mainVars, frameVars>>

CloseSession == In("open") /\ Enter("close")
                /\ UNCHANGED butMain

MainStep == Opening \/ CallNext \/ (In("open") /\ CallErr("open")) \/ Reading
            \/ CloseSession \/ CallClose \/ CloseReturns

ClientNext == \/ MainStep
              \/ \E t \in Threads : Method(t) \/ Notify(t)
              \/ CloserWakes \/ Dispatch \/ StartupEnds
              \/ Library \/ SessionEnds

ClientSpec == ClientInit /\ [][ClientNext]_clientVars

(* Goroutines run; callbacks of the library, its I/O and Main need not. *)
FairClientSpec ==
  /\ ClientSpec
  /\ WF_clientVars(CloserWakes) /\ WF_clientVars(CloseReturns)
  /\ \A t \in Threads : WF_clientVars(Method(t) \/ Notify(t))

-----------------------------------------------------------------------------
(* NatsSession, as the adapter implements it. *)
Life == CASE phase = "failed" -> "failed"
          [] phase = "closed" -> "closed"
          [] phase \in {"open", "next", "receive", "recheck", "close", "closing"} -> "open"
          [] OTHER -> "opening"

Told == IF notified > 0 THEN "yes" ELSE IF failure THEN "due" ELSE "no"

Session == INSTANCE NatsSession WITH life <- Life, told <- Told

(* However its goroutines interleave, the adapter tells the stop owner of  *)
(* one failure, never mistakes its own close for a failure, lets Next fail *)
(* only for a reason, and has latched early trouble when Close returns     *)
(* ("capture synchronous errors before marking teardown intentional").     *)
ImplementsSession == Session!SessionSpec

(* Only the first failure is notified, and one that is latched has been or *)
(* is being told, whichever goroutine found it (fail).                     *)
NotifiedOnce == /\ notified <= 1
                /\ failure => notified = 1 \/ \E t \in Threads : at[t] = "notify"

(* A failed open and Close return only with the raw socket closed,         *)
(* whichever goroutine closed it and however late the dial finished.       *)
SocketReleased == phase \in {"failed", "closed"} => conn # "open"

(* What a session owes: one notification, and its socket (closeSocket). *)
EndIsClean == NotifiedOnce /\ SocketReleased

(* Close waits for the goroutine that owns the close and for nothing else. *)
CloseCompletes == (phase \in {"aborting", "closing"}) ~> (phase \in {"failed", "closed"})
=============================================================================
