---------------------------- MODULE NatsObserve ----------------------------
(***************************************************************************)
(* One native observation: runNATS and runNATSWithRenderer (run/nats.go)   *)
(* below Run or Execute (run/run.go).  Main prepares, opens a session,     *)
(* receives, renders and writes events and returns an exit status; the     *)
(* session timer, the signal handler, the parent context, the session's    *)
(* failure callback and the watchdog act between any two of its steps.     *)
(* Composes the stop owner (NatsStop) with a session (NatsSession).        *)
(***************************************************************************)
EXTENDS NatsStop, NatsSession

CONSTANTS Session,      \* the goroutine of the session timer
          Signals,      \* the goroutine of the signal handler
          Adapter,      \* the goroutine that calls onFailure
          Mishaps,      \* what may go wrong in the process itself
          Count,        \* n.count, 0 for no limit
          MaxMessages   \* bound: messages that Next returns

AllMishaps == {"prepare", "open", "ready", "payload", "write", "report"}

ASSUME ObserveAssumption ==
  /\ {Session, Signals, Adapter} \subseteq Callers \ {Main, Watcher}
  /\ Mishaps \subseteq AllMishaps
  /\ Count \in Nat /\ MaxMessages \in Nat

VARIABLES
  step,        \* where Main is, see Steps
  seen,        \* Main's last session.Err() returned a failure
  clock,       \* n.duration: "unset", "running", "out"
  deadline,    \* the session timer: "unset", "set", "run", "stopped"
  interrupted, \* the process has received an interrupt
  ready, admitted, emitted, unfinished,
  data,        \* render returned an event: it matched
  tail,        \* the end of stdout: "whole" or "partial"
  mishap,      \* something has gone wrong in the process
  status,      \* the exit status Main is going to return
  exited       \* the exit status Main returned, NoExit before

eventVars == <<ready, admitted, emitted, unfinished, data, tail>>
timeVars  == <<clock, deadline, interrupted>>
exitVars  == <<mishap, status, exited>>
obsVars   == <<step, seen, timeVars, eventVars, exitVars>>
vars      == <<stopVars, sessionVars, obsVars>>

Steps == {"prepare", "open", "opened", "rewrite", "loop", "err", "next",
          "nextErr", "render", "renderErr", "write", "writing", "done",
          "lastErr", "decide", "default", "cancel", "duration", "close", "closeErr", "report", "execute",
          "finish", "exit", "over"}

TypeOK ==
  /\ StopTypeOK
  /\ step \in Steps
  /\ clock \in {"unset", "running", "out"}
  /\ deadline \in {"unset", "set", "run", "stopped"}
  /\ life \in {"opening", "open", "failed", "closed"}
  /\ harm \in {"none", "late", "early"} /\ told \in {"no", "due", "yes"}
  /\ got \in Results
  /\ {sessionDone, failure, seen, interrupted, ready, unfinished, data, mishap}
       \subseteq BOOLEAN
  /\ admitted \in Nat /\ emitted \in Nat /\ tail \in {"whole", "partial"}
  /\ {status, exited} \subseteq {NoExit, 0, 1, 130}

Init ==
  /\ StopInit /\ SessionInit
  /\ step = "prepare" /\ clock = "unset" /\ deadline = "unset"
  /\ seen = FALSE /\ interrupted = FALSE /\ ready = FALSE
  /\ unfinished = FALSE /\ data = FALSE /\ mishap = FALSE
  /\ admitted = 0 /\ emitted = 0 /\ tail = "whole"
  /\ status = NoExit /\ exited = NoExit

(* Main is at s, in no call of the stop owner, and goes on. *)
At(s)   == step = s /\ Free(Main)
GoTo(s) == step' = s

(* What else a step of Main leaves alone, by what it is about. *)
AboutStop    == UNCHANGED <<sessionVars, seen, timeVars, eventVars, exitVars>>
AboutSession == UNCHANGED <<stopVars, timeVars, eventVars, exitVars>>
AboutEvent   == UNCHANGED <<sessionVars, seen, timeVars, exitVars>>
AboutExit    == UNCHANGED <<sessionVars, seen, timeVars, eventVars>>

Pass(s)  == GoTo(s) /\ UNCHANGED stopVars /\ AboutStop

(* break, after a failure that a normal completion must not hide. *)
Break == Incomplete(Main) /\ GoTo("lastErr") /\ AboutStop

(* Something in the process goes wrong, if it may. *)
GoesWrong(what) == what \in Mishaps /\ mishap' = TRUE /\ UNCHANGED <<status, exited>>

BreakOn(what) == GoesWrong(what) /\ Incomplete(Main) /\ GoTo("lastErr") /\ AboutExit

(* session.Err(): the session may be about to find its failure (Latch).    *)
Err(s) == seen' = failure /\ GoTo(s) /\ UNCHANGED sessionVars /\ AboutSession

-----------------------------------------------------------------------------
(* runNATS: local preparation, outside the session timer. *)
PrepareFails ==
  /\ At("prepare")
  /\ \/ /\ ctxDone \/ parent = "cancelled"
        /\ status' = 130 /\ UNCHANGED <<mishap, exited>>
     \/ "prepare" \in Mishaps
        /\ status' = 1 /\ mishap' = TRUE /\ UNCHANGED exited
  /\ GoTo("execute")
  /\ UNCHANGED stopVars /\ AboutExit

(* Execute makes its owner only now, with the parent as it is. *)
Prepare ==
  /\ At("prepare")
  /\ IF parent = "cancelled" THEN Request(Main, "cancel") ELSE UNCHANGED stopVars
  /\ clock' = "running" /\ deadline' = "set"
  /\ GoTo("open")
  /\ UNCHANGED <<sessionVars, seen, interrupted, eventVars, exitVars>>

Open ==
  /\ At("open")
  /\ OpenReturns
  /\ mishap' = (mishap \/ (life' = "failed" /\ ~sessionDone /\ harm = "none"))
  /\ mishap' # mishap => "open" \in Mishaps
  /\ GoTo("opened")
  /\ UNCHANGED <<stopVars, seen, timeVars, eventVars, status, exited>>

OpenFailed == /\ At("opened") /\ life = "failed"
              /\ Request(Main, "failure")
              /\ GoTo("rewrite") /\ AboutStop

RewriteVerdict == At("rewrite") /\ Override /\ GoTo("decide") /\ AboutStop

(* The readiness diagnostic may fail. *)
Ready ==
  /\ At("opened") /\ life = "open"
  /\ ready' = TRUE
  /\ \/ UNCHANGED <<stopVars, exitVars>>
     \/ GoesWrong("ready") /\ Incomplete(Main)
  /\ GoTo("loop")
  /\ UNCHANGED <<sessionVars, seen, timeVars, admitted, emitted, unfinished,
                 data, tail>>

-----------------------------------------------------------------------------
(* The receive loop. *)
Loop == At("loop") /\ IF sessionDone THEN Pass("lastErr") ELSE Err("err")

Next1 == /\ At("err")
         /\ IF seen THEN Break
            ELSE /\ NextReturns
                 /\ got' \in {"message", "empty"} => admitted < MaxMessages
                 /\ GoTo("next") /\ UNCHANGED seen /\ AboutSession

(* Whatever Next returned, a failure of the session comes first. *)
Returned == At("next") /\ Err("nextErr")

Admit(s) == /\ admitted' = admitted + 1 /\ unfinished' = TRUE
            /\ GoTo(s)
            /\ UNCHANGED <<sessionVars, seen, timeVars, ready, emitted, data,
                           tail, status, exited>>

(* What Next returned when the loop was told to stop; what is a failure.   *)
BugCancelledGoesOn(r) == r \in {"message", "exhausted"} /\ sessionDone
Stopped(r) == r = "cancelled" \/ (r \in {"message", "exhausted"} /\ sessionDone)

Broken(r) == r \in {"failed", "broken"}

Received ==
  /\ At("nextErr")
  /\ \/ seen /\ Break
     \/ ~seen /\ Stopped(got) /\ Pass("lastErr")
     \/ ~seen /\ Broken(got) /\ Break
     \/ ~seen /\ got = "empty"
        /\ Admit("lastErr") /\ Incomplete(Main) /\ mishap' = TRUE
     \/ ~seen /\ ~Stopped(got) /\ got = "exhausted"
        /\ Request(Main, "exhaustion") /\ GoTo("lastErr") /\ AboutStop
     \/ ~seen /\ ~Stopped(got) /\ got = "message"
        /\ Admit("render") /\ UNCHANGED <<stopVars, mishap>>

(* Decode, filter and project: a match, a nonmatch, an error, or stopped;  *)
(* then the session is asked again.                                        *)
Render ==
  /\ At("render")
  /\ \/ /\ data' \in BOOLEAN /\ seen' = failure
        /\ GoTo("renderErr")
        /\ UNCHANGED <<stopVars, sessionVars, timeVars, ready, admitted,
                       emitted, unfinished, tail, exitVars>>
     \/ BreakOn("payload")
     \/ sessionDone /\ Pass("lastErr")

Rendered == /\ At("renderErr")
            /\ IF seen THEN Break
               ELSE Pass(IF sessionDone THEN "lastErr"
                         ELSE IF data THEN "write" ELSE "done")

Output(s, t, n) == /\ tail' = t /\ emitted' = n /\ GoTo(s)
                   /\ UNCHANGED <<ready, admitted, unfinished, data>>
                   /\ UNCHANGED stopVars /\ AboutEvent

(* natsWriter asks for the context before every part of an event. *)
Write ==
  \/ /\ At("write")
     /\ IF sessionDone THEN Pass("lastErr") ELSE Output("writing", "partial", emitted)
  \/ /\ At("writing")
     /\ \/ Output("done", "whole", emitted + 1)
        \/ sessionDone /\ Break
        \/ BreakOn("write")

CountReached == Count > 0 /\ admitted >= Count

EventDone ==
  /\ At("done")
  /\ unfinished' = FALSE
  /\ IF CountReached THEN Request(Main, "count") /\ GoTo("lastErr")
                     ELSE UNCHANGED stopVars /\ GoTo("loop")
  /\ UNCHANGED <<ready, admitted, emitted, data, tail>> /\ AboutEvent

Receiving == Loop \/ Next1 \/ Returned \/ Received \/ Render \/ Rendered
             \/ Write \/ EventDone

-----------------------------------------------------------------------------
(* After the loop: one more look at the session, *)
LastErr == /\ At("lastErr")
           /\ IF failure THEN Incomplete(Main) ELSE UNCHANGED stopVars
           /\ GoTo("decide") /\ AboutStop

(* a reason if nobody gave one: stop.result is read, then the context of   *)
(* the caller, then a stop is asked for, and others may come in between.   *)
CleanUp == IF life = "open" THEN "close" ELSE "report"

BugMisspelled == IF parent = "cancelled" THEN "cancelled" ELSE "duration"
DefaultReason == IF parent = "cancelled" THEN "cancel" ELSE "duration"

Decide ==
  \/ At("decide") /\ Pass(IF reason = "" THEN "default" ELSE CleanUp)
  \/ At("default") /\ Pass(DefaultReason)
  \/ \E why \in {"cancel", "duration"} :
       At(why) /\ Request(Main, why) /\ GoTo(CleanUp) /\ AboutStop

(* the deliberate close and the failure it captured, *)
Close == /\ At("close")
         /\ CloseReturns
         /\ GoTo("closeErr") /\ UNCHANGED seen /\ AboutSession

BugNoCheckAfterClose == At("closeErr") /\ Pass("report")
CloseErr == /\ At("closeErr")
            /\ IF failure THEN Incomplete(Main) ELSE UNCHANGED stopVars
            /\ GoTo("report") /\ AboutStop

(* the outcome and its diagnostic, which may fail. *)
Outcome == IF ~ready /\ CodeOf(reason) = 0 THEN 1 ELSE CodeOf(reason)

Report ==
  /\ At("report")
  /\ \/ status' = Outcome /\ UNCHANGED mishap
     \/ "report" \in Mishaps /\ mishap' = TRUE
        /\ status' = IF Outcome = 0 THEN 1 ELSE Outcome
  /\ deadline' = IF deadline = "set" THEN "stopped" ELSE deadline
  /\ GoTo("execute")
  /\ UNCHANGED <<stopVars, sessionVars, seen, clock, interrupted, eventVars,
                 exited>>

(* execute asks for a stop when the command failed. *)
Execute == /\ At("execute")
           /\ IF hook /\ status # 0 THEN Request(Main, "failure")
                                    ELSE UNCHANGED stopVars
           /\ GoTo("finish") /\ AboutStop

MainRuns == PrepareFails \/ Prepare \/ Open \/ OpenFailed \/ RewriteVerdict
            \/ Ready \/ Receiving \/ LastErr \/ Decide \/ Close \/ CloseErr
            \/ Report \/ Execute

(* What Main does from finish on cannot block. *)
Leaving == \/ At("finish") /\ Finish /\ GoTo("exit") /\ AboutStop
           \/ finished /\ CancelCtx(Main) /\ UNCHANGED <<sessionVars, obsVars>>
           \/ /\ At("exit") /\ exited' = status /\ GoTo("over")
              /\ UNCHANGED <<stopVars, mishap, status>> /\ AboutExit

-----------------------------------------------------------------------------
(* The others, in a process that has not exited. *)
Running == killed = NoExit /\ exited = NoExit

(* n.duration passes, for the context and for the timer. *)
TimePasses == /\ Running /\ clock = "running" /\ clock' = "out"
              /\ UNCHANGED <<stopVars, sessionVars, step, seen, deadline,
                             interrupted, eventVars, exitVars>>

SessionStops == /\ Running /\ clock # "unset" /\ (ctxDone \/ clock = "out")
                /\ SessionEnds
                /\ UNCHANGED <<stopVars, obsVars>>

DeadlineFires == /\ Running /\ clock = "out" /\ deadline = "set"
                 /\ Request(Session, "duration")
                 /\ deadline' = "run"
                 /\ UNCHANGED <<sessionVars, step, seen, clock, interrupted,
                                eventVars, exitVars>>

(* natsSignals, in a process only. *)
Interrupt == /\ Running /\ hook
             /\ Request(Signals, "cancel")
             /\ interrupted' = TRUE
             /\ UNCHANGED <<sessionVars, step, seen, clock, deadline, eventVars,
                            exitVars>>

(* The callback given to open is stop.incomplete. *)
OnFailure == /\ Running /\ Tell /\ Incomplete(Adapter)
             /\ UNCHANGED obsVars

SessionFails == /\ Running /\ clock # "unset" /\ Latch
                /\ UNCHANGED <<stopVars, obsVars>>

SessionSuffers == /\ Running /\ clock # "unset" /\ Suffer
                  /\ UNCHANGED <<stopVars, obsVars>>

OwnerRuns(c) == /\ Running
                /\ IncompleteRequest(c) \/ (~(c = Main /\ finished) /\ CancelCtx(c))
                /\ UNCHANGED <<sessionVars, obsVars>>

WatchdogRuns == Running /\ Watchdog /\ UNCHANGED <<sessionVars, obsVars>>

ParentRuns == /\ Running
              /\ \/ ParentCancel
                 \/ step # "prepare" /\ (Propagate \/ WatcherRuns)
              /\ UNCHANGED <<sessionVars, obsVars>>

Next == MainRuns \/ Leaving \/ TimePasses \/ SessionStops \/ DeadlineFires
        \/ Interrupt \/ OnFailure \/ SessionFails \/ SessionSuffers \/ WatchdogRuns
        \/ ParentRuns \/ \E c \in Callers : OwnerRuns(c)

Spec == Init /\ [][Next]_vars

(* Open and Next wait for the server, and are only known to return when    *)
(* the session is over.                                                    *)
Prompt == step \in {"open", "err"} => sessionDone \/ seen

(* Timers fire, the watchdog's callback runs, and Main does not block once *)
(* it finished.  Before that it may block for ever, in a write, in a       *)
(* query, in the library, in a process; a host calls Execute with writers  *)
(* that return, and there the session's close captures what it has to.     *)
FairSpec == /\ Spec
            /\ WF_vars(WatchdogRuns) /\ WF_vars(DeadlineFires) /\ WF_vars(Leaving)
            /\ WF_vars(~hook /\ Prompt /\ MainRuns) /\ WF_vars(~hook /\ TimePasses)
            /\ \A c \in Callers : WF_vars(~hook /\ OwnerRuns(c))
            /\ WF_vars(~hook /\ SessionStops)
            /\ WF_vars(~hook /\ harm = "early" /\ SessionFails)

Over == ~Running

-----------------------------------------------------------------------------
(* --count limits admitted messages, whatever they turn out to be, and a   *)
(* count stop leaves no admitted event unfinished (EventDone).             *)
CountLimits == /\ Count > 0 => admitted <= Count
               /\ reason = "count" => admitted = Count /\ ~unfinished

(* Status 0 is earned: the session was ready, nothing cancelled it, a      *)
(* failure that it does not show came from trouble after the stop, and     *)
(* only the deadline may have cut off an event.                            *)
SuccessIsEarned ==
  exited = 0 => /\ ready /\ reason # "cancel"
                /\ reason = "failure" => harm = "late"
                /\ unfinished \/ tail = "partial" => reason \notin {"count", "exhaustion"}

(* "Already detected fatal errors are not erased by duration success"      *)
(* (docs/modes/nats.md): trouble that came before anything stopped the     *)
(* session reaches the exit status, however the timer interleaves with the *)
(* two halves of incomplete.                                               *)
TroubleIsReported == harm = "early" => exited # 0

(* Nothing but an interrupt or the caller's context makes 130. *)
CancelIsGenuine == 130 \in {exited, killed} => interrupted \/ parent = "cancelled"

(* A ready observation in which nothing went wrong, and that was not cut   *)
(* off in the middle of an event, never returns 1: stopping is no failure. *)
FailureIsGenuine == exited = 1 /\ ready => harm # "none" \/ mishap \/ tail = "partial"

(* What the status says, in short (Execute). *)
StatusIsHonest == /\ CountLimits /\ SuccessIsEarned /\ TroubleIsReported
                  /\ CancelIsGenuine /\ FailureIsGenuine

(* The process is gone after the cleanup allowance that starts with the    *)
(* first stop request or the end of the duration, wherever Main blocks.    *)
StopBounded == (hook /\ (reason # "" \/ clock = "out")) ~> Over

(* Execute returns once the duration is over if nothing but the server     *)
(* blocks for ever: what ends the wait for it is the session's context.    *)
Returns == (~hook /\ clock = "running") ~> Over

(* Both: an observation that should end ends, in a process and in Execute. *)
ObservationEnds == StopBounded /\ Returns

(* "Once emission starts, an incomplete record is a failure"               *)
(* (docs/modes/nats.md).                                                   *)
TruncationFails == exited = 0 => tail = "whole"
=============================================================================
