------------------------------ MODULE NatsStop ------------------------------
(***************************************************************************)
(* natsStop (run/nats_stop.go), the stop owner of one observation: one     *)
(* decision, one cleanup allowance, one context to cancel.  A method holds *)
(* the mutex for a part of its body only; owes[c] is what goroutine c has  *)
(* still to do after it released the mutex.                                *)
(***************************************************************************)
EXTENDS Integers, NatsMain

CONSTANTS Callers,  \* goroutines that call the owner
          Watcher   \* the AfterFunc goroutine of the parent context

ASSUME CallersAssumption == {Main, Watcher} \subseteq Callers /\ Main # Watcher

VARIABLES
  hook,     \* an exit hook is installed: by Run, never by Execute
  parent,   \* the caller's context: "live" or "cancelled"
  watch,    \* the AfterFunc on the parent: "set", "run" or "stopped"
  reason,   \* s.reason; s.code is CodeOf(reason) at every call site
  finished, \* s.finished
  timer,    \* the watchdog, see Timers
  ctxDone,  \* s.ctx is cancelled
  killed,   \* status of an exit forced by the watchdog, NoExit before one
  owes      \* the rest of each goroutine's call

world    == <<hook, parent>>
stopVars == <<world, watch, reason, finished, timer, ctxDone, killed, owes>>

NoExit  == -1
Normal  == {"duration", "count", "exhaustion"}
Reasons == Normal \cup {"", "failure", "cancel"}

CodeOf(r) == CASE r = "failure" -> 1 [] r = "cancel" -> 130 [] OTHER -> 0

(* "due": the callback goroutine runs; "exit1" and "exit130": it has read  *)
(* that status under the mutex and calls the hook; "over": stopped.        *)
Timers == {"off", "armed", "due", "exit1", "exit130", "over"}

(* "request": incomplete is between its two lock regions; "cancel": the    *)
(* mutex is released and s.cancel() comes next.                            *)
Debts == {"nothing", "request", "cancel"}

StopTypeOK == /\ hook \in BOOLEAN
              /\ parent \in {"live", "cancelled"}
              /\ watch \in {"set", "run", "stopped"}
              /\ reason \in Reasons
              /\ finished \in BOOLEAN
              /\ timer \in Timers
              /\ ctxDone \in BOOLEAN
              /\ killed \in {NoExit, 1, 130}
              /\ owes \in [Callers -> Debts]

StopInit == /\ hook \in BOOLEAN
            /\ parent = "live" /\ watch = "set"
            /\ reason = "" /\ finished = FALSE /\ timer = "off"
            /\ ctxDone = FALSE /\ killed = NoExit
            /\ owes = [c \in Callers |-> "nothing"]

(* A process that exited runs no goroutine. *)
Free(c)      == killed = NoExit /\ owes[c] = "nothing"
Owing(c, d)  == killed = NoExit /\ owes[c] = d
Owe(c, d)    == owes' = [owes EXCEPT ![c] = d]

-----------------------------------------------------------------------------
(* The locked body of request: the first reason wins and arms the timer.   *)
(* A finished owner returns early and cancels nothing.                     *)
BugLastReasonWins(r) == /\ reason' = IF finished THEN reason ELSE r
                        /\ timer' = IF hook /\ timer = "off" THEN "armed" ELSE timer
BugOnlyFailuresArm(r) ==
  IF reason = "" /\ ~finished
    THEN reason' = r /\ timer' = IF hook /\ CodeOf(r) # 0 THEN "armed" ELSE timer
    ELSE UNCHANGED <<reason, timer>>
Settle(r) == IF reason = "" /\ ~finished
               THEN /\ reason' = r
                    /\ timer' = IF hook THEN "armed" ELSE timer
               ELSE UNCHANGED <<reason, timer>>

BugNobodyCancels(c, r) == /\ Settle(r)
                          /\ Owe(c, "nothing")
                          /\ UNCHANGED <<world, finished, ctxDone, killed>>
Ask(c, r) == /\ Settle(r)
             /\ Owe(c, IF finished THEN "nothing" ELSE "cancel")
             /\ UNCHANGED <<world, finished, ctxDone, killed>>

Request(c, r) == Free(c) /\ Ask(c, r) /\ UNCHANGED watch

(* incomplete, first lock region: a normal completion becomes a failure. *)
Downgrade == reason' = IF ~finished /\ reason \in Normal THEN "failure"
                                                         ELSE reason

Incomplete(c) == /\ Free(c)
                 /\ Downgrade
                 /\ Owe(c, "request")
                 /\ UNCHANGED <<world, watch, finished, timer, ctxDone, killed>>

(* incomplete, second lock region: the request it ends with. *)
IncompleteRequest(c) == /\ Owing(c, "request")
                        /\ Ask(c, "failure")
                        /\ UNCHANGED watch

(* The last statement of request and of finish. *)
CancelCtx(c) ==
  /\ Owing(c, "cancel")
  /\ ctxDone' = TRUE
  /\ Owe(c, "nothing")
  /\ UNCHANGED <<world, watch, reason, finished, timer, killed>>

(* After a failed open, Main rewrites whatever failure() found except a    *)
(* cancellation (run/nats.go).                                             *)
Rewrite == reason' = IF CodeOf(reason) # 130 THEN "failure" ELSE reason

Override ==
  /\ Free(Main) /\ ~finished
  /\ reason # ""
  /\ Rewrite
  /\ UNCHANGED <<world, watch, finished, timer, ctxDone, killed, owes>>

(* Stop() does nothing to a timer whose callback has started. *)
StopTimer == timer' = IF timer = "armed" THEN "over" ELSE timer

Finish == /\ Free(Main) /\ ~finished
          /\ finished' = TRUE
          /\ StopTimer
          /\ watch' = IF watch = "set" THEN "stopped" ELSE watch
          /\ Owe(Main, "cancel")
          /\ UNCHANGED <<world, reason, ctxDone, killed>>

-----------------------------------------------------------------------------
(* Execute's caller cancels its context; Run's context has no caller. *)
ParentCancel == /\ killed = NoExit
                /\ ~hook /\ parent = "live"
                /\ parent' = "cancelled"
                /\ UNCHANGED <<hook, watch, reason, finished, timer, ctxDone,
                               killed, owes>>

(* s.ctx is a child of the parent, *)
Propagate == /\ killed = NoExit
             /\ parent = "cancelled" /\ ~ctxDone
             /\ ctxDone' = TRUE
             /\ UNCHANGED <<world, watch, reason, finished, timer, killed, owes>>

(* and the AfterFunc on the parent runs on a goroutine of its own. *)
WatcherRuns == /\ Free(Watcher)
               /\ parent = "cancelled" /\ watch = "set"
               /\ watch' = "run"
               /\ Ask(Watcher, "cancel")

Tick(from, to) ==
  /\ killed = NoExit
  /\ timer = from
  /\ timer' = to
  /\ UNCHANGED <<world, watch, reason, finished, ctxDone, killed, owes>>

(* A second has passed since the decision. *)
TimerDue == Tick("armed", "due")

(* The callback reads the owner under the mutex, then exits outside it. *)
BugExitsWithCode == IF finished THEN "over"
                    ELSE CASE CodeOf(reason) = 0 -> "exit0"
                           [] CodeOf(reason) = 1 -> "exit1"
                           [] OTHER              -> "exit130"
BugAlwaysOne == IF finished THEN "over" ELSE "exit1"
BugInterruptIsSpared == IF finished \/ reason = "cancel" THEN "over" ELSE "exit1"
Sentence == IF finished THEN "over"
            ELSE IF CodeOf(reason) # 130 THEN "exit1" ELSE "exit130"

TimerCheck == Tick("due", Sentence)

TimerExit ==
  /\ killed = NoExit
  /\ timer \in {"exit1", "exit130"}
  /\ killed' = IF timer = "exit130" THEN 130 ELSE 1
  /\ UNCHANGED <<world, watch, reason, finished, timer, ctxDone, owes>>

Watchdog == TimerDue \/ TimerCheck \/ TimerExit

-----------------------------------------------------------------------------
(* The owner alone, called by anybody in any order; the watcher has one    *)
(* call to make and Main makes none after finish.                          *)
MayCall(c) == c # Watcher /\ (c = Main => ~finished)

Call(c) == \/ MayCall(c) /\ Incomplete(c)
           \/ MayCall(c) /\ \E r \in Reasons \ {""} : Request(c, r)
           \/ IncompleteRequest(c)
           \/ CancelCtx(c)

StopNext == \/ \E c \in Callers : Call(c)
            \/ Override \/ Finish
            \/ ParentCancel \/ Propagate \/ WatcherRuns
            \/ Watchdog

StopSpec == StopInit /\ [][StopNext]_stopVars

(* Timers fire and started goroutines run.  Nobody is forced to call the   *)
(* owner, and Main may be blocked for ever.                                *)
FairStopSpec == /\ StopSpec
                /\ WF_stopVars(WatcherRuns) /\ WF_stopVars(Watchdog)
                /\ \A c \in Callers : WF_stopVars(CancelCtx(c))

-----------------------------------------------------------------------------
(* StopDecision, as the owner implements it. *)
Verdict == CASE reason = ""        -> "open"
             [] reason \in Normal  -> "success"
             [] reason = "failure" -> "failure"
             [] reason = "cancel"  -> "cancelled"

Decision == INSTANCE StopDecision
              WITH verdict <- Verdict, sealed <- finished, ended <- killed

(* The decision is taken once, only degrades from success to failure, is   *)
(* frozen by finish, and a forced exit reports it: request, incomplete,    *)
(* the override after a failed open and the watchdog, in every order.      *)
ImplementsDecision == Decision!DecisionSpec

(* A decision never goes unguarded or unheard: with an exit hook the       *)
(* watchdog was armed with it, and the context is cancelled unless some    *)
(* goroutine is still on its way to cancel it.                             *)
DecisionIsActedOn ==
  reason # "" => /\ hook => timer # "off"
                 /\ ctxDone \/ \E c \in Callers : owes[c] = "cancel"

(* The watchdog never takes a decision it did not read: while it is about  *)
(* to exit, the status it holds is the one the decision calls for, also if *)
(* the reason changed after it was read.                                   *)
SentenceHolds ==
  timer \in {"exit1", "exit130"} =>
    (timer = "exit130" <=> reason = "cancel") /\ reason # ""

(* Once a stop has been requested the process is gone after the cleanup    *)
(* allowance even if Main never takes another step (TimerExit), unless     *)
(* Main finishes first.                                                    *)
StopIsBounded == (hook /\ reason # "") ~> (finished \/ killed # NoExit)

(* Everybody who waits for the context of a stopped observation wakes up. *)
StopIsHeard == (reason # "") ~> (ctxDone \/ killed # NoExit)

(* Whoever asks for the stop, the process or the call comes to an end. *)
StopEnds == StopIsBounded /\ StopIsHeard

=============================================================================
