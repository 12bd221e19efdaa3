------------------------------ MODULE Command ------------------------------
(***************************************************************************)
(* One invocation (run/run.go): execute parses, validates and routes the   *)
(* command line; here the local and Protobuf inspections are run           *)
(* (run/local_input.go, protobuf_input.go): one body is read, decoded,     *)
(* filtered, projected, encoded and written.  The document modes and the   *)
(* native observation are other modules; of them only what they touch and  *)
(* return matters here.  Main may be interrupted anywhere; stdin may stay  *)
(* silent, and stdout and stderr may block.                                *)
(***************************************************************************)
EXTENDS NatsStop, CommandLine

CONSTANTS Signals,      \* the goroutine of the signal handler
          Mishaps       \* the stages of an inspection that may go wrong

ASSUME CommandAssumption ==
  /\ Signals \in Callers \ {Main, Watcher}
  /\ Mishaps \subseteq {"destination", "filter", "project", "schema", "blocked", "decode",
                      "predicate", "projection", "encode", "writing"}

VARIABLES
  line,        \* the command line
  step,        \* where Main is
  owner,       \* a stop owner has been made
  err,         \* what RunE or a check before it returned, see Errors
  warned, said,\* warnings and errors on stderr
  result,      \* what ReadBody returned: "none", "body", "failed", "cancelled"
  handled, rewritten, \* arguments a document mode has taken, files it wrote
  input,       \* stdin: "open", or "closed" at the end of the body
  callback, timed, \* the read deadline: its AfterFunc, and whether it is set
  stdout,      \* "nothing", "partial" or "whole"
  mishap,      \* the stage at which something went wrong, "none", or one of Lent
  interrupted, exited

ioVars     == <<handled, rewritten, stdout>>
stdinVars  == <<input, result, callback, timed>>
tellVars   == <<err, warned, said>>
endVars    == <<mishap, interrupted, exited>>
cmdVars    == <<line, step, owner, tellVars, ioVars, stdinVars, endVars>>
vars       == <<stopVars, cmdVars>>

(* "raw": execute has to write the diagnostic; "told": it is written.      *)
Errors == {"none", "raw", "told", "cancelled", "drift"}

(* A host lends Execute its reader and writer, and what they return may be *)
(* the error of a context of its own.                                      *)
Lent == {"lent reader", "lent writer"}

Init ==
  /\ StopInit
  /\ IsCommandLine(line)
  /\ step = "parse" /\ owner = FALSE
  /\ err = "none" /\ warned = FALSE /\ said = 0
  /\ handled = {} /\ rewritten = {} /\ stdout = "nothing"
  /\ input = "open" /\ result = "none" /\ callback = "off" /\ timed = FALSE
  /\ mishap = "none" /\ interrupted = FALSE /\ exited = NoExit

At(s)   == step = s /\ Free(Main)
GoTo(s) == step' = s

(* What a step of Main leaves alone, by what it changes.                   *)
OnlyStep == UNCHANGED <<line, owner, tellVars, ioVars, stdinVars, endVars>>
Pass(s)  == GoTo(s) /\ OnlyStep /\ UNCHANGED stopVars

(* An error before the mode runs: logged here, or left to execute.         *)
Refuse(e) == /\ err' = e /\ said' = (IF e = "told" THEN said + 1 ELSE said)
             /\ GoTo("execute")
             /\ UNCHANGED <<stopVars, line, owner, warned, ioVars, stdinVars, endVars>>

-----------------------------------------------------------------------------
(* newNATSStop: by process.start in Run, and by the inspection in Execute. *)
Start == /\ owner' = TRUE
         /\ IF parent = "cancelled" THEN Request(Main, "cancel") ELSE UNCHANGED stopVars

Parse == /\ At("parse")
         /\ IF line.broken THEN Refuse("raw")
            ELSE IF ArgsOK(line) THEN Pass("prerun") ELSE Refuse("told")

PreRun == /\ At("prerun")
          /\ GoTo("options")
          /\ IF hook /\ Inspects(line) THEN Start ELSE UNCHANGED <<stopVars, owner>>
          /\ UNCHANGED <<line, tellVars, ioVars, stdinVars, endVars>>

CheckOptions ==
  /\ At("options")
  /\ IF ~Accepted(line, "log-format") THEN Refuse(IF Inspects(line) THEN "raw" ELSE "told")
     ELSE IF ~OptionsOK(line) THEN Refuse("raw")
     ELSE Pass(IF Inspects(line) THEN "route" ELSE "document")

CheckDocument ==
  /\ At("document")
  /\ IF ~DocumentOK(line) THEN Refuse("told")
     ELSE /\ warned' = Warns(line) /\ GoTo("route")
          /\ UNCHANGED <<stopVars, line, owner, err, said, ioVars, stdinVars, endVars>>

(* The native observation goes on in NatsObserve. *)
Route ==
  /\ At("route")
  /\ CASE Mode(line) \in {"local", "protobuf"} ->
            /\ IF hook THEN UNCHANGED <<stopVars, owner>> ELSE Start
            /\ GoTo("destination")
            /\ UNCHANGED <<line, tellVars, ioVars, stdinVars, endVars>>
       [] Mode(line) = "native" -> Pass("observe")
       [] OTHER -> IF RouteOK(line) THEN Pass("mode") ELSE Refuse("told")

(* A document mode: runFiles takes every argument, the others the first.   *)
Takes == IF Mode(line) = "files" THEN {line.args[i] : i \in DOMAIN line.args}
         ELSE {line.args[i] : i \in DOMAIN line.args \cap {1}}

DocumentMode ==
  /\ At("mode")
  /\ handled' = Takes
  /\ rewritten' \in IF Mode(line) = "files" THEN SUBSET Takes ELSE {{}}
  /\ err' \in {"none", "told"} \cup (IF Mode(line) = "check" THEN {"drift"} ELSE {})
  /\ said' = (IF err' = "told" THEN said + 1 ELSE said)
  /\ GoTo("execute")
  /\ UNCHANGED <<stopVars, line, owner, warned, stdout, stdinVars, endVars>>

-----------------------------------------------------------------------------
(* runLocalInput and runProtobufInput.  fail: the request comes first, so  *)
(* that the watchdog is armed when the diagnostic blocks.                  *)
Fail(why) == /\ Request(Main, why)
             /\ GoTo("fail")
             /\ UNCHANGED <<line, owner, tellVars, ioVars, stdinVars, interrupted, exited>>

(* A stage asks for the context before and after what may go wrong in it.  *)
Notices(s)   == At(s) /\ ctxDone /\ Fail("cancel") /\ UNCHANGED mishap
GoesWrong(s) == At(s) /\ s \in Mishaps /\ Fail("failure") /\ mishap' = s
Stage(s, next) == \/ Notices(s)
                  \/ GoesWrong(s)
                  \/ At(s) /\ ~ctxDone /\ Pass(next)
If(asked, s, next) == IF asked THEN Stage(s, next) ELSE At(s) /\ Pass(next)

ToBinary     == Mode(line) = "local" /\ Target(line) = "msgpack"
HasSchema    == Mode(line) = "protobuf" \/ Codec(line) = "flatbuffers"
InputIsStdin == Some(line, {"input-stdin", "protobuf-stdin"})

(* A physical terminal takes no binary output. *)
BinaryDestination == \/ At("destination") /\ Pass("filter")
                     \/ ToBinary /\ GoesWrong("destination")

CompileFilter  == If(Changed(line, "filter"), "filter", "project")
CompileProject == If(Changed(line, "project"), "project", "schema")
PrepareSchema  == If(HasSchema, "schema", "acquire")

(* protobufStdinDeadline, for the stdin of the process if it can have one. *)
Acquire ==
  /\ At("acquire")
  /\ callback' \in IF hook /\ InputIsStdin THEN {"armed", "off"} ELSE {"off"}
  /\ GoTo("reading")
  /\ UNCHANGED <<stopVars, line, owner, tellVars, ioVars, input, result, timed, endVars>>

(* ReadBody: a file does not block; a read of stdin returns with some more *)
(* bytes, at the end, in error, or when its deadline has passed, which is  *)
(* an error like another.  The error of a context is passed on as such,    *)
(* also when it is not the context of the inspection.                      *)
ReadIs(r, why) ==
  /\ result' = r /\ mishap' = why /\ GoTo("cleanup")
  /\ UNCHANGED <<stopVars, line, owner, tellVars, ioVars, input, callback, timed,
                 interrupted, exited>>

ReadBody ==
  \/ At("reading") /\ IF ctxDone THEN ReadIs("cancelled", mishap) ELSE Pass("blocked")
  \/ /\ At("blocked")
     /\ \/ InputIsStdin /\ input = "open" /\ Pass("reading")
        \/ "blocked" \in Mishaps /\ ReadIs("failed", "blocked")
        \/ "blocked" \in Mishaps /\ ~hook /\ InputIsStdin /\ ReadIs("cancelled", "lent reader")
        \/ timed /\ ReadIs("failed", mishap)
        \/ /\ InputIsStdin => input = "closed"
           /\ ReadIs(IF ctxDone THEN "cancelled" ELSE "body", mishap)

(* The callback of the deadline, and the cleanup, which waits for one that *)
(* has started.                                                            *)
Callback ==
  /\ \/ callback = "armed" /\ ctxDone /\ callback' = "running" /\ UNCHANGED timed
     \/ callback = "running" /\ callback' = "over" /\ timed' = TRUE
  /\ UNCHANGED <<stopVars, line, step, owner, tellVars, ioVars, input, result, endVars>>

BugNoJoin == TRUE
Joined == callback # "running"

Cleanup ==
  /\ At("cleanup") /\ Joined
  /\ callback' = (IF callback = "running" THEN "running" ELSE "off") /\ timed' = FALSE
  /\ GoTo("acquired")
  /\ UNCHANGED <<stopVars, line, owner, tellVars, ioVars, input, result, endVars>>

Acquired ==
  /\ At("acquired")
  /\ CASE result = "body"      -> Pass("decode")
       [] result = "failed"    -> Fail("failure") /\ UNCHANGED mishap
       [] result = "cancelled" -> Fail("cancel") /\ UNCHANGED mishap

Decode    == Stage("decode", "predicate")
Predicate == \/ If(Changed(line, "filter"), "predicate", "projection")
             \/ Changed(line, "filter") /\ At("predicate") /\ ~ctxDone /\ Pass("return")
Project   == If(Changed(line, "project"), "projection", "encode")
Encode    == Stage("encode", "write")

Output(s, next) == /\ stdout' = s /\ GoTo(next)
                   /\ UNCHANGED <<stopVars, line, owner, tellVars, handled, rewritten,
                                  stdinVars, endVars>>

(* Binary output is one call of natsWriter, a view may be several; fail    *)
(* takes the error of any context for a cancellation.                      *)
WriterGivesUp == /\ At("writing") /\ "writing" \in Mishaps /\ ~hook
                 /\ Fail("cancel") /\ mishap' = "lent writer"
Write ==
  \/ Notices("write")
  \/ At("write") /\ ~ctxDone /\ Output("partial", "writing")
  \/ At("writing") /\ Output("whole", "check")
  \/ ~ToBinary /\ Notices("writing")
  \/ GoesWrong("writing")
  \/ WriterGivesUp
  \/ Notices("check")
  \/ At("check") /\ ~ctxDone /\ Pass("return")

(* The rest of fail: the verdict of the owner decides what is told.        *)
Told ==
  /\ At("fail")
  /\ err' = (IF CodeOf(reason) = 130 THEN "cancelled" ELSE "told") /\ said' = said + 1
  /\ GoTo("return")
  /\ UNCHANGED <<stopVars, line, owner, warned, ioVars, stdinVars, endVars>>

(* Execute's owner is finished as the inspection returns.                  *)
Return == /\ At("return")
          /\ IF hook THEN UNCHANGED stopVars ELSE Finish
          /\ GoTo("execute") /\ OnlyStep

Inspection == BinaryDestination \/ CompileFilter \/ CompileProject \/ PrepareSchema
              \/ Acquire \/ ReadBody \/ Cleanup \/ Acquired \/ Decode \/ Predicate
              \/ Project \/ Encode \/ Write \/ Told \/ Return

-----------------------------------------------------------------------------
(* execute, after the command has returned: an error makes the process     *)
(* stop its owner, which a command line that was not even parsed gets now. *)
Execute ==
  /\ At("execute")
  /\ GoTo("ask")
  /\ IF hook /\ err # "none" /\ Inspects(line) /\ ~owner
       THEN Start ELSE UNCHANGED <<stopVars, owner>>
  /\ UNCHANGED <<line, tellVars, ioVars, stdinVars, endVars>>

AskForStop ==
  /\ At("ask")
  /\ IF hook /\ err # "none" /\ owner THEN Request(Main, "failure") ELSE UNCHANGED stopVars
  /\ GoTo("tell") /\ OnlyStep

BugTellsAll == err \in {"raw", "cancelled"}
Untold == err = "raw"

Tell == /\ At("tell")
        /\ said' = (IF Untold THEN said + 1 ELSE said)
        /\ GoTo("finish")
        /\ UNCHANGED <<stopVars, line, owner, err, warned, ioVars, stdinVars, endVars>>

StatusOf(e) == CASE e = "none" -> 0 [] e = "drift" -> 2 [] e = "cancelled" -> 130
                 [] e \in {"told", "raw"} -> 1

(* Run's deferred process.finish. *)
Leave == \/ /\ At("finish")
            /\ IF hook /\ owner THEN Finish ELSE UNCHANGED stopVars
            /\ GoTo("exit") /\ OnlyStep
         \/ finished /\ CancelCtx(Main) /\ UNCHANGED cmdVars
         \/ /\ At("exit") /\ exited' = StatusOf(err) /\ GoTo("over")
            /\ UNCHANGED <<stopVars, line, owner, tellVars, ioVars, stdinVars, mishap,
                           interrupted>>

MainRuns == Parse \/ PreRun \/ CheckOptions \/ CheckDocument \/ Route \/ DocumentMode
            \/ Inspection \/ Execute \/ AskForStop \/ Tell

-----------------------------------------------------------------------------
(* The others, in a process that has not exited. *)
Running == killed = NoExit /\ exited = NoExit /\ step # "observe"

InputEnds == /\ Running /\ step \in {"reading", "blocked"} /\ InputIsStdin /\ input = "open"
             /\ input' = "closed"
             /\ UNCHANGED <<stopVars, line, step, owner, tellVars, ioVars, result,
                            callback, timed, endVars>>

(* Before there is an owner an interrupt ends the process at once.         *)
Interrupt == /\ Running /\ hook /\ owner
             /\ Request(Signals, "cancel")
             /\ interrupted' = TRUE
             /\ UNCHANGED <<line, step, owner, tellVars, ioVars, stdinVars, mishap, exited>>

ParentRuns == /\ Running /\ Inspects(line)
              /\ ParentCancel \/ (owner /\ (Propagate \/ WatcherRuns))
              /\ UNCHANGED cmdVars

OwnerRuns(c) == /\ Running /\ ~(c = Main /\ finished)
                /\ CancelCtx(c) /\ UNCHANGED cmdVars

WatchdogRuns == Running /\ Watchdog /\ UNCHANGED cmdVars

Next == \/ MainRuns \/ Leave \/ (Running /\ Callback) \/ InputEnds \/ Interrupt
        \/ ParentRuns \/ WatchdogRuns \/ \E c \in Callers : OwnerRuns(c)

Spec == Init /\ [][Next]_vars

(* Timers fire, goroutines run, and nothing blocks from finish on.  Before *)
(* that Main may block for ever in a process; a host calls Execute with a  *)
(* reader that ends and writers that return.                               *)
Fairness == /\ WF_vars(WatchdogRuns) /\ WF_vars(Leave)
            /\ WF_vars(~hook /\ MainRuns) /\ WF_vars(~hook /\ InputEnds)
            /\ \A c \in Callers : WF_vars(~hook /\ OwnerRuns(c))

FairSpec == Spec /\ Fairness

Over == ~Running

-----------------------------------------------------------------------------
CommandTypeOK ==
  /\ StopTypeOK
  /\ err \in Errors /\ said \in 0..1 /\ {owner, warned, timed, interrupted} \subseteq BOOLEAN
  /\ input \in {"open", "closed"} /\ result \in {"none", "body", "failed", "cancelled"}
  /\ callback \in {"off", "armed", "running", "over"}
  /\ stdout \in {"nothing", "partial", "whole"} /\ mishap \in Mishaps \cup Lent \cup {"none"}
  /\ exited \in {NoExit, 0, 1, 2, 130}

(* The status of an inspection: 0 only for a whole view, or none where the *)
(* filter says so; 1 for a failure or a command line that is refused; 130  *)
(* for a stop that came from outside, or a stream of the host that gives   *)
(* up with the error of a context, and before any failure.  The forced     *)
(* exit and the regular one agree, and stdout stays empty unless it is the *)
(* write that fails or is stopped.                                         *)
Valid == /\ ~line.broken /\ ArgsOK(line) /\ Accepted(line, "log-format") /\ OptionsOK(line)

StatusIsTrue ==
  Mode(line) \in {"local", "protobuf"} =>
    /\ exited = 0 => /\ Valid /\ mishap = "none"
                     /\ IF stdout = "nothing" THEN Changed(line, "filter")
                                              ELSE stdout = "whole"
    /\ exited = 1 => mishap # "none" \/ ~Valid
    /\ 130 \in {exited, killed} => interrupted \/ parent = "cancelled" \/ mishap \in Lent
    /\ Valid /\ exited \in {1, 130} => exited = CodeOf(reason)
    /\ stdout # "nothing" => mishap \in {"none", "writing", "lent writer"}

(* Every failure is told once on stderr, nothing else is told, and in a    *)
(* process the watchdog of an inspection is armed before the diagnostic,   *)
(* which may block (PreRunE, execute, emittedError).                       *)
ToldOnceAndGuarded ==
  /\ exited \in {1, 130} => said = 1
  /\ exited \in {0, 2} => said = 0
  /\ hook /\ Inspects(line) /\ (step = "fail" \/ (step = "tell" /\ Untold)) => timer # "off"

(* Whatever stops the reading of stdin, the read deadline that interrupts  *)
(* it is neither set nor going to be when the inspection goes on           *)
(* (protobufStdinDeadline).                                                *)
StdinIsRestored ==
  step \notin {"reading", "blocked", "cleanup"} => ~timed /\ callback \notin {"armed", "running"}

(* How the process is left, in short (execute). *)
EndIsProper == StatusIsTrue /\ ToldOnceAndGuarded /\ StdinIsRestored

(* A command line that is carried out asks for one thing: one source, all  *)
(* arguments and options understood by its mode.  Switches set to false    *)
(* are left aside, as the checks ask whether an option is given and the    *)
(* modes for its value: NoFileIsWritten, below, shows what that leads to.  *)
Plain == \A f \in DOMAIN line.options \cap Switches : On(line, f)

Understood ==
  LET sources == {f \in {"input-file", "input-stdin", "protobuf-file", "protobuf-stdin",
                         "nats", "nats-history"} : Changed(line, f)}
  IN /\ step \in {"destination", "observe"} =>
          /\ Cardinality(sources) = 1 /\ line.args = <<>>
          /\ ~Some(line, DocumentOptions)
          /\ Some(line, HistoryOptions) => "nats-history" \in sources
          /\ Some(line, SecurityOptions) => line.options["server"] = "tls"
          /\ Changed(line, "descriptor-set") =>
               Mode(line) = "protobuf" \/ line.options["nats-codec"] = "protobuf"
     /\ step = "mode" =>
          /\ sources = {} /\ DOMAIN line.options \subseteq DocumentOptions \cup {"log-format"}
          /\ Changed(line, "where") /\ Plain => Mode(line) \in {"files", "stdin"}
          /\ Changed(line, "backup") /\ Plain /\ ~warned => Mode(line) = "files"
     /\ handled # {} /\ Plain => handled = {line.args[i] : i \in DOMAIN line.args}

(* The process is gone after the cleanup allowance that starts with the    *)
(* first stop request, wherever Main blocks; Execute returns.              *)
CommandEnds == /\ (hook /\ owner /\ reason # "") ~> Over
               /\ ~hook ~> Over

(* "-i ignored because --dry-run is set" (run.go:881).                     *)
NoFileIsWritten == warned => rewritten = {}
=============================================================================
