--------------------------- MODULE CommandProofs ---------------------------
(***************************************************************************)
(* Proofs about one invocation (Command), for every command line, every    *)
(* set of callers and of mishaps, in a process or under a host: its types, *)
(* that its exit status, its diagnostics and its stdin are left as they    *)
(* should be wherever it is interrupted, and that a command line that is   *)
(* carried out asks for one thing.                                         *)
(***************************************************************************)
EXTENDS Command, NatsStopProofs, FiniteSetTheorems

Checking   == {"parse", "prerun", "options", "document", "route"}
Stages     == {"destination", "filter", "project", "schema", "acquire", "reading", "blocked",
               "cleanup", "acquired", "decode", "predicate", "projection", "encode", "write",
               "writing", "check"}
Inspecting == Stages \cup {"fail", "return"}
Ending     == {"execute", "ask", "tell", "finish", "exit", "over"}
StepNames  == Checking \cup Inspecting \cup Ending \cup {"mode", "observe"}

(* The command is an inspection of this module. *)
Here == Mode(line) \in {"local", "protobuf"}

(* What has been asked of the command line where Main is. *)
Accepts == /\ Valid /\ ~Inspects(line) /\ DocumentOK(line) /\ RouteOK(line)
Checked ==
  /\ step \in {"prerun", "options"} => ~line.broken /\ ArgsOK(line)
  /\ step \in {"document", "route"} => Valid
  /\ step = "document" => ~Inspects(line)
  /\ step = "route" /\ ~Inspects(line) => DocumentOK(line)
  /\ step \in {"route", "mode"} /\ ~Inspects(line) => warned = Warns(line)
  /\ step = "mode" => Accepts
  /\ step = "observe" => Valid /\ Mode(line) = "native"
  /\ step \in Inspecting => Valid /\ Here
  /\ rewritten # {} => Mode(line) = "files"
  /\ handled # {} => handled = Takes /\ Accepts

(* The owner is finished at the end, and the process exits after it. *)
Order ==
  /\ finished => step \in (IF hook THEN {"exit", "over"} ELSE Ending)
  /\ exited # NoExit <=> step = "over"
  /\ step = "over" => exited = StatusOf(err)
  /\ err # "none" => step \in Ending \cup {"return"}
  /\ err = "drift" => ~Inspects(line)
  /\ said = IF err \in {"none", "drift"} \/ (err = "raw" /\ step \in {"execute", "ask", "tell"})
            THEN 0 ELSE 1

(* A stop that is asked for: from outside, or by an error that is told.    *)
Wish == interrupted \/ parent = "cancelled" \/ mishap \in Lent
Wished ==
  /\ hook => parent = "live"
  /\ reason \in {"", "failure", "cancel"}
  /\ ~finished /\ (ctxDone \/ \E c \in Callers : owes[c] = "cancel")
       => reason # "" \/ parent = "cancelled"
  /\ result = "cancelled" => reason # "" \/ parent = "cancelled" \/ mishap \in Lent
  /\ reason = "cancel" => Wish
  /\ killed = 130 => reason = "cancel"
  /\ step = "fail" => reason # ""
  /\ hook /\ Inspects(line) /\ err # "none" =>
       /\ step = "ask" => owner
       /\ step = "tell" => reason # ""

(* The deadline of stdin follows the stop, while the body is read. *)
Deadline ==
  /\ callback \in {"running", "over"} \/ timed => hook /\ reason # ""
  /\ callback # "off" => hook
  /\ step \notin {"reading", "blocked", "cleanup"} => callback = "off" /\ ~timed

(* What the stages have done, up to the one where Main is. *)
Progress ==
  /\ step \notin Ending \cup {"fail", "return"} =>
       stdout = CASE step = "writing" -> "partial" [] step = "check" -> "whole"
                  [] OTHER -> "nothing"
  /\ step \notin Ending \cup {"fail", "return", "cleanup", "acquired"} => mishap = "none"
  /\ step \in {"cleanup", "acquired"} =>
       /\ result # "none"
       /\ mishap # "none" => result \in {"failed", "cancelled"}
       /\ result = "failed" => mishap # "none" \/ reason # ""
  /\ stdout # "nothing" => mishap \in {"none", "writing", "lent writer"}

(* What an inspection returns, and on what grounds. *)
Judged ==
  /\ err = "cancelled" => reason = "cancel"
  /\ Here =>
       /\ err = "raw" => ~Valid
       /\ err = "told" => ~Valid \/ reason = "failure"
       /\ reason = "failure" => ~Valid \/ mishap # "none"
       /\ err = "none" /\ step \in Ending \cup {"return"} =>
            /\ Valid /\ mishap = "none"
            /\ IF stdout = "nothing" THEN Changed(line, "filter") ELSE stdout = "whole"

CommandIInv ==
  /\ CommandTypeOK /\ StopIInv /\ IsCommandLine(line) /\ step \in StepNames
  /\ Checked /\ Order /\ Wished /\ Deadline /\ Progress /\ Judged

-----------------------------------------------------------------------------
(* What a call of the owner may do to the decision and to the debts, if it *)
(* gives one of the reasons in given.                                      *)
OwnerStep(given) ==
  /\ StopIInv' /\ UNCHANGED <<hook, parent, finished, killed, ctxDone>>
  /\ reason' = reason \/ (reason = "" /\ reason' \in given)
  /\ ~finished /\ (\E c \in Callers : owes'[c] = "cancel")
       => reason' # "" \/ \E c \in Callers : owes[c] = "cancel"
  /\ given # {} /\ ~finished => reason' # ""

LEMMA CommandCallers ==
  /\ Main \in Callers /\ Watcher \in Callers /\ Signals \in Callers
  /\ Main # Watcher /\ Signals # Main /\ Signals # Watcher
  BY CommandAssumption, CallersAssumption

(* A step of the command that the owner does not notice. *)
LEMMA QuietStep ==
  ASSUME StopIInv, UNCHANGED stopVars
  PROVE  OwnerStep({}) /\ UNCHANGED <<reason, owes>>
<1>1. StopIInv'
  BY NextIInv
<1> QED BY <1>1 DEF stopVars, world, OwnerStep

LEMMA RequestStep ==
  ASSUME StopIInv, NEW c \in Callers, NEW r \in Reasons \ {""}, Request(c, r)
  PROVE  OwnerStep({r})
<1>1. Ask(c, r) /\ owes[c] = "nothing" /\ watch' \in {"set", "run", "stopped"}
  BY DEF Request, Free, StopIInv, StopTypeOK
<1>2. StopIInv'
  BY <1>1, AskKeepsIInv
<1>3. Settle(r) /\ UNCHANGED <<hook, parent, finished, ctxDone, killed>>
  BY <1>1 DEF Ask, world
<1>4. owes' = [owes EXCEPT ![c] = IF finished THEN "nothing" ELSE "cancel"]
  BY <1>1 DEF Ask, Owe
<1>5. /\ reason' = reason \/ (reason = "" /\ reason' = r)
      /\ ~finished => reason' # ""
  BY <1>3, SettleDecides DEF StopIInv
<1> QED BY <1>2, <1>3, <1>5 DEF OwnerStep

(* newNATSStop gives the stop of a parent that is cancelled already. *)
LEMMA StartStep ==
  ASSUME StopIInv, Start
  PROVE  /\ owner' = TRUE
         /\ \/ OwnerStep({"cancel"}) /\ parent = "cancelled"
            \/ OwnerStep({}) /\ reason' = reason
<1>1. "cancel" \in Reasons \ {""}
  BY DEF Reasons
<1>2. CASE parent = "cancelled"
  <2>1. Request(Main, "cancel") /\ owner' = TRUE
    BY <1>2 DEF Start
  <2>2. OwnerStep({"cancel"})
    BY <1>1, <2>1, RequestStep, CommandCallers
  <2> QED BY <1>2, <2>1, <2>2
<1>3. CASE parent # "cancelled"
  BY <1>3, QuietStep DEF Start
<1> QED BY <1>2, <1>3 DEF Start

-----------------------------------------------------------------------------
(* The mode of a command line says which sources are selected. *)
LEMMA ModesOfALine ==
  /\ Here <=> LocalSelected(line) \/ ProtobufSelected(line)
  /\ Mode(line) = "local" <=> LocalSelected(line)
  /\ Mode(line) = "protobuf" <=> ~LocalSelected(line) /\ ProtobufSelected(line)
  /\ Mode(line) = "native" <=>
       ~LocalSelected(line) /\ ~ProtobufSelected(line) /\ NativeSelected(line)
  /\ Inspects(line) <=> Here \/ Mode(line) = "native"
  /\ Mode(line) = "edit" => ~Inspects(line) /\ On(line, "edit")
  /\ Mode(line) \in {"dryrun", "check"} => ~Inspects(line)
  /\ ~Inspects(line) => Mode(line) \in {"edit", "dryrun", "check", "files", "stdin", "once"}
  /\ Mode(line) = "dryrun" => On(line, "dry-run")
  /\ Mode(line) = "check" => On(line, "check")
  /\ Mode(line) = "files" => ~Inspects(line) /\ On(line, "in-place")
  /\ Mode(line) = "stdin" => FromStdin(line)
  /\ Mode(line) = "once" => ~FromStdin(line)
  /\ Mode(line) \in {"stdin", "once"} => ~On(line, "in-place")
  BY DEF Here, Mode, Inspects

(* What an inspection that is carried out has been given. *)
LEMMA LocalLine ==
  ASSUME Valid, LocalSelected(line)
  PROVE  /\ line.args = <<>> /\ ~Every(line, {"input-file", "input-stdin"})
         /\ DOMAIN line.options \subseteq LocalOptions \cup QueryOptions \cup {"log-format"}
  BY DEF Valid, OptionsOK, LocalOK, OnlyLocal

LEMMA ProtobufLine ==
  ASSUME Valid, ~LocalSelected(line), ProtobufSelected(line)
  PROVE  /\ line.args = <<>> /\ ~Every(line, {"protobuf-file", "protobuf-stdin"})
         /\ DOMAIN line.options \subseteq ProtobufOptions \cup QueryOptions \cup {"log-format"}
  BY DEF Valid, OptionsOK, ProtobufOK, OnlyProtobuf

LEMMA NativeLine ==
  ASSUME Valid, ~LocalSelected(line), ~ProtobufSelected(line), NativeSelected(line)
  PROVE  /\ line.args = <<>> /\ ~Every(line, {"nats", "nats-history"})
         /\ DOMAIN line.options \subseteq NatsOptions \cup QueryOptions
                                    \cup {"log-format", "descriptor-set", "message-type"}
         /\ Some(line, HistoryOptions) => Changed(line, "nats-history")
         /\ Some(line, SecurityOptions) => line.options["server"] = "tls"
         /\ Changed(line, "descriptor-set") => Value(line, "nats-codec", "json") = "protobuf"
<1>1. ProtobufOK(line) /\ NatsOK(line)
  BY DEF Valid, OptionsOK
<1>2. Changed(line, "descriptor-set") => Value(line, "nats-codec", "json") = "protobuf"
  BY <1>1 DEF ProtobufOK, Some
<1> QED BY <1>1, <1>2 DEF NatsOK, OnlyNats, SecurityOK

Sources == {"input-file", "input-stdin", "protobuf-file", "protobuf-stdin", "nats", "nats-history"}
Given   == {f \in Sources : Changed(line, f)}

LEMMA OneSource ==
  ASSUME Valid, Inspects(line)
  PROVE  \E f \in Sources : Given = {f}
<1>1. CASE LocalSelected(line)
  <2>1. Given \subseteq {"input-file", "input-stdin"}
    BY <1>1, LocalLine DEF Given, Sources, Changed, LocalOptions, QueryOptions
  <2>2. \E f \in {"input-file", "input-stdin"} : f \in Given
    BY <1>1 DEF LocalSelected, Some, Given, Sources
  <2>3. ~("input-file" \in Given /\ "input-stdin" \in Given)
    BY <1>1, LocalLine DEF Every, Given
  <2> QED BY <2>1, <2>2, <2>3 DEF Sources
<1>2. CASE ~LocalSelected(line) /\ ProtobufSelected(line)
  <2>1. Given \subseteq {"protobuf-file", "protobuf-stdin"}
    BY <1>2, ProtobufLine DEF Given, Sources, Changed, ProtobufOptions, QueryOptions
  <2>2. \E f \in {"protobuf-file", "protobuf-stdin"} : f \in Given
    BY <1>2 DEF ProtobufSelected, Some, Given, Sources
  <2>3. ~("protobuf-file" \in Given /\ "protobuf-stdin" \in Given)
    BY <1>2, ProtobufLine DEF Every, Given
  <2> QED BY <2>1, <2>2, <2>3 DEF Sources
<1>3. CASE ~LocalSelected(line) /\ ~ProtobufSelected(line) /\ NativeSelected(line)
  <2>1. Given \subseteq {"nats", "nats-history"}
    BY <1>3 DEF Given, Sources, LocalSelected, ProtobufSelected, Some
  <2>2. \E f \in {"nats", "nats-history"} : f \in Given
    BY <1>3 DEF NativeSelected, Some, Given, Sources
  <2>3. ~("nats" \in Given /\ "nats-history" \in Given)
    BY <1>3, NativeLine DEF Every, Given
  <2> QED BY <2>1, <2>2, <2>3 DEF Sources
<1> QED BY <1>1, <1>2, <1>3 DEF Inspects

(* One option and another are given for one thing each: what a command     *)
(* line that inspects something has not been given.                        *)
LEMMA InspectionIsUnderstood ==
  ASSUME Valid, Inspects(line)
  PROVE  /\ line.args = <<>> /\ Cardinality(Given) = 1
         /\ ~Some(line, DocumentOptions)
         /\ Some(line, HistoryOptions) => "nats-history" \in Given
         /\ Some(line, SecurityOptions) => line.options["server"] = "tls"
         /\ Changed(line, "descriptor-set") =>
              Mode(line) = "protobuf" \/ line.options["nats-codec"] = "protobuf"
<1>1. Cardinality(Given) = 1
  BY OneSource, FS_Singleton
<1>2. CASE LocalSelected(line)
  <2>1. /\ line.args = <<>>
        /\ DOMAIN line.options \subseteq LocalOptions \cup QueryOptions \cup {"log-format"}
    BY <1>2, LocalLine
  <2>2. \A f \in DocumentOptions \cup HistoryOptions \cup SecurityOptions \cup {"descriptor-set"} :
          f \notin LocalOptions \cup QueryOptions \cup {"log-format"}
    BY DEF DocumentOptions, HistoryOptions, SecurityOptions, LocalOptions, QueryOptions
  <2> QED BY <1>1, <2>1, <2>2 DEF Some, Changed
<1>3. CASE ~LocalSelected(line) /\ ProtobufSelected(line)
  <2>1. /\ line.args = <<>>
        /\ DOMAIN line.options \subseteq ProtobufOptions \cup QueryOptions \cup {"log-format"}
    BY <1>3, ProtobufLine
  <2>2. \A f \in DocumentOptions \cup HistoryOptions \cup SecurityOptions :
          f \notin ProtobufOptions \cup QueryOptions \cup {"log-format"}
    BY DEF DocumentOptions, HistoryOptions, SecurityOptions, ProtobufOptions, QueryOptions
  <2>3. Mode(line) = "protobuf"
    BY <1>3, ModesOfALine
  <2> QED BY <1>1, <2>1, <2>2, <2>3 DEF Some, Changed
<1>4. CASE ~LocalSelected(line) /\ ~ProtobufSelected(line) /\ NativeSelected(line)
  <2>1. /\ line.args = <<>>
        /\ DOMAIN line.options \subseteq NatsOptions \cup QueryOptions
                                    \cup {"log-format", "descriptor-set", "message-type"}
        /\ Some(line, HistoryOptions) => Changed(line, "nats-history")
        /\ Some(line, SecurityOptions) => line.options["server"] = "tls"
        /\ Changed(line, "descriptor-set") => Value(line, "nats-codec", "json") = "protobuf"
    BY <1>4, NativeLine
  <2>2. \A f \in DocumentOptions :
          f \notin NatsOptions \cup QueryOptions \cup {"log-format", "descriptor-set", "message-type"}
    BY DEF DocumentOptions, NatsOptions, HistoryOptions, SecurityOptions, QueryOptions
  <2>3. ~Some(line, DocumentOptions)
    BY <2>1, <2>2 DEF Some, Changed
  <2>4. Changed(line, "nats-history") => "nats-history" \in Given
    BY DEF Given, Sources
  <2>5. Value(line, "nats-codec", "json") = "protobuf" => line.options["nats-codec"] = "protobuf"
    BY DEF Value
  <2> QED BY <1>1, <2>1, <2>3, <2>4, <2>5
<1> QED BY <1>2, <1>3, <1>4 DEF Inspects

(* And what one that edits documents has not been given. *)
LEMMA DocumentLine ==
  ASSUME IsCommandLine(line), Accepts
  PROVE  /\ DOMAIN line.options \subseteq DocumentOptions \cup {"log-format"}
         /\ \A r \in Conflicts : ~(Changed(line, r[1]) /\ Changed(line, r[2]))
         /\ Changed(line, "backup") => Changed(line, "in-place")
         /\ Changed(line, "where") => Changed(line, "in-place") \/ FromStdin(line)
         /\ Changed(line, "where") => Changed(line, "query") \/ Changed(line, "from-file")
         /\ Mode(line) \in {"dryrun", "check"} => Len(line.args) = 1
<1>1. /\ ~LocalSelected(line) /\ ~ProtobufSelected(line) /\ ~NativeSelected(line)
      /\ LocalOK(line) /\ ProtobufOK(line) /\ NatsOK(line) /\ InteractionOK(line) /\ RouteOK(line)
  BY DEF Accepts, Valid, Inspects, OptionsOK, DocumentOK
<1>2. /\ ~Some(line, {"input-codec", "to", "bfbs"})
      /\ ~Some(line, {"descriptor-set", "message-type"})
      /\ ~Some(line, NatsOptions \cup QueryOptions)
  BY <1>1 DEF LocalOK, ProtobufOK, NatsOK
<1>3. DOMAIN line.options \subseteq Options
  BY DEF IsCommandLine
<1>4. \A f \in Options : f \in LocalOptions \cup ProtobufOptions => f \notin DOMAIN line.options
  BY <1>1, <1>2 DEF LocalSelected, ProtobufSelected, Some, Changed, LocalOptions, ProtobufOptions
<1>5. \A f \in NatsOptions \cup QueryOptions : f \notin DOMAIN line.options
  BY <1>2 DEF Some, Changed
<1>6. DOMAIN line.options \subseteq DocumentOptions \cup {"log-format"}
  BY <1>3, <1>4, <1>5 DEF Options
<1> QED BY <1>1, <1>6 DEF InteractionOK, RouteOK, Some

LEMMA ArgumentsAreFew ==
  ASSUME IsCommandLine(line)
  PROVE  DOMAIN line.args = 1..Len(line.args) /\ Len(line.args) \in Nat
<1>1. line.args \in {<<>>, <<"-">>, <<"a">>, <<"a", "b">>}
  BY DEF IsCommandLine, Arguments
<1> QED BY <1>1

(* Where every switch that is given is on, the mode is the one of the      *)
(* switches, and it has all the arguments.                                 *)
LEMMA DocumentIsUnderstood ==
  ASSUME IsCommandLine(line), Accepts
  PROVE  /\ Given = {}
         /\ DOMAIN line.options \subseteq DocumentOptions \cup {"log-format"}
         /\ Changed(line, "where") /\ Plain => Mode(line) \in {"files", "stdin"}
         /\ Changed(line, "backup") /\ Plain /\ ~Warns(line) => Mode(line) = "files"
         /\ Plain => Takes = {line.args[i] : i \in DOMAIN line.args}
<1>1. /\ DOMAIN line.options \subseteq DocumentOptions \cup {"log-format"}
      /\ Changed(line, "backup") => Changed(line, "in-place")
      /\ Changed(line, "where") => Changed(line, "in-place") \/ FromStdin(line)
      /\ Mode(line) \in {"dryrun", "check"} => Len(line.args) = 1
  BY DocumentLine
<1>2. /\ ~Inspects(line) /\ ArgsOK(line)
      /\ Mode(line) \in {"edit", "dryrun", "check", "files", "stdin", "once"}
  BY ModesOfALine DEF Accepts, Valid
<1>3. Given = {}
  BY <1>2 DEF Given, Sources, Inspects, LocalSelected, ProtobufSelected, NativeSelected, Some
<1>4. \A f \in Switches : Changed(line, f) /\ Plain => On(line, f)
  BY DEF Plain, Changed
<1>5. \A f \in Switches : On(line, f) => Changed(line, f)
  BY DEF On, Value
<1>6. {"in-place", "dry-run", "check", "edit"} \subseteq Switches
  BY DEF Switches
<1>7. /\ ~(Changed(line, "edit") /\ Changed(line, "in-place"))
      /\ ~(Changed(line, "where") /\ Changed(line, "dry-run"))
      /\ ~(Changed(line, "where") /\ Changed(line, "check"))
      /\ ~(Changed(line, "where") /\ Changed(line, "edit"))
  <2>1. /\ <<"edit", "in-place">> \in Conflicts /\ <<"where", "dry-run">> \in Conflicts
        /\ <<"where", "check">> \in Conflicts
        /\ <<"edit", "query">> \in Conflicts /\ <<"edit", "from-file">> \in Conflicts
    BY DEF Conflicts
  <2> QED BY <2>1, DocumentLine
<1>8. Changed(line, "in-place") /\ (Changed(line, "dry-run") \/ Changed(line, "check"))
        => Warns(line)
  BY DEF Warns, Precedences
<1>9. Plain /\ Changed(line, "in-place") => Mode(line) \in {"files", "dryrun", "check"}
  BY <1>2, <1>4, <1>5, <1>6, <1>7, ModesOfALine
<1>10. Plain /\ Changed(line, "where") => Mode(line) \in {"files", "stdin"}
  <2>1. Changed(line, "where") => Mode(line) \notin {"edit", "dryrun", "check"}
    BY <1>5, <1>6, <1>7, ModesOfALine
  <2> QED BY <1>1, <1>2, <1>9, <2>1, ModesOfALine
<1>11. Plain /\ Changed(line, "backup") /\ ~Warns(line) => Mode(line) = "files"
  BY <1>1, <1>5, <1>6, <1>8, <1>9, ModesOfALine
<1>12. Plain => Takes = {line.args[i] : i \in DOMAIN line.args}
  <2>1. CASE Mode(line) = "files"
    BY <2>1 DEF Takes
  <2>2. ASSUME Plain, Mode(line) # "files"
        PROVE  Len(line.args) <= 1
    <3>1. Changed(line, "in-place") => Len(line.args) = 1
      BY <1>1, <1>9, <2>2
    <3>2. CASE Changed(line, "edit")
      <4>1. Len(line.args) = 1
        BY <1>2, <3>2 DEF ArgsOK
      <4> QED BY <4>1
    <3>3. CASE ~Changed(line, "edit") /\ ~Changed(line, "in-place")
      BY <1>2, <3>3 DEF ArgsOK
    <3>4. CASE Changed(line, "in-place")
      <4>1. Len(line.args) = 1
        BY <3>1, <3>4
      <4> QED BY <4>1
    <3> QED BY <3>2, <3>3, <3>4
  <2>3. ASSUME Plain, Mode(line) # "files"
        PROVE  DOMAIN line.args \cap {1} = DOMAIN line.args
    <3>1. DOMAIN line.args = 1..Len(line.args) /\ Len(line.args) \in Nat
      BY ArgumentsAreFew
    <3> QED BY <2>2, <2>3, <3>1
  <2> QED BY <2>1, <2>3 DEF Takes
<1> QED BY <1>1, <1>3, <1>10, <1>11, <1>12

-----------------------------------------------------------------------------
LEMMA Statuses ==
  \A e \in Errors :
    /\ StatusOf(e) \in {0, 1, 2, 130} /\ StatusOf(e) # NoExit
    /\ StatusOf(e) = 0 <=> e = "none"
    /\ StatusOf(e) = 1 <=> e \in {"told", "raw"}
    /\ StatusOf(e) = 2 <=> e = "drift"
    /\ StatusOf(e) = 130 <=> e = "cancelled"
  BY DEF StatusOf, Errors, NoExit

(* The stages in which nothing has been written and nothing has been read  *)
(* or all of it.                                                           *)
Calm == {"destination", "filter", "project", "schema", "acquire", "decode", "predicate",
         "projection", "encode", "write"}

(* What holds of the steps of Main before it has an error. *)
LEMMA StageFacts ==
  ASSUME CommandIInv, step \in Stages
  PROVE  /\ Valid /\ Here /\ Inspects(line) /\ ~finished /\ err = "none" /\ said = 0
         /\ exited = NoExit
         /\ step \in Calm => mishap = "none" /\ stdout = "nothing" /\ callback = "off" /\ ~timed
         /\ step \in {"cleanup", "acquired", "reading", "blocked"} => stdout = "nothing"
<1>1. /\ step \in Inspecting /\ step \notin Ending \cup {"fail", "return", "over"}
      /\ step \notin {"exit", "over"}
  BY DEF Stages, Inspecting, Ending
<1>2. Valid /\ Here /\ Inspects(line)
  BY <1>1, ModesOfALine DEF CommandIInv, Checked
<1>3. ~finished /\ err = "none" /\ said = 0
  BY <1>1 DEF CommandIInv, Order, CommandTypeOK
<1>4. exited = NoExit
  BY <1>1 DEF CommandIInv, Order
<1>5. step \in Calm => /\ step \notin {"writing", "check", "cleanup", "acquired"}
                       /\ step \notin {"reading", "blocked", "cleanup"}
  BY DEF Calm
<1>6. step \in Calm => mishap = "none" /\ stdout = "nothing" /\ callback = "off" /\ ~timed
  BY <1>1, <1>5 DEF CommandIInv, Progress, Deadline
<1>7. step \in {"cleanup", "acquired", "reading", "blocked"} => stdout = "nothing"
  BY <1>1 DEF CommandIInv, Progress
<1> QED BY <1>2, <1>3, <1>4, <1>6, <1>7

LEMMA PassOnKeepsIInv ==
  ASSUME CommandIInv, NEW s \in Calm, NEW next \in Calm, At(s), Pass(next)
  PROVE  CommandIInv'
<1> USE DEF CommandIInv
<1>1. step = s /\ step' = next /\ OnlyStep /\ UNCHANGED stopVars
  BY DEF At, Pass, GoTo
<1>2. UNCHANGED <<line, owner, err, warned, said, handled, rewritten, stdout, input, result,
                  callback, timed, mishap, interrupted, exited>>
  BY <1>1 DEF OnlyStep, tellVars, ioVars, stdinVars, endVars
<1>3. OwnerStep({}) /\ UNCHANGED <<reason, owes>>
  BY <1>1, QuietStep
<1>4. step \in Stages /\ step' \in Stages
  BY <1>1 DEF Calm, Stages
<1>5. /\ Valid /\ Here /\ Inspects(line) /\ ~finished /\ err = "none" /\ said = 0
      /\ exited = NoExit /\ mishap = "none" /\ stdout = "nothing" /\ callback = "off" /\ ~timed
  BY <1>1, <1>4, StageFacts
<1>6. CommandTypeOK' /\ IsCommandLine(line)' /\ StopIInv'
  <2>1. StopIInv' /\ IsCommandLine(line)'
    BY <1>2, <1>3 DEF OwnerStep
  <2>2. CommandTypeOK'
    BY <1>2, <2>1 DEF CommandTypeOK, StopIInv
  <2> QED BY <2>1, <2>2
<1>7. step' \in StepNames /\ Checked'
  <2>1. /\ step' \in Inspecting /\ step' \in StepNames
        /\ step' \notin {"prerun", "options", "document", "route", "mode", "observe"}
    BY <1>4 DEF Inspecting, Stages, StepNames
  <2> QED BY <1>2, <1>5, <2>1 DEF Checked, Valid, Here, Takes, Accepts
<1>8. Order'
  <2>1. step' \notin Ending \cup {"return"} /\ step' # "over"
    BY <1>4 DEF Stages, Ending
  <2> QED BY <1>2, <1>3, <1>5, <2>1 DEF Order, OwnerStep
<1>9. Wished'
  <2>1. step' \notin {"fail", "ask", "tell"}
    BY <1>4 DEF Stages
  <2> QED BY <1>2, <1>3, <2>1 DEF Wished, Wish, OwnerStep
<1>10. Deadline'
  BY <1>2, <1>3, <1>5 DEF Deadline, OwnerStep
<1>11. Progress'
  <2>1. step' \notin {"writing", "check", "cleanup", "acquired"}
    BY <1>1 DEF Calm
  <2> QED BY <1>2, <1>5, <2>1 DEF Progress
<1>12. Judged'
  <2>1. step' \notin Ending \cup {"return"}
    BY <1>4 DEF Stages, Ending
  <2> QED BY <1>2, <1>3, <1>5, <2>1 DEF Judged, Here, Valid
<1> QED BY <1>6, <1>7, <1>8, <1>9, <1>10, <1>11, <1>12

(* fail: what is asked of the owner has a ground. *)
LEMMA FailKeepsIInv ==
  ASSUME CommandIInv, NEW s \in Calm \cup {"acquired", "writing", "check"},
         NEW why \in {"failure", "cancel"}, At(s), Fail(why), mishap' \in Mishaps \cup Lent \cup {"none"},
         why = "cancel" => ctxDone \/ reason # "" \/ parent = "cancelled" \/ mishap' \in Lent,
         why = "failure" => mishap' # "none" \/ reason # "",
         mishap # "none" => mishap' = mishap,
         stdout # "nothing" => mishap' \in {"none", "writing", "lent writer"}
  PROVE  CommandIInv'
<1> USE DEF CommandIInv
<1>1. step = s /\ step' = "fail" /\ Request(Main, why)
  BY DEF At, Fail, GoTo
<1>2. UNCHANGED <<line, owner, err, warned, said, handled, rewritten, stdout, input, result,
                  callback, timed, interrupted, exited>>
  BY DEF Fail, tellVars, ioVars, stdinVars
<1>3. OwnerStep({why})
  BY <1>1, RequestStep, CommandCallers DEF Reasons
<1>4. step \in Stages
  BY <1>1 DEF Calm, Stages
<1>5. /\ Valid /\ Here /\ Inspects(line) /\ ~finished /\ err = "none" /\ said = 0
      /\ exited = NoExit
  BY <1>4, StageFacts
<1>6. callback = "off" /\ ~timed
  BY <1>1 DEF Deadline, Calm
<1>7. reason' # "" /\ (reason' = reason \/ (reason = "" /\ reason' = why))
  BY <1>3, <1>5 DEF OwnerStep
<1>8. CommandTypeOK' /\ IsCommandLine(line)' /\ StopIInv'
  <2>1. StopIInv' /\ StopTypeOK'
    BY <1>3 DEF OwnerStep, StopIInv
  <2>2. {owner', warned', timed', interrupted'} \subseteq BOOLEAN
    BY <1>2 DEF CommandTypeOK
  <2>3. /\ exited' \in {NoExit, 0, 1, 2, 130} /\ said' \in 0..1
        /\ mishap' \in Mishaps \cup Lent \cup {"none"}
    BY <1>2 DEF CommandTypeOK
  <2>4. err' \in Errors /\ input' \in {"open", "closed"}
    BY <1>2 DEF CommandTypeOK
  <2>5. stdout' \in {"nothing", "partial", "whole"}
    BY <1>2 DEF CommandTypeOK
  <2>6. result' \in {"none", "body", "failed", "cancelled"}
    BY <1>2 DEF CommandTypeOK
  <2>7. callback' \in {"off", "armed", "running", "over"}
    BY <1>2 DEF CommandTypeOK
  <2>8. IsCommandLine(line)'
    BY <1>2
  <2> QED BY <2>1, <2>2, <2>3, <2>4, <2>5, <2>6, <2>7, <2>8
            DEF CommandTypeOK
<1>9. step' \in StepNames /\ Checked'
  <2>1. step' \in Inspecting /\ step' \in StepNames
    BY <1>1 DEF Inspecting, StepNames
  <2> QED BY <1>1, <1>2, <1>5, <2>1 DEF Checked, Valid, Here, Takes, Accepts
<1>10. Order'
  BY <1>1, <1>2, <1>3, <1>5 DEF Order, OwnerStep
<1>11. Wished'
  <2>1. reason' = "cancel" => Wish'
    BY <1>2, <1>3, <1>5, <1>7 DEF Wished, Wish, OwnerStep, Lent
  <2> QED BY <1>1, <1>2, <1>3, <1>7, <2>1 DEF Wished, OwnerStep
<1>12. Deadline'
  BY <1>2, <1>3, <1>6 DEF Deadline, OwnerStep
<1>13. Progress'
  BY <1>1, <1>2 DEF Progress
<1>14. Judged'
  <2>1. reason' = "failure" => ~Valid \/ mishap' # "none"
    BY <1>5, <1>7 DEF Judged
  <2>2. step' \notin Ending \cup {"return"}
    BY <1>1 DEF Ending
  <2> QED BY <1>2, <1>5, <2>1, <2>2 DEF Judged, Here, Valid
<1> QED BY <1>1, <1>8, <1>9, <1>10, <1>11, <1>12, <1>13, <1>14

LEMMA StageKeepsIInv ==
  ASSUME CommandIInv, NEW s \in Calm, NEW next \in Calm, Stage(s, next) \/ (At(s) /\ Pass(next))
  PROVE  CommandIInv'
<1>1. CASE Notices(s)
  BY <1>1, StageFacts, FailKeepsIInv DEF Notices, At, Calm, Stages
<1>2. CASE GoesWrong(s)
  <2>1. s \in Mishaps /\ mishap' = s /\ s # "none" /\ At(s) /\ Fail("failure")
    BY <1>2 DEF GoesWrong, Calm
  <2>2. mishap = "none" /\ stdout = "nothing"
    BY <2>1, StageFacts DEF At, Calm, Stages
  <2> QED BY <2>1, <2>2, FailKeepsIInv
<1>3. CASE At(s) /\ Pass(next)
  BY <1>3, PassOnKeepsIInv
<1> QED BY <1>1, <1>2, <1>3 DEF Stage

LEMMA StagesKeepIInv ==
  ASSUME CommandIInv,
         \/ BinaryDestination \/ CompileFilter \/ CompileProject \/ PrepareSchema
         \/ Decode \/ Project \/ Encode
  PROVE  CommandIInv'
<1>1. {"destination", "filter", "project", "schema", "acquire", "decode", "predicate",
       "projection", "encode", "write"} \subseteq Calm
  BY DEF Calm
<1>2. CASE BinaryDestination
  <2>1. Stage("destination", "filter") \/ (At("destination") /\ Pass("filter"))
    BY <1>2 DEF BinaryDestination, Stage
  <2> QED BY <1>1, <2>1, StageKeepsIInv
<1>3. CASE CompileFilter
  BY <1>1, <1>3, StageKeepsIInv DEF CompileFilter, If
<1>4. CASE CompileProject
  BY <1>1, <1>4, StageKeepsIInv DEF CompileProject, If
<1>5. CASE PrepareSchema
  BY <1>1, <1>5, StageKeepsIInv DEF PrepareSchema, If
<1>6. CASE Decode
  BY <1>1, <1>6, StageKeepsIInv DEF Decode
<1>7. CASE Project
  BY <1>1, <1>7, StageKeepsIInv DEF Project, If
<1>8. CASE Encode
  BY <1>1, <1>8, StageKeepsIInv DEF Encode
<1> QED BY <1>2, <1>3, <1>4, <1>5, <1>6, <1>7, <1>8

(* A step from one stage to another that asks nothing of the owner. *)
LEMMA MoveKeepsIInv ==
  ASSUME CommandIInv, step \in Stages, step' \in Stages, UNCHANGED stopVars,
         UNCHANGED <<line, owner, tellVars, handled, rewritten, interrupted, exited>>,
         input' \in {"open", "closed"}, result' \in {"none", "body", "failed", "cancelled"},
         callback' \in {"off", "armed", "running", "over"}, timed' \in BOOLEAN,
         stdout' \in {"nothing", "partial", "whole"}, mishap' \in Mishaps \cup Lent \cup {"none"},
         result' = "cancelled" => reason # "" \/ parent = "cancelled" \/ mishap' \in Lent,
         mishap # "none" => mishap' = mishap, Deadline', Progress'
  PROVE  CommandIInv'
<1> USE DEF CommandIInv
<1>1. UNCHANGED <<line, owner, err, warned, said, handled, rewritten, interrupted, exited>>
  BY DEF tellVars
<1>2. OwnerStep({}) /\ UNCHANGED <<reason, owes>>
  BY QuietStep
<1>3. Valid /\ Here /\ Inspects(line) /\ ~finished /\ err = "none" /\ said = 0 /\ exited = NoExit
  BY StageFacts
<1>4. StopIInv' /\ IsCommandLine(line)'
  BY <1>1, <1>2 DEF OwnerStep
<1>5. CommandTypeOK'
  BY <1>1, <1>4 DEF CommandTypeOK, StopIInv
<1>6. step' \in StepNames /\ Checked'
  <2>1. step' \in Inspecting /\ step' \in StepNames
        /\ step' \notin {"prerun", "options", "document", "route", "mode", "observe"}
    BY DEF Inspecting, Stages, StepNames
  <2> QED BY <1>1, <1>3, <2>1 DEF Checked, Valid, Here, Takes, Accepts
<1>7. Order'
  <2>1. step' \notin Ending \cup {"return"} /\ step' # "over"
    BY DEF Stages, Ending
  <2> QED BY <1>1, <1>2, <1>3, <2>1 DEF Order, OwnerStep
<1>8. Wished'
  <2>1. step' \notin {"fail", "ask", "tell"}
    BY DEF Stages
  <2>2. /\ hook' = hook /\ parent' = parent /\ reason' = reason /\ finished' = finished
        /\ killed' = killed /\ ctxDone' = ctxDone /\ owes' = owes
    BY <1>2 DEF OwnerStep
  <2>3. result' = "cancelled" => reason' # "" \/ parent' = "cancelled" \/ mishap' \in Lent
    BY <2>2
  <2>4. killed' = 130 => reason' = "cancel"
    BY <2>2 DEF Wished
  <2>5. /\ hook' => parent' = "live"
        /\ reason' \in {"", "failure", "cancel"}
        /\ ~finished' /\ (ctxDone' \/ \E c \in Callers : owes'[c] = "cancel")
             => reason' # "" \/ parent' = "cancelled"
    BY <2>2 DEF Wished
  <2>6. reason' = "cancel" => Wish'
    <3>1. reason' = "cancel" => Wish
      BY <2>2 DEF Wished
    <3>2. mishap \in Lent => mishap' = mishap
      BY DEF Lent
    <3> QED BY <1>1, <2>2, <3>1, <3>2 DEF Wish
  <2> QED BY <2>1, <2>3, <2>4, <2>5, <2>6 DEF Wished
<1>9. Judged'
  <2>1. step' \notin Ending \cup {"return"}
    BY DEF Stages, Ending
  <2> QED BY <1>1, <1>2, <1>3, <2>1 DEF Judged, Here, Valid
<1> QED BY <1>4, <1>5, <1>6, <1>7, <1>8, <1>9

LEMMA AcquireKeepsIInv == ASSUME CommandIInv, Acquire PROVE CommandIInv'
<1> USE DEF CommandIInv
<1>1. /\ step = "acquire" /\ step' = "reading" /\ UNCHANGED stopVars
      /\ callback' \in {"armed", "off"} /\ (callback' # "off" => hook)
      /\ UNCHANGED <<line, owner, tellVars, handled, rewritten, stdout, input, result, timed,
                     mishap, interrupted, exited>>
  BY DEF Acquire, At, GoTo, ioVars, endVars
<1>2. step \in Stages /\ step' \in Stages /\ step \in Calm
  BY <1>1 DEF Stages, Calm
<1>3. mishap = "none" /\ stdout = "nothing" /\ ~timed
  BY <1>2, StageFacts
<1>4. Deadline' /\ Progress'
  BY <1>1, <1>3 DEF Deadline, Progress, stopVars, world
<1>5. /\ input \in {"open", "closed"} /\ result \in {"none", "body", "failed", "cancelled"}
      /\ stdout \in {"nothing", "partial", "whole"} /\ mishap \in Mishaps \cup Lent \cup {"none"}
      /\ timed \in BOOLEAN /\ (result = "cancelled" => reason # "" \/ parent = "cancelled" \/ mishap \in Lent)
  BY DEF CommandTypeOK, Wished
<1> QED BY <1>1, <1>2, <1>4, <1>5, MoveKeepsIInv

LEMMA ReadBodyKeepsIInv == ASSUME CommandIInv, ReadBody PROVE CommandIInv'
<1> USE DEF CommandIInv
<1>1. /\ step \in {"reading", "blocked"} /\ UNCHANGED stopVars
      /\ UNCHANGED <<line, owner, tellVars, handled, rewritten, stdout, input, callback, timed,
                     interrupted, exited>>
      /\ \/ step' \in {"reading", "blocked"} /\ UNCHANGED <<result, mishap>>
         \/ step' = "cleanup" /\ result' \in {"body", "cancelled"} /\ mishap' = mishap
            /\ (result' = "cancelled" => ctxDone)
         \/ step' = "cleanup" /\ result' = "failed" /\ mishap' = "blocked" /\ "blocked" \in Mishaps
         \/ step' = "cleanup" /\ result' = "cancelled" /\ mishap' = "lent reader"
         \/ step' = "cleanup" /\ result' = "failed" /\ mishap' = mishap /\ timed
  BY DEF ReadBody, ReadIs, Pass, OnlyStep, At, GoTo, ioVars, stdinVars, endVars
<1>2. step \in Stages /\ step' \in Stages /\ step' \in {"reading", "blocked", "cleanup"}
  BY <1>1 DEF Stages
<1>3. stdout = "nothing" /\ ~finished
  BY <1>1, <1>2, StageFacts
<1>4. mishap = "none"
  BY <1>1 DEF Progress, Ending
<1>5. ctxDone => reason # "" \/ parent = "cancelled"
  BY <1>3 DEF Wished
<1>6. timed => reason # ""
  BY DEF Deadline
<1>7. Deadline'
  BY <1>1, <1>2 DEF Deadline, stopVars, world
<1>8. Progress'
  <2>1. step' = "cleanup" => /\ result' # "none" /\ (mishap' # "none" => result' \in {"failed", "cancelled"})
                             /\ (result' = "failed" => mishap' # "none" \/ reason # "")
    BY <1>1, <1>4, <1>6
  <2>2. step' # "cleanup" => mishap' = "none"
    BY <1>1, <1>4
  <2> QED BY <1>1, <1>2, <1>3, <2>1, <2>2 DEF Progress, stopVars
<1>9. /\ result' \in {"none", "body", "failed", "cancelled"} /\ mishap' \in Mishaps \cup Lent \cup {"none"}
      /\ result' = "cancelled" => reason # "" \/ parent = "cancelled" \/ mishap' \in Lent
  BY <1>1, <1>4, <1>5 DEF CommandTypeOK, Wished, Lent
<1>10. /\ UNCHANGED stopVars
       /\ UNCHANGED <<line, owner, tellVars, handled, rewritten, interrupted, exited>>
  BY <1>1
<1>11. /\ input' \in {"open", "closed"} /\ timed' \in BOOLEAN
       /\ callback' \in {"off", "armed", "running", "over"}
       /\ stdout' \in {"nothing", "partial", "whole"}
  BY <1>1 DEF CommandTypeOK
<1> QED BY <1>2, <1>4, <1>7, <1>8, <1>9, <1>10, <1>11, MoveKeepsIInv

LEMMA CleanupKeepsIInv == ASSUME CommandIInv, Cleanup PROVE CommandIInv'
<1> USE DEF CommandIInv
<1>1. /\ step = "cleanup" /\ step' = "acquired" /\ UNCHANGED stopVars
      /\ callback' = "off" /\ timed' = FALSE
      /\ UNCHANGED <<line, owner, tellVars, handled, rewritten, stdout, input, result, mishap,
                     interrupted, exited>>
  BY DEF Cleanup, Joined, At, GoTo, ioVars, endVars
<1>2. step \in Stages /\ step' \in Stages
  BY <1>1 DEF Stages
<1>3. Deadline'
  BY <1>1 DEF Deadline
<1>4. Progress'
  <2>1. /\ stdout = "nothing" /\ result # "none" /\ (mishap # "none" => result \in {"failed", "cancelled"})
        /\ (result = "failed" => mishap # "none" \/ reason # "")
    BY <1>1, <1>2, StageFacts DEF Progress
  <2>2. reason' = reason
    BY <1>1 DEF stopVars
  <2> QED BY <1>1, <2>1, <2>2 DEF Progress
<1>5. /\ input \in {"open", "closed"} /\ result \in {"none", "body", "failed", "cancelled"}
      /\ stdout \in {"nothing", "partial", "whole"} /\ mishap \in Mishaps \cup Lent \cup {"none"}
      /\ (result = "cancelled" => reason # "" \/ parent = "cancelled" \/ mishap \in Lent)
  BY DEF CommandTypeOK, Wished
<1> QED BY <1>1, <1>2, <1>3, <1>4, <1>5, MoveKeepsIInv

LEMMA AcquiredKeepsIInv == ASSUME CommandIInv, Acquired PROVE CommandIInv'
<1> USE DEF CommandIInv
<1>1. step = "acquired" /\ At("acquired") /\ step \in Stages
  BY DEF Acquired, At, Stages
<1>2. stdout = "nothing" /\ callback = "off" /\ ~timed
  BY <1>1, StageFacts DEF Deadline
<1>3. /\ result # "none" /\ (mishap # "none" => result \in {"failed", "cancelled"})
      /\ (result = "failed" => mishap # "none" \/ reason # "")
  BY <1>1 DEF Progress
<1>4. CASE result = "body"
  <2>1. Pass("decode")
    BY <1>4 DEF Acquired
  <2>2. /\ step' = "decode" /\ step' \in Stages /\ UNCHANGED stopVars
        /\ UNCHANGED <<line, owner, tellVars, handled, rewritten, stdout, input, result, callback,
                       timed, mishap, interrupted, exited>>
    BY <2>1 DEF Pass, OnlyStep, GoTo, Stages, ioVars, stdinVars, endVars
  <2>3. Deadline' /\ Progress'
    BY <1>2, <1>3, <1>4, <2>2 DEF Deadline, Progress
  <2> QED BY <1>1, <1>4, <2>2, <2>3, MoveKeepsIInv DEF CommandTypeOK
<1>5. CASE result = "failed"
  <2>1. Fail("failure") /\ mishap' = mishap
    BY <1>5 DEF Acquired
  <2> QED BY <1>1, <1>2, <1>3, <1>5, <2>1, FailKeepsIInv DEF CommandTypeOK
<1>6. CASE result = "cancelled"
  <2>1. Fail("cancel") /\ mishap' = mishap
    BY <1>6 DEF Acquired
  <2>2. reason # "" \/ parent = "cancelled" \/ mishap \in Lent
    BY <1>6 DEF Wished
  <2> QED BY <1>1, <1>2, <2>1, <2>2, FailKeepsIInv DEF CommandTypeOK
<1> QED BY <1>3, <1>4, <1>5, <1>6 DEF CommandTypeOK

(* An inspection comes to its end without a failure: its view is whole, or *)
(* the filter has left nothing to show.                                    *)
LEMMA EndedKeepsIInv ==
  ASSUME CommandIInv, NEW s \in {"predicate", "check"}, At(s), Pass("return"),
         s = "predicate" => Changed(line, "filter")
  PROVE  CommandIInv'
<1> USE DEF CommandIInv
<1>1. step = s /\ step' = "return" /\ OnlyStep /\ UNCHANGED stopVars
  BY DEF At, Pass, GoTo
<1>2. UNCHANGED <<line, owner, err, warned, said, handled, rewritten, stdout, input, result,
                  callback, timed, mishap, interrupted, exited>>
  BY <1>1 DEF OnlyStep, tellVars, ioVars, stdinVars, endVars
<1>3. OwnerStep({}) /\ UNCHANGED <<reason, owes>>
  BY <1>1, QuietStep
<1>4. Valid /\ Here /\ Inspects(line) /\ ~finished /\ err = "none" /\ said = 0 /\ exited = NoExit
  BY <1>1, StageFacts DEF Stages
<1>5. /\ mishap = "none" /\ callback = "off" /\ ~timed
      /\ IF stdout = "nothing" THEN Changed(line, "filter") ELSE stdout = "whole"
  BY <1>1 DEF Progress, Deadline, Ending
<1>6. StopIInv' /\ IsCommandLine(line)'
  BY <1>2, <1>3 DEF OwnerStep
<1>7. CommandTypeOK'
  BY <1>2, <1>6 DEF CommandTypeOK, StopIInv
<1>8. step' \in StepNames /\ Checked'
  <2>1. step' \in Inspecting /\ step' \in StepNames
    BY <1>1 DEF Inspecting, StepNames
  <2> QED BY <1>1, <1>2, <1>4, <2>1 DEF Checked, Valid, Here, Takes, Accepts
<1>9. Order'
  BY <1>1, <1>2, <1>3, <1>4 DEF Order, OwnerStep, Ending
<1>10. Wished'
  BY <1>1, <1>2, <1>3 DEF Wished, Wish, OwnerStep
<1>11. Deadline' /\ Progress'
  BY <1>1, <1>2, <1>5 DEF Deadline, Progress
<1>12. Judged'
  BY <1>2, <1>3, <1>4, <1>5 DEF Judged, Here, Valid
<1> QED BY <1>6, <1>7, <1>8, <1>9, <1>10, <1>11, <1>12

LEMMA PredicateKeepsIInv == ASSUME CommandIInv, Predicate PROVE CommandIInv'
<1>1. {"predicate", "projection"} \subseteq Calm
  BY DEF Calm
<1>2. CASE If(Changed(line, "filter"), "predicate", "projection")
  BY <1>1, <1>2, StageKeepsIInv DEF If
<1>3. CASE Changed(line, "filter") /\ At("predicate") /\ ~ctxDone /\ Pass("return")
  BY <1>3, EndedKeepsIInv
<1> QED BY <1>2, <1>3 DEF Predicate

LEMMA OutputKeepsIInv ==
  ASSUME CommandIInv,
         \/ At("write") /\ Output("partial", "writing")
         \/ At("writing") /\ Output("whole", "check")
  PROVE  CommandIInv'
<1> USE DEF CommandIInv
<1>1. /\ step \in {"write", "writing"} /\ UNCHANGED stopVars
      /\ \/ step' = "writing" /\ stdout' = "partial"
         \/ step' = "check" /\ stdout' = "whole"
      /\ UNCHANGED <<line, owner, tellVars, handled, rewritten, input, result, callback, timed,
                     mishap, interrupted, exited>>
  BY DEF Output, At, GoTo, stdinVars, endVars
<1>2. step \in Stages /\ step' \in Stages /\ step' \in {"writing", "check"}
  BY <1>1 DEF Stages
<1>3. mishap = "none" /\ callback = "off" /\ ~timed
  BY <1>1 DEF Progress, Deadline, Ending
<1>4. Deadline' /\ Progress'
  BY <1>1, <1>2, <1>3 DEF Deadline, Progress
<1>5. /\ input \in {"open", "closed"} /\ result \in {"none", "body", "failed", "cancelled"}
      /\ callback \in {"off", "armed", "running", "over"} /\ timed \in BOOLEAN
      /\ mishap \in Mishaps \cup Lent \cup {"none"}
      /\ (result = "cancelled" => reason # "" \/ parent = "cancelled" \/ mishap \in Lent)
  BY DEF CommandTypeOK, Wished
<1> QED BY <1>1, <1>2, <1>3, <1>4, <1>5, MoveKeepsIInv

LEMMA WriteKeepsIInv == ASSUME CommandIInv, Write PROVE CommandIInv'
<1> USE DEF CommandIInv
<1>1. ASSUME NEW s \in {"write", "writing", "check"}, Notices(s) PROVE CommandIInv'
  <2>1. At(s) /\ Fail("cancel") /\ ctxDone /\ mishap' = mishap /\ step = s
    BY <1>1 DEF Notices, At
  <2>2. mishap = "none" /\ mishap \in Mishaps \cup Lent \cup {"none"}
    BY <2>1 DEF Progress, Ending
  <2> QED BY <2>1, <2>2, FailKeepsIInv DEF Calm
<1>2. CASE GoesWrong("writing")
  <2>1. At("writing") /\ Fail("failure") /\ mishap' = "writing" /\ "writing" \in Mishaps
        /\ step = "writing"
    BY <1>2 DEF GoesWrong, At
  <2>2. mishap = "none"
    BY <2>1 DEF Progress, Ending
  <2> QED BY <2>1, <2>2, FailKeepsIInv
<1>3. CASE WriterGivesUp
  <2>1. At("writing") /\ Fail("cancel") /\ mishap' = "lent writer" /\ step = "writing"
    BY <1>3 DEF WriterGivesUp, At
  <2>2. mishap = "none" /\ "lent writer" \in Lent
    BY <2>1 DEF Progress, Ending, Lent
  <2> QED BY <2>1, <2>2, FailKeepsIInv
<1>4. CASE (At("write") /\ Output("partial", "writing")) \/ (At("writing") /\ Output("whole", "check"))
  BY <1>4, OutputKeepsIInv
<1>5. CASE At("check") /\ Pass("return")
  BY <1>5, EndedKeepsIInv
<1> QED BY <1>1, <1>2, <1>3, <1>4, <1>5 DEF Write

(* The verdict of the owner decides what is told. *)
LEMMA ToldKeepsIInv == ASSUME CommandIInv, Told PROVE CommandIInv'
<1> USE DEF CommandIInv
<1>1. /\ step = "fail" /\ step' = "return" /\ UNCHANGED stopVars
      /\ err' = (IF CodeOf(reason) = 130 THEN "cancelled" ELSE "told") /\ said' = said + 1
      /\ UNCHANGED <<line, owner, warned, handled, rewritten, stdout, input, result,
                     callback, timed, mishap, interrupted, exited>>
  BY DEF Told, At, GoTo, ioVars, stdinVars, endVars
<1>2. OwnerStep({}) /\ UNCHANGED <<reason, owes>>
  BY <1>1, QuietStep
<1>3. /\ Valid /\ Here /\ ~finished /\ err = "none" /\ said = 0 /\ exited = NoExit
      /\ callback = "off" /\ ~timed
  <2>1. Valid /\ Here
    BY <1>1 DEF Checked, Inspecting
  <2>2. err = "none"
    BY <1>1 DEF Order, Ending
  <2>3. ~finished /\ exited = NoExit /\ said = 0
    BY <1>1, <2>2 DEF Order, Ending
  <2>4. callback = "off" /\ ~timed
    BY <1>1 DEF Deadline
  <2> QED BY <2>1, <2>2, <2>3, <2>4
<1>4. /\ err' \in {"cancelled", "told"} /\ (err' = "cancelled" <=> reason = "cancel")
      /\ said' = 1 /\ (reason = "cancel" \/ reason = "failure")
  <2>1. CodeOf(reason) = 130 <=> reason = "cancel"
    BY OnlyCancelIs130
  <2>2. reason = "cancel" \/ reason = "failure"
    BY <1>1 DEF Wished
  <2> QED BY <1>1, <1>3, <2>1, <2>2
<1>5. StopIInv' /\ IsCommandLine(line)'
  BY <1>1, <1>2 DEF OwnerStep
<1>6. CommandTypeOK'
  BY <1>1, <1>4, <1>5 DEF CommandTypeOK, StopIInv, Errors
<1>7. step' \in StepNames /\ Checked'
  <2>1. step' \in Inspecting /\ step' \in StepNames
    BY <1>1 DEF Inspecting, StepNames
  <2> QED BY <1>1, <1>3, <2>1 DEF Checked, Valid, Here, Takes, Accepts
<1>8. Order'
  BY <1>1, <1>2, <1>3, <1>4 DEF Order, OwnerStep, Ending
<1>9. Wished'
  BY <1>1, <1>2 DEF Wished, Wish, OwnerStep
<1>10. Deadline' /\ Progress'
  <2>1. stdout # "nothing" => mishap \in {"none", "writing", "lent writer"}
    BY DEF Progress
  <2> QED BY <1>1, <1>3, <2>1 DEF Deadline, Progress
<1>11. Judged'
  BY <1>1, <1>2, <1>3, <1>4 DEF Judged, Here, Valid
<1> QED BY <1>5, <1>6, <1>7, <1>8, <1>9, <1>10, <1>11

(* What a call of finish leaves alone. *)
LEMMA FinishStep ==
  ASSUME StopIInv, Finish
  PROVE  /\ StopIInv' /\ UNCHANGED <<hook, parent, killed, ctxDone, reason>> /\ finished'
<1>1. StopIInv'
  BY NextIInv DEF StopNext
<1> QED BY <1>1 DEF Finish, world

LEMMA ReturnKeepsIInv == ASSUME CommandIInv, Return PROVE CommandIInv'
<1> USE DEF CommandIInv
<1>1. /\ step = "return" /\ step' = "execute"
      /\ UNCHANGED <<line, owner, err, warned, said, handled, rewritten, stdout, input, result,
                     callback, timed, mishap, interrupted, exited>>
  BY DEF Return, At, GoTo, OnlyStep, tellVars, ioVars, stdinVars, endVars
<1>2. /\ StopIInv' /\ UNCHANGED <<hook, parent, killed, ctxDone, reason>>
      /\ finished' = (finished \/ ~hook) /\ (hook => owes' = owes)
  <2>0. hook \in BOOLEAN /\ finished \in BOOLEAN
    BY DEF StopIInv, StopTypeOK
  <2>1. CASE hook
    <3>1. UNCHANGED stopVars
      BY <2>1 DEF Return
    <3> QED BY <2>0, <2>1, <3>1, QuietStep DEF OwnerStep, stopVars
  <2>2. CASE ~hook
    <3>1. Finish
      BY <2>2 DEF Return
    <3> QED BY <2>0, <2>2, <3>1, FinishStep
  <2> QED BY <2>0, <2>1, <2>2
<1>3. Valid /\ Here /\ ~finished /\ exited = NoExit /\ callback = "off" /\ ~timed
  <2>1. Valid /\ Here
    BY <1>1 DEF Checked, Inspecting
  <2>2. ~finished /\ exited = NoExit
    BY <1>1 DEF Order, Ending
  <2>3. callback = "off" /\ ~timed
    BY <1>1 DEF Deadline
  <2> QED BY <2>1, <2>2, <2>3
<1>4. IsCommandLine(line)'
  BY <1>1
<1>5. CommandTypeOK'
  BY <1>1, <1>2 DEF CommandTypeOK, StopIInv
<1>6. step' \in StepNames /\ Checked'
  <2>1. step' \notin Inspecting /\ step' \in StepNames
    BY <1>1 DEF Inspecting, Stages, StepNames, Ending
  <2> QED BY <1>1, <2>1 DEF Checked, Takes, Accepts, Valid
<1>7. Order'
  <2>1. err # "raw"
    BY <1>3 DEF Judged
  <2>2. said' = IF err' \in {"none", "drift"} THEN 0 ELSE 1
    BY <1>1, <2>1 DEF Order
  <2> QED BY <1>1, <1>2, <1>3, <2>1, <2>2 DEF Order, Ending
<1>8. Wished'
  BY <1>1, <1>2, <1>3 DEF Wished, Wish
<1>9. Deadline' /\ Progress'
  <2>1. stdout # "nothing" => mishap \in {"none", "writing", "lent writer"}
    BY DEF Progress
  <2> QED BY <1>1, <1>3, <2>1 DEF Deadline, Progress, Ending
<1>10. Judged'
  BY <1>1, <1>2, <1>3 DEF Judged, Here, Valid
<1> QED BY <1>2, <1>4, <1>5, <1>6, <1>7, <1>8, <1>9, <1>10

-----------------------------------------------------------------------------
(* The deadline's callback runs only because a stop was asked for. *)
LEMMA CallbackKeepsIInv == ASSUME CommandIInv, Callback PROVE CommandIInv'
<1> USE DEF CommandIInv
<1>1. /\ UNCHANGED stopVars /\ callback \in {"armed", "running"}
      /\ \/ callback' = "running" /\ ctxDone /\ timed' = timed
         \/ callback' = "over" /\ callback = "running" /\ timed' = TRUE
      /\ UNCHANGED <<line, step, owner, tellVars, handled, rewritten, stdout, input, result,
                     mishap, interrupted, exited>>
  BY DEF Callback, ioVars, endVars
<1>2. step \in {"reading", "blocked", "cleanup"} /\ step \in Stages /\ hook
  BY <1>1 DEF Deadline, Stages
<1>3. reason # ""
  <2>1. CASE ctxDone
    <3>1. ~finished
      BY <1>2, StageFacts
    <3>2. parent # "cancelled"
      BY <1>2 DEF Wished
    <3> QED BY <2>1, <3>1, <3>2 DEF Wished
  <2>2. CASE callback = "running"
    BY <2>2 DEF Deadline
  <2> QED BY <1>1, <2>1, <2>2
<1>4. Deadline' /\ Progress'
  <2>1. hook' = hook /\ reason' = reason
    BY <1>1 DEF stopVars, world
  <2>2. Deadline'
    BY <1>1, <1>2, <1>3, <2>1 DEF Deadline
  <2>3. Progress'
    BY <1>1, <2>1 DEF Progress
  <2> QED BY <2>2, <2>3
<1>5. /\ input \in {"open", "closed"} /\ result \in {"none", "body", "failed", "cancelled"}
      /\ stdout \in {"nothing", "partial", "whole"} /\ mishap \in Mishaps \cup Lent \cup {"none"}
      /\ timed \in BOOLEAN /\ (result = "cancelled" => reason # "" \/ parent = "cancelled" \/ mishap \in Lent)
  BY DEF CommandTypeOK, Wished
<1> QED BY <1>1, <1>2, <1>4, <1>5, MoveKeepsIInv

LEMMA InputEndsKeepsIInv == ASSUME CommandIInv, InputEnds PROVE CommandIInv'
<1> USE DEF CommandIInv
<1>1. /\ UNCHANGED stopVars /\ step \in {"reading", "blocked"} /\ input' = "closed"
      /\ UNCHANGED <<line, step, owner, tellVars, handled, rewritten, stdout, result, callback,
                     timed, mishap, interrupted, exited>>
  BY DEF InputEnds, ioVars, endVars
<1>2. step \in Stages
  BY <1>1 DEF Stages
<1>3. Deadline' /\ Progress'
  <2>1. hook' = hook /\ reason' = reason
    BY <1>1 DEF stopVars, world
  <2> QED BY <1>1, <2>1 DEF Deadline, Progress
<1>4. /\ result \in {"none", "body", "failed", "cancelled"}
      /\ callback \in {"off", "armed", "running", "over"}
      /\ stdout \in {"nothing", "partial", "whole"} /\ mishap \in Mishaps \cup Lent \cup {"none"}
      /\ timed \in BOOLEAN /\ (result = "cancelled" => reason # "" \/ parent = "cancelled" \/ mishap \in Lent)
  BY DEF CommandTypeOK, Wished
<1> QED BY <1>1, <1>2, <1>3, <1>4, MoveKeepsIInv

(* What the other goroutines do to the owner, without a step of Main. *)
LEMMA OthersKeepIInv ==
  ASSUME CommandIInv, StopIInv', UNCHANGED <<hook, finished>>,
         UNCHANGED <<line, step, owner, tellVars, ioVars, stdinVars, mishap, exited>>,
         interrupted' \in BOOLEAN, interrupted => interrupted',
         parent' = parent \/ (parent' = "cancelled" /\ ~hook),
         reason' = reason \/ (reason = "" /\ reason' = "cancel" /\ Wish'),
         killed' = killed \/ (killed' = 130 => reason' = "cancel"),
         ~finished /\ (ctxDone' \/ \E c \in Callers : owes'[c] = "cancel")
           => \/ reason' # "" \/ parent' = "cancelled"
              \/ ctxDone \/ \E c \in Callers : owes[c] = "cancel"
  PROVE  CommandIInv'
<1> USE DEF CommandIInv
<1>1. UNCHANGED <<err, warned, said, handled, rewritten, stdout, input, result, callback, timed>>
  BY DEF tellVars, ioVars, stdinVars
<1>2. IsCommandLine(line)' /\ step' \in StepNames
  BY <1>1
<1>3. CommandTypeOK'
  <2>1. StopTypeOK'
    BY DEF StopIInv
  <2>2. {owner', warned', timed', interrupted'} \subseteq BOOLEAN
    BY <1>1 DEF CommandTypeOK
  <2>3. exited' \in {NoExit, 0, 1, 2, 130}
    BY DEF CommandTypeOK
  <2>4. err' \in Errors /\ input' \in {"open", "closed"}
    BY <1>1 DEF CommandTypeOK
  <2>5. stdout' \in {"nothing", "partial", "whole"}
    BY <1>1 DEF CommandTypeOK
  <2>6. result' \in {"none", "body", "failed", "cancelled"}
    BY <1>1 DEF CommandTypeOK
  <2>7. callback' \in {"off", "armed", "running", "over"}
    BY <1>1 DEF CommandTypeOK
  <2>8. said' \in 0..1 /\ mishap' \in Mishaps \cup Lent \cup {"none"}
    BY <1>1 DEF CommandTypeOK
  <2> QED BY <2>1, <2>2, <2>3, <2>4, <2>5, <2>6, <2>7, <2>8
            DEF CommandTypeOK
<1>4. Checked'
  BY <1>1 DEF Checked, Valid, Here, Takes, Accepts
<1>5. Order'
  BY <1>1 DEF Order
<1>6. Wished'
  <2>1. killed' = 130 => reason' = "cancel"
    BY DEF Wished
  <2>2. Wish => Wish'
    BY DEF Wish, CommandTypeOK
  <2>3. reason' = "cancel" => Wish'
    BY <2>2 DEF Wished
  <2>4. /\ hook' => parent' = "live"
        /\ reason' \in {"", "failure", "cancel"}
        /\ reason # "" => reason' # ""
    BY DEF Wished
  <2>5. ~finished' /\ (ctxDone' \/ \E c \in Callers : owes'[c] = "cancel")
          => reason' # "" \/ parent' = "cancelled"
    BY <2>4 DEF Wished
  <2>6. result' = "cancelled" => reason' # "" \/ parent' = "cancelled" \/ mishap' \in Lent
    BY <1>1, <2>4 DEF Wished
  <2>7. /\ step' = "fail" => reason' # ""
        /\ hook' /\ Inspects(line') /\ err' # "none" /\ step' = "ask" => owner'
        /\ hook' /\ Inspects(line') /\ err' # "none" /\ step' = "tell" => reason' # ""
    BY <1>1, <2>4 DEF Wished
  <2> QED BY <2>1, <2>3, <2>4, <2>5, <2>6, <2>7 DEF Wished
<1>7. reason # "" => reason' = reason
  OBVIOUS
<1>8. Deadline' /\ Progress'
  BY <1>1, <1>7 DEF Deadline, Progress
<1>9. Judged'
  BY <1>1, <1>7 DEF Judged, Here, Valid
<1> QED BY <1>2, <1>3, <1>4, <1>5, <1>6, <1>8, <1>9

LEMMA InterruptKeepsIInv == ASSUME CommandIInv, Interrupt PROVE CommandIInv'
<1>1. OwnerStep({"cancel"}) /\ interrupted'
      /\ UNCHANGED <<line, step, owner, tellVars, ioVars, stdinVars, mishap, exited>>
  <2>1. Request(Signals, "cancel") /\ "cancel" \in Reasons \ {""}
    BY DEF Interrupt, Reasons
  <2> QED BY <2>1, RequestStep, CommandCallers DEF Interrupt, CommandIInv
<1>2. interrupted' \in BOOLEAN /\ Wish'
  BY <1>1 DEF Interrupt, Wish
<1> QED BY <1>1, <1>2, OthersKeepIInv DEF OwnerStep

LEMMA CancelKeepsIInv ==
  ASSUME CommandIInv, NEW c \in Callers, CancelCtx(c), UNCHANGED cmdVars
  PROVE  CommandIInv'
<1>1. StopIInv'
  BY NextIInv DEF CommandIInv, StopNext, Call
<1>2. owes[c] = "cancel" /\ UNCHANGED <<hook, parent, reason, finished, killed>>
  BY DEF CancelCtx, Owing, world
<1> QED BY <1>1, <1>2, OthersKeepIInv DEF cmdVars, endVars, CommandIInv, CommandTypeOK

LEMMA ParentKeepsIInv == ASSUME CommandIInv, ParentRuns PROVE CommandIInv'
<1> USE DEF CommandIInv
<1>1. StopIInv' /\ UNCHANGED cmdVars
  BY NextIInv DEF ParentRuns, StopNext
<1>2. UNCHANGED <<line, step, owner, tellVars, ioVars, stdinVars, mishap, interrupted, exited>>
      /\ interrupted \in BOOLEAN
  BY <1>1 DEF cmdVars, endVars, CommandTypeOK
<1>3. CASE ParentCancel
  BY <1>1, <1>2, <1>3, OthersKeepIInv DEF ParentCancel
<1>4. CASE Propagate
  BY <1>1, <1>2, <1>4, OthersKeepIInv DEF Propagate, world
<1>5. CASE WatcherRuns
  <2>1. Ask(Watcher, "cancel") /\ parent = "cancelled" /\ "cancel" \in Reasons \ {""}
    BY <1>5 DEF WatcherRuns, Reasons
  <2>2. Settle("cancel") /\ UNCHANGED <<hook, parent, finished, ctxDone, killed>>
    BY <2>1 DEF Ask, world
  <2>3. reason' = reason \/ (reason = "" /\ reason' = "cancel")
    BY <2>1, <2>2, SettleDecides DEF StopIInv
  <2>4. parent' = "cancelled" /\ Wish'
    BY <2>1, <2>2 DEF Wish
  <2> QED BY <1>1, <1>2, <2>2, <2>3, <2>4, OthersKeepIInv
<1> QED BY <1>3, <1>4, <1>5 DEF ParentRuns

LEMMA WatchdogKeepsIInv == ASSUME CommandIInv, WatchdogRuns PROVE CommandIInv'
<1> USE DEF CommandIInv
<1>1. StopIInv' /\ UNCHANGED cmdVars
  BY NextIInv DEF WatchdogRuns, StopNext
<1>2. UNCHANGED <<line, step, owner, tellVars, ioVars, stdinVars, mishap, interrupted, exited>>
      /\ interrupted \in BOOLEAN
  BY <1>1 DEF cmdVars, endVars, CommandTypeOK
<1>3. CASE TimerDue \/ TimerCheck
  <2>1. UNCHANGED <<hook, parent, reason, finished, ctxDone, killed, owes>>
    BY <1>3 DEF TimerDue, TimerCheck, Tick, world
  <2> QED BY <1>1, <1>2, <2>1, OthersKeepIInv
<1>4. CASE TimerExit
  <2>1. UNCHANGED <<hook, parent, reason, finished, ctxDone, owes>>
        /\ timer \in {"exit1", "exit130"} /\ killed' = IF timer = "exit130" THEN 130 ELSE 1
    BY <1>4 DEF TimerExit, world
  <2>2. timer = "exit130" => reason = "cancel"
    BY DEF StopIInv, SentenceHolds
  <2>3. killed' = 130 => reason' = "cancel"
    BY <2>1, <2>2
  <2> QED BY <1>1, <1>2, <2>1, <2>3, OthersKeepIInv
<1> QED BY <1>3, <1>4 DEF WatchdogRuns, Watchdog

-----------------------------------------------------------------------------
(* Before the mode runs nothing has happened yet. *)
LEMMA CheckingFacts ==
  ASSUME CommandIInv, step \in Checking \cup {"mode"}
  PROVE  /\ ~finished /\ err = "none" /\ said = 0 /\ exited = NoExit
         /\ mishap = "none" /\ stdout = "nothing" /\ callback = "off" /\ ~timed
         /\ StopIInv /\ owner \in BOOLEAN /\ warned \in BOOLEAN
<1> USE DEF CommandIInv
<1>1. /\ step \notin Ending \cup {"return"} /\ step \notin {"exit", "over"}
      /\ step \notin Ending \cup {"fail", "return", "cleanup", "acquired"}
      /\ step \notin {"reading", "blocked", "cleanup", "writing", "check"}
  BY DEF Checking, Ending
<1>2. err = "none" /\ said = 0 /\ ~finished /\ exited = NoExit
  <2>1. err = "none"
    BY <1>1 DEF Order
  <2>2. said = 0
    BY <2>1 DEF Order
  <2>3. ~finished /\ exited = NoExit
    BY <1>1 DEF Order, Ending
  <2> QED BY <2>1, <2>2, <2>3
<1>3. mishap = "none" /\ stdout = "nothing"
  BY <1>1 DEF Progress
<1>4. callback = "off" /\ ~timed
  BY <1>1 DEF Deadline
<1> QED BY <1>2, <1>3, <1>4 DEF CommandTypeOK

(* A step from one check to the next, or to the mode. *)
LEMMA AdvanceKeepsIInv ==
  ASSUME CommandIInv, step \in Checking, step' \in Checking \cup {"destination", "mode", "observe"},
         UNCHANGED <<line, err, said, ioVars, stdinVars, endVars>>,
         owner' \in BOOLEAN, warned' \in BOOLEAN, Checked',
         \/ OwnerStep({"cancel"}) /\ parent = "cancelled"
         \/ OwnerStep({}) /\ reason' = reason
  PROVE  CommandIInv'
<1> USE DEF CommandIInv
<1>1. UNCHANGED <<handled, rewritten, stdout, input, result, callback, timed, mishap, interrupted,
                  exited>>
  BY DEF ioVars, stdinVars, endVars
<1>2. /\ StopIInv' /\ UNCHANGED <<hook, parent, finished, killed, ctxDone>>
      /\ reason' = reason \/ (reason = "" /\ reason' = "cancel" /\ parent = "cancelled")
      /\ ~finished /\ (\E c \in Callers : owes'[c] = "cancel")
           => reason' # "" \/ \E c \in Callers : owes[c] = "cancel"
  BY DEF OwnerStep
<1>3. /\ ~finished /\ err = "none" /\ said = 0 /\ exited = NoExit
      /\ mishap = "none" /\ stdout = "nothing" /\ callback = "off" /\ ~timed
  BY CheckingFacts
<1>4. IsCommandLine(line)' /\ step' \in StepNames
  BY DEF StepNames, Inspecting, Stages
<1>5. CommandTypeOK'
  BY <1>1, <1>2, <1>3 DEF CommandTypeOK, StopIInv
<1>6. /\ step' \notin Ending \cup {"return"} /\ step' # "over"
      /\ step' \notin {"fail", "ask", "tell", "writing", "check", "cleanup", "acquired"}
  BY DEF Checking, Ending
<1>7. Order'
  BY <1>1, <1>2, <1>3, <1>6 DEF Order
<1>8. Wished'
  <2>1. killed' = 130 => reason' = "cancel"
    BY <1>2 DEF Wished
  <2>2. reason' = "cancel" => Wish'
    BY <1>1, <1>2 DEF Wished, Wish
  <2>3. /\ hook' => parent' = "live"
        /\ reason' \in {"", "failure", "cancel"}
        /\ reason # "" => reason' # ""
    BY <1>2 DEF Wished
  <2>4. ~finished' /\ (ctxDone' \/ \E c \in Callers : owes'[c] = "cancel")
          => reason' # "" \/ parent' = "cancelled"
    BY <1>2, <2>3 DEF Wished
  <2>5. result' = "cancelled" => reason' # "" \/ parent' = "cancelled" \/ mishap' \in Lent
    BY <1>1, <1>2, <2>3 DEF Wished
  <2> QED BY <1>6, <2>1, <2>2, <2>3, <2>4, <2>5 DEF Wished
<1>9. Deadline' /\ Progress'
  BY <1>1, <1>2, <1>3, <1>6 DEF Deadline, Progress
<1>10. Judged'
  BY <1>1, <1>2, <1>3, <1>6 DEF Judged, Here, Valid
<1> QED BY <1>2, <1>4, <1>5, <1>7, <1>8, <1>9, <1>10

(* A command line that is refused is not valid, or no inspection. *)
LEMMA RefuseKeepsIInv ==
  ASSUME CommandIInv, step \in Checking, NEW e \in {"raw", "told"}, Refuse(e), Here => ~Valid
  PROVE  CommandIInv'
<1> USE DEF CommandIInv
<1>1. /\ err' = e /\ said' = (IF e = "told" THEN said + 1 ELSE said) /\ step' = "execute"
      /\ UNCHANGED stopVars
      /\ UNCHANGED <<line, owner, warned, handled, rewritten, stdout, input, result, callback,
                     timed, mishap, interrupted, exited>>
  BY DEF Refuse, GoTo, ioVars, stdinVars, endVars
<1>2. OwnerStep({}) /\ UNCHANGED <<reason, owes>>
  BY <1>1, QuietStep
<1>3. /\ ~finished /\ err = "none" /\ said = 0 /\ exited = NoExit
      /\ mishap = "none" /\ stdout = "nothing" /\ callback = "off" /\ ~timed
  BY CheckingFacts
<1>4. /\ StopIInv' /\ IsCommandLine(line)' /\ step' \in StepNames /\ step' \in Ending
      /\ step' \notin Inspecting
  BY <1>1, <1>2 DEF OwnerStep, StepNames, Inspecting, Stages, Ending
<1>5. CommandTypeOK'
  BY <1>1, <1>3, <1>4 DEF CommandTypeOK, StopIInv, Errors
<1>6. Checked'
  BY <1>1, <1>4 DEF Checked, Takes, Accepts, Valid
<1>7. Order'
  <2>1. said' = IF err' = "raw" THEN 0 ELSE 1
    BY <1>1, <1>3
  <2>2. said' = IF err' \in {"none", "drift"} \/ (err' = "raw" /\ step' \in {"execute", "ask", "tell"})
                THEN 0 ELSE 1
    BY <1>1, <2>1
  <2>3. err' # "drift" /\ step' # "over" /\ step' \in Ending
    BY <1>1, <1>4
  <2>4. ~finished' /\ exited' = NoExit
    BY <1>1, <1>2, <1>3 DEF OwnerStep
  <2> QED BY <2>2, <2>3, <2>4 DEF Order
<1>8. Wished'
  BY <1>1, <1>2 DEF Wished, Wish, OwnerStep
<1>9. Deadline' /\ Progress'
  BY <1>1, <1>3, <1>4 DEF Deadline, Progress
<1>10. Judged'
  BY <1>1, <1>2, <1>3 DEF Judged, Here, Valid
<1> QED BY <1>4, <1>5, <1>6, <1>7, <1>8, <1>9, <1>10

LEMMA ParseKeepsIInv == ASSUME CommandIInv, Parse PROVE CommandIInv'
<1>1. step = "parse" /\ step \in Checking
  BY DEF Parse, At, Checking
<1>2. CASE line.broken \/ ~ArgsOK(line)
  <2>1. (Refuse("raw") \/ Refuse("told")) /\ ~Valid
    BY <1>2 DEF Parse, Valid
  <2> QED BY <1>1, <2>1, RefuseKeepsIInv
<1>3. CASE ~line.broken /\ ArgsOK(line)
  <2>1. /\ step' = "prerun" /\ UNCHANGED stopVars
        /\ UNCHANGED <<line, owner, err, warned, said, ioVars, stdinVars, endVars>>
    BY <1>3 DEF Parse, Pass, OnlyStep, GoTo, tellVars
  <2>2. Checked'
    BY <1>3, <2>1 DEF CommandIInv, Checked, Inspecting, Stages, Takes, Accepts, Valid, ioVars
  <2>3. OwnerStep({}) /\ reason' = reason
    BY <2>1, QuietStep DEF CommandIInv
  <2> QED BY <1>1, <2>1, <2>2, <2>3, CheckingFacts, AdvanceKeepsIInv DEF Checking
<1> QED BY <1>2, <1>3

LEMMA PreRunKeepsIInv == ASSUME CommandIInv, PreRun PROVE CommandIInv'
<1>1. /\ step = "prerun" /\ step \in Checking /\ step' = "options"
      /\ UNCHANGED <<line, err, warned, said, ioVars, stdinVars, endVars>>
      /\ Start \/ UNCHANGED <<stopVars, owner>>
  BY DEF PreRun, At, GoTo, Checking, tellVars
<1>2. Checked'
  BY <1>1 DEF CommandIInv, Checked, Inspecting, Stages, Takes, Accepts, Valid, ioVars
<1>3. /\ owner' \in BOOLEAN
      /\ \/ OwnerStep({"cancel"}) /\ parent = "cancelled"
         \/ OwnerStep({}) /\ reason' = reason
  BY <1>1, StartStep, QuietStep, CheckingFacts
<1> QED BY <1>1, <1>2, <1>3, CheckingFacts, AdvanceKeepsIInv DEF Checking

LEMMA CheckOptionsKeepsIInv == ASSUME CommandIInv, CheckOptions PROVE CommandIInv'
<1>1. step = "options" /\ step \in Checking /\ ~line.broken /\ ArgsOK(line)
  BY DEF CheckOptions, At, Checking, CommandIInv, Checked
<1>2. CASE ~Accepted(line, "log-format") \/ ~OptionsOK(line)
  <2>1. (Refuse("raw") \/ Refuse("told")) /\ ~Valid
    BY <1>2 DEF CheckOptions, Valid
  <2> QED BY <1>1, <2>1, RefuseKeepsIInv
<1>3. CASE Accepted(line, "log-format") /\ OptionsOK(line)
  <2>1. /\ step' = IF Inspects(line) THEN "route" ELSE "document"
        /\ UNCHANGED stopVars
        /\ UNCHANGED <<line, owner, err, warned, said, ioVars, stdinVars, endVars>>
    BY <1>3 DEF CheckOptions, Pass, OnlyStep, GoTo, tellVars
  <2>2. Valid
    BY <1>1, <1>3 DEF Valid
  <2>3. Checked'
    BY <2>1, <2>2 DEF CommandIInv, Checked, Inspecting, Stages, Takes, Accepts, Valid, ioVars
  <2>4. OwnerStep({}) /\ reason' = reason
    BY <2>1, QuietStep DEF CommandIInv
  <2> QED BY <1>1, <2>1, <2>3, <2>4, CheckingFacts, AdvanceKeepsIInv DEF Checking
<1> QED BY <1>2, <1>3

LEMMA CheckDocumentKeepsIInv == ASSUME CommandIInv, CheckDocument PROVE CommandIInv'
<1>1. step = "document" /\ step \in Checking /\ Valid /\ ~Inspects(line) /\ ~Here
  BY ModesOfALine DEF CheckDocument, At, Checking, CommandIInv, Checked
<1>2. CASE ~DocumentOK(line)
  BY <1>1, <1>2, RefuseKeepsIInv DEF CheckDocument
<1>3. CASE DocumentOK(line)
  <2>1. /\ step' = "route" /\ warned' = Warns(line) /\ UNCHANGED stopVars
        /\ UNCHANGED <<line, owner, err, said, ioVars, stdinVars, endVars>>
    BY <1>3 DEF CheckDocument, GoTo
  <2>2. Checked'
    BY <1>1, <1>3, <2>1
       DEF CommandIInv, Checked, Inspecting, Stages, Takes, Accepts, Valid, ioVars
  <2>3. OwnerStep({}) /\ reason' = reason
    BY <2>1, QuietStep DEF CommandIInv
  <2>4. warned' \in BOOLEAN
    BY <2>1 DEF Warns
  <2> QED BY <1>1, <2>1, <2>2, <2>3, <2>4, CheckingFacts, AdvanceKeepsIInv DEF Checking
<1> QED BY <1>2, <1>3

LEMMA RouteKeepsIInv == ASSUME CommandIInv, Route PROVE CommandIInv'
<1>1. step = "route" /\ step \in Checking /\ Valid /\ (~Inspects(line) => DocumentOK(line))
      /\ (~Inspects(line) => warned = Warns(line))
  BY DEF Route, At, Checking, CommandIInv, Checked
<1>2. CASE Here
  <2>1. /\ step' = "destination"
        /\ UNCHANGED <<line, err, warned, said, ioVars, stdinVars, endVars>>
        /\ Start \/ UNCHANGED <<stopVars, owner>>
    BY <1>2 DEF Route, Here, GoTo, tellVars
  <2>2. Checked'
    BY <1>1, <1>2, <2>1
       DEF CommandIInv, Checked, Inspecting, Stages, Takes, Accepts, Valid, Here, ioVars
  <2>3. /\ owner' \in BOOLEAN
        /\ \/ OwnerStep({"cancel"}) /\ parent = "cancelled"
           \/ OwnerStep({}) /\ reason' = reason
    BY <1>1, <2>1, StartStep, QuietStep, CheckingFacts
  <2> QED BY <1>1, <2>1, <2>2, <2>3, CheckingFacts, AdvanceKeepsIInv
<1>3. CASE Mode(line) = "native"
  <2>1. /\ step' = "observe" /\ UNCHANGED stopVars
        /\ UNCHANGED <<line, owner, err, warned, said, ioVars, stdinVars, endVars>>
    BY <1>3 DEF Route, Pass, OnlyStep, GoTo, tellVars
  <2>2. Checked'
    BY <1>1, <1>3, <2>1
       DEF CommandIInv, Checked, Inspecting, Stages, Takes, Accepts, Valid, ioVars
  <2>3. OwnerStep({}) /\ reason' = reason
    BY <2>1, QuietStep DEF CommandIInv
  <2> QED BY <1>1, <2>1, <2>2, <2>3, CheckingFacts, AdvanceKeepsIInv
<1>4. CASE ~Here /\ Mode(line) # "native" /\ ~RouteOK(line)
  <2>1. Refuse("told")
    BY <1>4 DEF Route, Here
  <2> QED BY <1>1, <1>4, <2>1, RefuseKeepsIInv
<1>5. CASE ~Here /\ Mode(line) # "native" /\ RouteOK(line)
  <2>1. Pass("mode")
    BY <1>5 DEF Route, Here
  <2>2. /\ step' = "mode" /\ UNCHANGED stopVars
        /\ UNCHANGED <<line, owner, err, warned, said, ioVars, stdinVars, endVars>>
    BY <2>1 DEF Pass, OnlyStep, GoTo, tellVars
  <2>3. Accepts
    BY <1>1, <1>5, ModesOfALine DEF Accepts
  <2>4. Checked'
    BY <1>1, <2>2, <2>3
       DEF CommandIInv, Checked, Inspecting, Stages, Takes, Accepts, Valid, ioVars
  <2>5. OwnerStep({}) /\ reason' = reason
    BY <2>2, QuietStep DEF CommandIInv
  <2> QED BY <1>1, <2>2, <2>4, <2>5, CheckingFacts, AdvanceKeepsIInv
<1> QED BY <1>2, <1>3, <1>4, <1>5

(* The editing of documents, whatever it does to them. *)
LEMMA DocumentModeKeepsIInv == ASSUME CommandIInv, DocumentMode PROVE CommandIInv'
<1> USE DEF CommandIInv
<1>1. /\ step = "mode" /\ step' = "execute" /\ UNCHANGED stopVars
      /\ handled' = Takes /\ rewritten' \in (IF Mode(line) = "files" THEN SUBSET Takes ELSE {{}})
      /\ err' \in {"none", "told", "drift"} /\ said' = (IF err' = "told" THEN said + 1 ELSE said)
      /\ UNCHANGED <<line, owner, warned, stdout, input, result, callback, timed, mishap,
                     interrupted, exited>>
  BY DEF DocumentMode, At, GoTo, stdinVars, endVars
<1>2. OwnerStep({}) /\ UNCHANGED <<reason, owes>>
  BY <1>1, QuietStep
<1>3. Accepts /\ ~Here
  BY <1>1, ModesOfALine DEF Checked, Accepts
<1>4. /\ ~finished /\ said = 0 /\ exited = NoExit
      /\ mishap = "none" /\ stdout = "nothing" /\ callback = "off" /\ ~timed
  BY <1>1, CheckingFacts
<1>5. /\ StopIInv' /\ IsCommandLine(line)' /\ step' \in StepNames /\ step' \in Ending
      /\ step' \notin Inspecting
  BY <1>1, <1>2 DEF OwnerStep, StepNames, Inspecting, Stages, Ending
<1>6. CommandTypeOK'
  <2>1. said' \in 0..1
    BY <1>1, <1>4
  <2>2. err' \in Errors
    BY <1>1 DEF Errors
  <2> QED BY <1>1, <1>5, <2>1, <2>2 DEF CommandTypeOK, StopIInv
<1>7. Checked'
  <2>1. rewritten' # {} => Mode(line) = "files"
    BY <1>1
  <2>2. handled' = Takes' /\ Accepts'
    BY <1>1, <1>3 DEF Takes, Accepts, Valid
  <2> QED BY <1>1, <1>5, <2>1, <2>2 DEF Checked
<1>8. Order'
  <2>1. said' = IF err' \in {"none", "drift"} THEN 0 ELSE 1
    BY <1>1, <1>4
  <2>2. said' = IF err' \in {"none", "drift"} \/ (err' = "raw" /\ step' \in {"execute", "ask", "tell"})
                THEN 0 ELSE 1
    BY <1>1, <2>1
  <2>3. ~Inspects(line') /\ step' # "over" /\ step' \in Ending
    BY <1>1, <1>3, <1>5 DEF Accepts
  <2>4. ~finished' /\ exited' = NoExit
    BY <1>1, <1>2, <1>4 DEF OwnerStep
  <2> QED BY <2>2, <2>3, <2>4 DEF Order
<1>9. Wished'
  BY <1>1, <1>2 DEF Wished, Wish, OwnerStep
<1>10. Deadline' /\ Progress'
  BY <1>1, <1>4, <1>5 DEF Deadline, Progress
<1>11. Judged'
  BY <1>1, <1>3 DEF Judged, Here
<1> QED BY <1>5, <1>6, <1>7, <1>8, <1>9, <1>10, <1>11

-----------------------------------------------------------------------------
LEMMA SameTakes == line' = line => Takes' = Takes
  BY DEF Takes

(* What the steps of execute have in common: they ask the owner to stop    *)
(* for a cancelled parent, or for an error that has a ground.              *)
LEMMA EndingKeepsIInv ==
  ASSUME CommandIInv, step \in Ending, step' \in Ending, StopIInv', Order',
         UNCHANGED <<hook, parent, killed, ctxDone>>,
         UNCHANGED <<line, err, warned, ioVars, stdinVars, mishap, interrupted>>,
         owner' \in BOOLEAN, said' \in 0..1, exited' \in {NoExit, 0, 1, 2, 130},
         \/ reason' = reason
         \/ reason = "" /\ reason' = "cancel" /\ parent = "cancelled"
         \/ reason = "" /\ reason' = "failure" /\ (Here => ~Valid \/ mishap # "none"),
         ~finished' /\ (\E c \in Callers : owes'[c] = "cancel")
           => reason' # "" \/ (~finished /\ \E c \in Callers : owes[c] = "cancel"),
         finished => finished',
         hook /\ Inspects(line) /\ err # "none" =>
           /\ step' = "ask" => owner'
           /\ step' = "tell" => reason' # ""
  PROVE  CommandIInv'
<1> USE DEF CommandIInv
<1>1. UNCHANGED <<handled, rewritten, stdout, input, result, callback, timed>>
  BY DEF ioVars, stdinVars
<1>2. /\ step' \in StepNames /\ step' \notin Inspecting
      /\ step \notin {"reading", "blocked", "cleanup"}
      /\ step' \notin {"prerun", "options", "document", "route", "mode", "observe", "fail",
                       "reading", "blocked", "cleanup", "acquired", "return"}
  BY DEF StepNames, Inspecting, Stages, Ending
<1>3. CommandTypeOK'
  <2>1. StopTypeOK'
    BY DEF StopIInv
  <2>2. {owner', warned', timed', interrupted'} \subseteq BOOLEAN
    BY <1>1 DEF CommandTypeOK
  <2>3. /\ input' \in {"open", "closed"}
        /\ result' \in {"none", "body", "failed", "cancelled"}
        /\ callback' \in {"off", "armed", "running", "over"}
    BY <1>1 DEF CommandTypeOK
  <2>4. mishap' \in Mishaps \cup Lent \cup {"none"}
    BY DEF CommandTypeOK
  <2>5. err' \in Errors
    BY DEF CommandTypeOK
  <2>6. stdout' \in {"nothing", "partial", "whole"}
    BY <1>1 DEF CommandTypeOK
  <2> QED BY <2>1, <2>2, <2>3, <2>4, <2>5, <2>6 DEF CommandTypeOK
<1>4. Checked'
  <2>1. line' = line /\ Mode(line') = Mode(line) /\ Takes' = Takes
    BY SameTakes
  <2>2. Accepts => Accepts'
    BY DEF Accepts, Valid
  <2>3. rewritten # {} => Mode(line) = "files"
    BY DEF Checked
  <2>4. handled # {} => handled = Takes /\ Accepts
    BY DEF Checked
  <2>5. handled' # {} => handled' = Takes' /\ Accepts'
    BY <1>1, <2>1, <2>2, <2>4
  <2> QED BY <1>1, <1>2, <2>1, <2>3, <2>5 DEF Checked
<1>5. reason # "" => reason' = reason
  OBVIOUS
<1>6. Wished'
  <2>1. killed' = 130 => reason' = "cancel"
    BY DEF Wished
  <2>2. reason' = "cancel" => Wish'
    BY DEF Wished, Wish
  <2>3. (hook' => parent' = "live") /\ reason' \in {"", "failure", "cancel"}
    BY DEF Wished
  <2>4. ~finished' /\ (ctxDone' \/ \E c \in Callers : owes'[c] = "cancel")
          => reason' # "" \/ parent' = "cancelled"
    BY <1>5 DEF Wished
  <2>5. result' = "cancelled" => reason' # "" \/ parent' = "cancelled" \/ mishap' \in Lent
    BY <1>1, <1>5 DEF Wished
  <2>6. /\ step' = "fail" => reason' # ""
        /\ hook' /\ Inspects(line') /\ err' # "none" /\ step' = "ask" => owner'
        /\ hook' /\ Inspects(line') /\ err' # "none" /\ step' = "tell" => reason' # ""
    BY <1>2
  <2> QED BY <2>1, <2>2, <2>3, <2>4, <2>5, <2>6 DEF Wished
<1>7. callback = "off" /\ ~timed
  BY <1>2 DEF Deadline
<1>8. Deadline' /\ Progress'
  BY <1>1, <1>2, <1>7 DEF Deadline, Progress
<1>9. Judged'
  <2>1. Here' = Here /\ Valid' = Valid
    BY DEF Here, Valid
  <2>2. Here /\ reason' = "failure" => ~Valid \/ mishap # "none"
    BY DEF Judged
  <2>3. err = "cancelled" => reason' = "cancel"
    BY <1>5 DEF Judged
  <2>4. Here /\ err = "told" => ~Valid \/ reason' = "failure"
    BY <1>5 DEF Judged
  <2>5. Here /\ err = "raw" => ~Valid
    BY DEF Judged
  <2>6. Here /\ err = "none" =>
          /\ Valid /\ mishap = "none"
          /\ IF stdout = "nothing" THEN Changed(line, "filter") ELSE stdout = "whole"
    BY DEF Judged
  <2> QED BY <1>1, <2>1, <2>2, <2>3, <2>4, <2>5, <2>6 DEF Judged
<1> QED BY <1>2, <1>3, <1>4, <1>6, <1>8, <1>9

(* Order, where the error is the same and its end has not come. *)
LEMMA OrderOfEnding ==
  ASSUME CommandIInv, step \in Ending, step' \in {"ask", "tell", "finish", "exit"}, step # "over",
         UNCHANGED <<hook, line, err, exited>>,
         said' = IF err \in {"none", "drift"} \/ (err = "raw" /\ step' \in {"ask", "tell"})
                 THEN 0 ELSE 1,
         finished' => ~hook \/ step' = "exit"
  PROVE  Order'
<1>1. exited = NoExit /\ (err = "drift" => ~Inspects(line))
  BY DEF CommandIInv, Order
<1>2. step' \in Ending /\ step' # "over" /\ step' # "execute"
  BY DEF Ending
<1> QED BY <1>1, <1>2 DEF Order

LEMMA ExecuteKeepsIInv == ASSUME CommandIInv, Execute PROVE CommandIInv'
<1> USE DEF CommandIInv
<1>1. /\ step = "execute" /\ step' = "ask"
      /\ UNCHANGED <<line, err, warned, said, ioVars, stdinVars, mishap, interrupted, exited>>
      /\ IF hook /\ err # "none" /\ Inspects(line) /\ ~owner
           THEN Start ELSE UNCHANGED <<stopVars, owner>>
  BY DEF Execute, At, GoTo, tellVars, endVars
<1>2. /\ owner' \in BOOLEAN /\ (hook /\ Inspects(line) /\ err # "none" => owner')
      /\ \/ OwnerStep({"cancel"}) /\ parent = "cancelled"
         \/ OwnerStep({}) /\ reason' = reason
  BY <1>1, StartStep, QuietStep DEF CommandTypeOK
<1>3. /\ StopIInv' /\ UNCHANGED <<hook, parent, finished, killed, ctxDone>>
      /\ reason' = reason \/ (reason = "" /\ reason' = "cancel" /\ parent = "cancelled")
      /\ ~finished /\ (\E c \in Callers : owes'[c] = "cancel")
           => reason' # "" \/ \E c \in Callers : owes[c] = "cancel"
  BY <1>2 DEF OwnerStep
<1>4. step \in Ending /\ step' \in Ending
  BY <1>1 DEF Ending
<1>5. /\ said \in 0..1 /\ exited \in {NoExit, 0, 1, 2, 130}
      /\ said = IF err \in {"none", "drift"} \/ err = "raw" THEN 0 ELSE 1
      /\ finished => ~hook
  BY <1>1 DEF CommandTypeOK, Order
<1>6. Order'
  BY <1>1, <1>3, <1>4, <1>5, OrderOfEnding
<1> QED BY <1>1, <1>2, <1>3, <1>4, <1>5, <1>6, EndingKeepsIInv

(* What execute asks of the owner has a ground: the error. *)
LEMMA AskForStopKeepsIInv == ASSUME CommandIInv, AskForStop PROVE CommandIInv'
<1> USE DEF CommandIInv
<1>1. /\ step = "ask" /\ step' = "tell"
      /\ UNCHANGED <<line, owner, err, warned, said, ioVars, stdinVars, mishap, interrupted, exited>>
      /\ IF hook /\ err # "none" /\ owner THEN Request(Main, "failure") ELSE UNCHANGED stopVars
  BY DEF AskForStop, At, GoTo, OnlyStep, tellVars, endVars
<1>2. step \in Ending /\ step' \in Ending
  BY <1>1 DEF Ending
<1>3. /\ said \in 0..1 /\ exited \in {NoExit, 0, 1, 2, 130} /\ owner \in BOOLEAN
      /\ said = IF err \in {"none", "drift"} \/ err = "raw" THEN 0 ELSE 1
      /\ finished => ~hook
  BY <1>1 DEF CommandTypeOK, Order
<1>4. \/ OwnerStep({"failure"}) /\ hook /\ err # "none"
      \/ OwnerStep({}) /\ reason' = reason /\ ~(hook /\ err # "none" /\ owner)
  <2>1. "failure" \in Reasons \ {""}
    BY DEF Reasons
  <2> QED BY <1>1, <2>1, RequestStep, QuietStep, CommandCallers
<1>5. /\ StopIInv' /\ UNCHANGED <<hook, parent, finished, killed, ctxDone>>
      /\ reason' = reason \/ (reason = "" /\ reason' = "failure" /\ err # "none")
      /\ ~finished /\ (\E c \in Callers : owes'[c] = "cancel")
           => reason' # "" \/ \E c \in Callers : owes[c] = "cancel"
  BY <1>4 DEF OwnerStep
<1>6. Order'
  BY <1>1, <1>2, <1>3, <1>5, OrderOfEnding
<1>7. reason = "" /\ err # "none" /\ Here => ~Valid \/ mishap # "none"
  <2>1. err \in {"none", "raw", "told", "cancelled", "drift"}
    BY DEF CommandTypeOK, Errors
  <2>2. Here => err # "drift"
    BY ModesOfALine DEF Order
  <2> QED BY <2>1, <2>2 DEF Judged
<1>8. hook /\ Inspects(line) /\ err # "none" => reason' # ""
  <2>1. hook /\ Inspects(line) /\ err # "none" => owner /\ ~finished
    BY <1>1, <1>3 DEF Wished
  <2> QED BY <1>4, <2>1 DEF OwnerStep
<1> QED BY <1>1, <1>2, <1>3, <1>5, <1>6, <1>7, <1>8, EndingKeepsIInv

LEMMA TellKeepsIInv == ASSUME CommandIInv, Tell PROVE CommandIInv'
<1> USE DEF CommandIInv
<1>1. /\ step = "tell" /\ step' = "finish" /\ UNCHANGED stopVars
      /\ said' = (IF err = "raw" THEN said + 1 ELSE said)
      /\ UNCHANGED <<line, owner, err, warned, ioVars, stdinVars, mishap, interrupted, exited>>
  BY DEF Tell, Untold, At, GoTo, endVars
<1>2. step \in Ending /\ step' \in Ending
  BY <1>1 DEF Ending
<1>3. /\ exited \in {NoExit, 0, 1, 2, 130} /\ owner \in BOOLEAN
      /\ said = IF err \in {"none", "drift", "raw"} THEN 0 ELSE 1
      /\ finished => ~hook
  BY <1>1 DEF CommandTypeOK, Order
<1>4. said' = IF err \in {"none", "drift"} THEN 0 ELSE 1
  BY <1>1, <1>3
<1>5. OwnerStep({}) /\ UNCHANGED <<reason, owes>>
  BY <1>1, QuietStep
<1>6. StopIInv' /\ UNCHANGED <<hook, parent, finished, killed, ctxDone>>
  BY <1>5 DEF OwnerStep
<1>7. Order'
  BY <1>1, <1>2, <1>3, <1>4, <1>6, OrderOfEnding
<1>8. said' \in 0..1
  BY <1>4
<1> QED BY <1>1, <1>2, <1>3, <1>5, <1>6, <1>7, <1>8, EndingKeepsIInv

LEMMA LeaveKeepsIInv == ASSUME CommandIInv, Leave PROVE CommandIInv'
<1> USE DEF CommandIInv
<1>1. CASE At("finish") /\ (IF hook /\ owner THEN Finish ELSE UNCHANGED stopVars)
           /\ GoTo("exit") /\ OnlyStep
  <2>1. /\ step = "finish" /\ step' = "exit" /\ step \in Ending /\ step' \in Ending
        /\ UNCHANGED <<line, owner, err, warned, said, ioVars, stdinVars, mishap, interrupted,
                       exited>>
    BY <1>1 DEF At, GoTo, OnlyStep, tellVars, endVars, Ending
  <2>2. /\ StopIInv' /\ UNCHANGED <<hook, parent, killed, ctxDone, reason>>
        /\ finished' \/ (finished' = finished /\ owes' = owes)
    BY <1>1, FinishStep, QuietStep DEF OwnerStep
  <2>3. /\ said \in 0..1 /\ exited \in {NoExit, 0, 1, 2, 130} /\ owner \in BOOLEAN
        /\ said = IF err \in {"none", "drift"} THEN 0 ELSE 1
    BY <2>1 DEF CommandTypeOK, Order
  <2>4. Order'
    BY <2>1, <2>2, <2>3, OrderOfEnding
  <2>5. /\ finished => finished'
        /\ ~finished' /\ (\E c \in Callers : owes'[c] = "cancel")
             => ~finished /\ \E c \in Callers : owes[c] = "cancel"
    BY <2>2 DEF StopIInv, StopTypeOK
  <2>6. step' # "ask" /\ step' # "tell"
    BY <2>1
  <2> QED BY <2>1, <2>2, <2>3, <2>4, <2>5, <2>6, EndingKeepsIInv
<1>2. CASE CancelCtx(Main) /\ UNCHANGED cmdVars
  BY <1>2, CancelKeepsIInv, CommandCallers
<1>3. CASE /\ At("exit") /\ exited' = StatusOf(err) /\ GoTo("over")
           /\ UNCHANGED <<stopVars, line, owner, tellVars, ioVars, stdinVars, mishap, interrupted>>
  <2>1. /\ step = "exit" /\ step' = "over" /\ step \in Ending /\ step' \in Ending
        /\ UNCHANGED <<line, owner, err, warned, said, ioVars, stdinVars, mishap, interrupted>>
        /\ exited' = StatusOf(err) /\ UNCHANGED stopVars
    BY <1>3 DEF At, GoTo, tellVars, Ending
  <2>2. OwnerStep({}) /\ UNCHANGED <<reason, owes>>
    BY <2>1, QuietStep
  <2>3. StopIInv' /\ UNCHANGED <<hook, parent, finished, killed, ctxDone>>
    BY <2>2 DEF OwnerStep
  <2>4. err \in Errors /\ owner \in BOOLEAN /\ said \in 0..1
    BY DEF CommandTypeOK
  <2>5. exited' \in {0, 1, 2, 130} /\ exited' # NoExit
    BY <2>1, <2>4, Statuses
  <2>6. /\ said = IF err \in {"none", "drift"} THEN 0 ELSE 1
        /\ err = "drift" => ~Inspects(line)
    BY <2>1 DEF Order
  <2>7. exited' = StatusOf(err')
    BY <2>1
  <2>8. Order'
    BY <2>1, <2>3, <2>5, <2>6, <2>7 DEF Order
  <2> QED BY <2>1, <2>2, <2>3, <2>4, <2>5, <2>8, EndingKeepsIInv
<1> QED BY <1>1, <1>2, <1>3 DEF Leave

-----------------------------------------------------------------------------
LEMMA InitCommandIInv == Init => CommandIInv
<1> SUFFICES ASSUME Init PROVE CommandIInv
  OBVIOUS
<1>1. /\ StopIInv /\ parent = "live" /\ reason = "" /\ ~finished /\ ~ctxDone /\ killed = NoExit
      /\ owes = [c \in Callers |-> "nothing"] /\ hook \in BOOLEAN
  BY InitIInv DEF Init, StopInit
<1>2. /\ IsCommandLine(line) /\ step = "parse" /\ owner = FALSE
      /\ err = "none" /\ warned = FALSE /\ said = 0 /\ handled = {} /\ rewritten = {}
      /\ stdout = "nothing" /\ input = "open" /\ result = "none" /\ callback = "off"
      /\ timed = FALSE /\ mishap = "none" /\ interrupted = FALSE /\ exited = NoExit
  BY DEF Init
<1>3. CommandTypeOK
  <2>1. StopTypeOK
    BY <1>1 DEF StopIInv
  <2>2. said \in 0..1 /\ exited \in {NoExit, 0, 1, 2, 130}
    BY <1>2
  <2>3. {owner, warned, timed, interrupted} \subseteq BOOLEAN
    BY <1>2
  <2> QED BY <1>2, <2>1, <2>2, <2>3 DEF CommandTypeOK, Errors
<1>4. step \in StepNames /\ step \notin Ending \cup {"return"} /\ step \notin Inspecting
  BY <1>2 DEF StepNames, Checking, Inspecting, Stages, Ending
<1>5. Checked
  BY <1>2, <1>4 DEF Checked
<1>6. Order
  BY <1>1, <1>2, <1>4 DEF Order
<1>7. Wished
  <2>1. NoExit # 130
    BY DEF NoExit
  <2> QED BY <1>1, <1>2, <2>1 DEF Wished
<1>8. Deadline /\ Progress
  BY <1>2, <1>4 DEF Deadline, Progress
<1>9. Judged
  BY <1>1, <1>2, <1>4 DEF Judged
<1> QED BY <1>1, <1>2, <1>3, <1>4, <1>5, <1>6, <1>7, <1>8, <1>9 DEF CommandIInv

LEMMA InspectionKeepsIInv == ASSUME CommandIInv, Inspection PROVE CommandIInv'
  BY StagesKeepIInv, AcquireKeepsIInv, ReadBodyKeepsIInv, CleanupKeepsIInv, AcquiredKeepsIInv,
     PredicateKeepsIInv, WriteKeepsIInv, ToldKeepsIInv, ReturnKeepsIInv DEF Inspection

(* Nothing happens. *)
LEMMA StutterKeepsIInv == ASSUME CommandIInv, UNCHANGED vars PROVE CommandIInv'
<1>1. StopIInv'
  BY NextIInv DEF CommandIInv, vars
<1> QED BY <1>1, OthersKeepIInv
        DEF CommandIInv, CommandTypeOK, vars, stopVars, world, cmdVars, endVars

LEMMA CommandNextIInv == CommandIInv /\ [Next]_vars => CommandIInv'
<1> SUFFICES ASSUME CommandIInv, [Next]_vars PROVE CommandIInv'
  OBVIOUS
<1>1. CASE MainRuns
  BY <1>1, ParseKeepsIInv, PreRunKeepsIInv, CheckOptionsKeepsIInv, CheckDocumentKeepsIInv,
     RouteKeepsIInv, DocumentModeKeepsIInv, InspectionKeepsIInv, ExecuteKeepsIInv,
     AskForStopKeepsIInv, TellKeepsIInv DEF MainRuns
<1>2. CASE Leave
  BY <1>2, LeaveKeepsIInv
<1>3. CASE (Running /\ Callback) \/ InputEnds
  BY <1>3, CallbackKeepsIInv, InputEndsKeepsIInv
<1>4. CASE Interrupt \/ ParentRuns \/ WatchdogRuns
  BY <1>4, InterruptKeepsIInv, ParentKeepsIInv, WatchdogKeepsIInv
<1>5. ASSUME NEW c \in Callers, OwnerRuns(c) PROVE CommandIInv'
  BY <1>5, CancelKeepsIInv DEF OwnerRuns
<1>6. CASE UNCHANGED vars
  BY <1>6, StutterKeepsIInv
<1> QED BY <1>1, <1>2, <1>3, <1>4, <1>5, <1>6 DEF Next

(* The inductive invariant: where Main is, what has been asked of the      *)
(* command line, of the owner and of stdin, and on what grounds (run.go,   *)
(* local_input.go, protobuf_input.go).                                     *)
THEOREM CommandInvariant == Spec => []CommandIInv
  BY InitCommandIInv, CommandNextIInv, PTL DEF Spec

(* The state of an invocation is well typed. *)
THEOREM CommandTypes == Spec => []CommandTypeOK
  BY CommandInvariant, PTL DEF CommandIInv

-----------------------------------------------------------------------------
(* The status says what became of the inspection. *)
LEMMA StatusesAreTrue == CommandIInv => StatusIsTrue
<1> SUFFICES ASSUME CommandIInv, Here PROVE StatusIsTrue
  BY DEF StatusIsTrue, Here
<1> USE DEF CommandIInv
<1>1. /\ Inspects(line) /\ err # "drift" /\ err \in Errors
      /\ exited # NoExit => step = "over" /\ step \in Ending /\ exited = StatusOf(err)
  BY ModesOfALine DEF Order, CommandTypeOK, Ending
<1>2. /\ exited = 0 => err = "none" /\ step \in Ending
      /\ exited = 1 => err \in {"told", "raw"}
      /\ exited = 130 => err = "cancelled"
  <2>1. 0 # NoExit /\ 1 # NoExit /\ 130 # NoExit
    BY DEF NoExit
  <2> QED BY <1>1, <2>1, Statuses
<1>3. exited = 0 => /\ Valid /\ mishap = "none"
                    /\ IF stdout = "nothing" THEN Changed(line, "filter") ELSE stdout = "whole"
  BY <1>2 DEF Judged
<1>4. exited = 1 => mishap # "none" \/ ~Valid
  BY <1>2 DEF Judged
<1>5. 130 \in {exited, killed} => interrupted \/ parent = "cancelled" \/ mishap \in Lent
  <2>1. exited = 130 => reason = "cancel"
    BY <1>2 DEF Judged
  <2>2. killed = 130 => reason = "cancel"
    BY DEF Wished
  <2> QED BY <2>1, <2>2 DEF Wished, Wish
<1>6. Valid /\ exited \in {1, 130} => exited = CodeOf(reason)
  <2>1. Valid /\ exited = 1 => reason = "failure"
    BY <1>2 DEF Judged
  <2>2. exited = 130 => reason = "cancel"
    BY <1>2 DEF Judged
  <2> QED BY <2>1, <2>2 DEF CodeOf
<1>7. stdout # "nothing" => mishap \in {"none", "writing", "lent writer"}
  BY DEF Progress
<1> QED BY <1>3, <1>4, <1>5, <1>6, <1>7 DEF StatusIsTrue

LEMMA FailuresAreTold == CommandIInv => ToldOnceAndGuarded
<1> SUFFICES ASSUME CommandIInv PROVE ToldOnceAndGuarded
  OBVIOUS
<1> USE DEF CommandIInv
<1>1. /\ err \in Errors
      /\ exited # NoExit => step = "over" /\ exited = StatusOf(err)
      /\ step = "over" => said = IF err \in {"none", "drift"} THEN 0 ELSE 1
  BY DEF Order, CommandTypeOK
<1>2. /\ exited \in {0, 2} => err \in {"none", "drift"} /\ step = "over"
      /\ exited \in {1, 130} => err \in {"told", "raw", "cancelled"} /\ step = "over"
  <2>1. 0 # NoExit /\ 1 # NoExit /\ 2 # NoExit /\ 130 # NoExit
    BY DEF NoExit
  <2> QED BY <1>1, <2>1, Statuses
<1>3. hook /\ Inspects(line) /\ (step = "fail" \/ (step = "tell" /\ Untold)) => reason # ""
  BY DEF Wished, Untold
<1>4. hook /\ reason # "" => timer # "off"
  BY DEF StopIInv, DecisionIsActedOn
<1> QED BY <1>1, <1>2, <1>3, <1>4 DEF ToldOnceAndGuarded

LEMMA StdinIsLeftAlone == CommandIInv => StdinIsRestored
  BY DEF CommandIInv, Deadline, StdinIsRestored

(* Wherever it is interrupted and whatever goes wrong, the invocation      *)
(* leaves with the status of what it has done, tells a failure once, with  *)
(* the watchdog armed, and gives stdin back (execute, run.go;              *)
(* protobufStdinDeadline).                                                 *)
THEOREM EndsAreProper == Spec => []EndIsProper
<1>1. CommandIInv => EndIsProper
  BY StatusesAreTrue, FailuresAreTold, StdinIsLeftAlone DEF EndIsProper
<1> QED BY <1>1, CommandInvariant, PTL

(* A command line that is carried out asks for one thing, and all of it is *)
(* understood (PreRunE and its checks, run.go).                            *)
THEOREM LinesAreUnderstood == Spec => []Understood
<1>1. CommandIInv => Understood
  <2> SUFFICES ASSUME CommandIInv PROVE Understood
    OBVIOUS
  <2> USE DEF CommandIInv
  <2>1. Given = {f \in {"input-file", "input-stdin", "protobuf-file", "protobuf-stdin",
                        "nats", "nats-history"} : Changed(line, f)}
    BY DEF Given, Sources
  <2>2. step \in {"destination", "observe"} => Valid /\ Inspects(line)
    <3>1. step = "destination" => Valid /\ Here
      BY DEF Checked, Inspecting, Stages
    <3> QED BY <3>1, ModesOfALine DEF Checked
  <2>3. step = "mode" => Accepts /\ warned = Warns(line)
    BY DEF Checked, Accepts
  <2>4. handled # {} /\ Plain => handled = {line.args[i] : i \in DOMAIN line.args}
    BY DocumentIsUnderstood DEF Checked
  <2> QED BY <2>1, <2>2, <2>3, <2>4, InspectionIsUnderstood, DocumentIsUnderstood
          DEF Understood
<1> QED BY <1>1, CommandInvariant, PTL


-----------------------------------------------------------------------------
(* Main calls the owner only before it is finished. *)
LEMMA MainIsInTime ==
  ASSUME CommandIInv
  PROVE  /\ step \in Checking \cup Stages => ~finished
         /\ step \in {"execute", "ask"} /\ hook => ~finished
  BY CheckingFacts, StageFacts DEF CommandIInv, Order

LEMMA InspectionCallsTheOwner ==
  ASSUME CommandIInv, Inspection
  PROVE  [StopNext]_stopVars
<1>1. \A s, next : Pass(s) \/ Output(s, next) => UNCHANGED stopVars
  BY DEF Pass, Output
<1>2. ASSUME NEW s \in Stages, NEW why \in {"failure", "cancel"}, At(s), Fail(why) PROVE StopNext
  <2>1. Request(Main, why) /\ ~finished /\ why \in Reasons \ {""}
    BY <1>2, MainIsInTime DEF Fail, At, Reasons
  <2> QED BY <2>1, CommandCallers DEF StopNext, Call, MayCall
<1>3. ASSUME NEW s \in Stages, NEW next, Stage(s, next) \/ (At(s) /\ Pass(next))
      PROVE  [StopNext]_stopVars
  BY <1>1, <1>2, <1>3 DEF Stage, Notices, GoesWrong
<1>4. {"destination", "filter", "project", "schema", "acquire", "decode", "predicate", "projection",
       "encode", "write", "writing", "check", "acquired"} \subseteq Stages
  BY DEF Stages
<1>5. CASE BinaryDestination \/ CompileFilter \/ CompileProject \/ PrepareSchema \/ Decode
           \/ Predicate \/ Project \/ Encode
  <2>1. CASE BinaryDestination
    BY <1>1, <1>2, <1>4, <2>1 DEF BinaryDestination, GoesWrong
  <2>2. CASE Predicate
    BY <1>1, <1>3, <1>4, <2>2 DEF Predicate, If
  <2>3. CASE CompileFilter \/ CompileProject \/ PrepareSchema
    BY <1>3, <1>4, <2>3 DEF CompileFilter, CompileProject, PrepareSchema, If
  <2>4. CASE Decode \/ Project \/ Encode
    BY <1>3, <1>4, <2>4 DEF Decode, Project, Encode, If
  <2> QED BY <1>5, <2>1, <2>2, <2>3, <2>4
<1>6. CASE Write
  BY <1>1, <1>2, <1>4, <1>6 DEF Write, WriterGivesUp, Notices, GoesWrong
<1>7. CASE Acquired
  <2>1. At("acquired") /\ (Pass("decode") \/ Fail("failure") \/ Fail("cancel"))
    BY <1>7 DEF Acquired, CommandIInv, CommandTypeOK, Progress, At
  <2> QED BY <1>1, <1>2, <1>4, <2>1
<1>8. CASE Acquire \/ ReadBody \/ Cleanup \/ Told
  BY <1>1, <1>8 DEF Acquire, ReadBody, ReadIs, Cleanup, Told
<1>9. CASE Return
  BY <1>9 DEF Return, StopNext
<1> QED BY <1>5, <1>6, <1>7, <1>8, <1>9 DEF Inspection

(* So every step of an invocation is one of its stop owner, or none. *)
LEMMA TheOwnerIsUsedAsSpecified ==
  ASSUME CommandIInv, [Next]_vars
  PROVE  [StopNext]_stopVars
<1>1. ASSUME Start, ~finished PROVE [StopNext]_stopVars
  <2>1. UNCHANGED stopVars \/ (Request(Main, "cancel") /\ "cancel" \in Reasons \ {""})
    BY <1>1 DEF Start, Reasons
  <2> QED BY <1>1, <2>1, CommandCallers DEF StopNext, Call, MayCall
<1>2. \A e : Refuse(e) => UNCHANGED stopVars
  BY DEF Refuse
<1>3. CASE Parse \/ CheckOptions \/ CheckDocument \/ DocumentMode \/ Tell
  BY <1>2, <1>3 DEF Parse, CheckOptions, CheckDocument, DocumentMode, Tell, Pass
<1>4. CASE PreRun
  <2>1. ~finished
    BY <1>4, MainIsInTime DEF PreRun, At, Checking
  <2> QED BY <1>1, <1>4, <2>1 DEF PreRun
<1>5. CASE Route
  <2>1. ~finished
    BY <1>5, MainIsInTime DEF Route, At, Checking
  <2> QED BY <1>1, <1>2, <1>5, <2>1 DEF Route, Pass
<1>6. CASE Execute
  <2>1. hook => ~finished
    BY <1>6, MainIsInTime DEF Execute, At
  <2> QED BY <1>1, <1>6, <2>1 DEF Execute
<1>7. CASE AskForStop
  <2>1. hook => ~finished
    BY <1>7, MainIsInTime DEF AskForStop, At
  <2>2. UNCHANGED stopVars \/ (~finished /\ Request(Main, "failure") /\ "failure" \in Reasons \ {""})
    BY <1>7, <2>1 DEF AskForStop, Reasons
  <2> QED BY <2>2, CommandCallers DEF StopNext, Call, MayCall
<1>8. CASE Inspection
  BY <1>8, InspectionCallsTheOwner
<1>9. CASE Leave \/ \E c \in Callers : OwnerRuns(c)
  BY <1>9, CommandCallers DEF Leave, OwnerRuns, StopNext, Call
<1>10. CASE Callback \/ InputEnds \/ UNCHANGED vars
  BY <1>10 DEF Callback, InputEnds, vars
<1>11. CASE Interrupt
  <2>1. Request(Signals, "cancel") /\ "cancel" \in Reasons \ {""}
    BY <1>11 DEF Interrupt, Reasons
  <2> QED BY <2>1, CommandCallers DEF StopNext, Call, MayCall
<1>12. CASE ParentRuns \/ WatchdogRuns
  BY <1>12 DEF ParentRuns, WatchdogRuns, StopNext
<1> QED BY <1>3, <1>4, <1>5, <1>6, <1>7, <1>8, <1>9, <1>10, <1>11, <1>12 DEF Next, MainRuns

(* An invocation uses its stop owner as NatsStop allows, so that what is   *)
(* proved of the owner holds in it (run.go and local_input.go's calls of   *)
(* natsStop).                                                              *)
THEOREM CommandIsComposed == Spec => StopSpec
<1>1. Init => StopInit
  BY DEF Init
<1> QED BY <1>1, CommandInvariant, TheOwnerIsUsedAsSpecified, PTL DEF Spec, StopSpec

(* What an invocation decides is decided once, only degrades, is frozen by *)
(* finish and reported by a forced exit (nats_stop.go as run.go uses it).  *)
THEOREM CommandDecides == Spec => ImplementsDecision
  BY CommandIsComposed, StopRefinesDecision
=============================================================================
