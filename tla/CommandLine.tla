---------------------------- MODULE CommandLine ----------------------------
(***************************************************************************)
(* What nesdit takes for a command line (run/run.go, and the validate      *)
(* methods of run/nats.go, local_input.go and protobuf_input.go).  A       *)
(* command line is the options that are given, with a value for each, and  *)
(* the positional arguments.  An option that is given is "Changed", also   *)
(* with the value false.  Values are classes: "bad" is one the validation  *)
(* of that option refuses.                                                 *)
(***************************************************************************)
EXTENDS Naturals, FiniteSets, Sequences

Switches == {"in-place", "dry-run", "check", "edit", "keep-going", "strict",
             "create-missing", "pretty", "input-stdin", "protobuf-stdin"}

LocalOptions    == {"input-file", "input-stdin", "input-codec", "to", "bfbs"}
ProtobufOptions == {"protobuf-file", "protobuf-stdin", "descriptor-set", "message-type"}
HistoryOptions  == {"nats-history", "subject", "start-seq", "start-time", "end-seq"}
SecurityOptions == {"creds", "tls-ca", "tls-cert", "tls-key"}
NatsOptions     == HistoryOptions \cup SecurityOptions \cup
                   {"nats", "nats-codec", "server", "duration", "count", "nats-output"}
QueryOptions    == {"filter", "project"}
DocumentOptions == {"query", "from-file", "arg", "argjson", "in-place", "dry-run",
                    "check", "edit", "where", "keep-going", "strict", "backup",
                    "create-missing", "format", "output-format", "yaml-version",
                    "pretty", "timeout", "max-bytes", "max-depth", "max-yaml-nodes",
                    "max-query-bytes"}
Options == LocalOptions \cup ProtobufOptions \cup NatsOptions \cup QueryOptions
           \cup DocumentOptions \cup {"log-format"}

ValuesOf(f) ==
  CASE f \in Switches     -> {"true", "false"}
    [] f = "input-codec"  -> {"text", "msgpack", "json", "msgpack-json", "flatbuffers", "bad"}
    [] f = "nats-codec"   -> {"json", "protobuf", "text", "bad"}
    [] f = "to"           -> {"json", "msgpack", "bad"}
    [] f = "server"       -> {"nats", "tls", "bad"}
    [] f = "bfbs"         -> {"good", "same", "bad"}
    [] f = "end-seq"      -> {"good", "before", "bad"}
    [] OTHER              -> {"good", "bad"}

Arguments == {<<>>, <<"-">>, <<"a">>, <<"a", "b">>}

(* c.broken: parsing stops with an error after the options that are given. *)
IsCommandLine(c) ==
  /\ DOMAIN c.options \subseteq Options
  /\ \A f \in DOMAIN c.options : c.options[f] \in ValuesOf(f)
  /\ c.args \in Arguments /\ c.broken \in BOOLEAN

Changed(c, f)  == f \in DOMAIN c.options
Some(c, S)     == \E f \in S : Changed(c, f)
Every(c, S)    == \A f \in S : Changed(c, f)
Value(c, f, default) == IF Changed(c, f) THEN c.options[f] ELSE default
On(c, f)       == Value(c, f, "false") = "true"
Good(c, f)     == Value(c, f, "bad") # "bad"
Accepted(c, f) == Value(c, f, "good") # "bad"  \* if it is given at all

LocalSelected(c)    == Some(c, {"input-file", "input-stdin"})
ProtobufSelected(c) == Some(c, {"protobuf-file", "protobuf-stdin"})
NativeSelected(c)   == Some(c, {"nats", "nats-history"})
Inspects(c) == LocalSelected(c) \/ ProtobufSelected(c) \/ NativeSelected(c)

FromStdin(c) == c.args \in {<<>>, <<"-">>}

-----------------------------------------------------------------------------
(* The Args function of the command. *)
ArgsOK(c) ==
  CASE Inspects(c)            -> TRUE
    [] ~Inspects(c) /\ Changed(c, "edit") -> Len(c.args) = 1
    [] ~Inspects(c) /\ ~Changed(c, "edit") /\ Changed(c, "in-place") -> Len(c.args) >= 1
    [] OTHER                  -> Len(c.args) <= 1

(* localOptions.validate *)
Target(c) == Value(c, "to", "json")
Codec(c)  == Value(c, "input-codec", "bad")

OnlyLocal(c) ==
  DOMAIN c.options \subseteq LocalOptions \cup QueryOptions \cup {"log-format"}

TargetOK(c) ==
  \/ Codec(c) \in {"text", "flatbuffers"} /\ Target(c) = "json"
  \/ Codec(c) = "msgpack" /\ Target(c) \in {"json", "msgpack"}
  \/ Codec(c) \in {"json", "msgpack-json"} /\ Target(c) = "msgpack"

SchemaOK(c) ==
  IF Codec(c) = "flatbuffers"
    THEN Good(c, "bfbs") /\ (Changed(c, "input-file") => c.options["bfbs"] # "same")
    ELSE ~Changed(c, "bfbs")

LocalOK(c) ==
  IF LocalSelected(c)
    THEN /\ c.args = <<>>
         /\ ~Every(c, {"input-file", "input-stdin"})
         /\ Accepted(c, "input-file") /\ Value(c, "input-stdin", "true") = "true"
         /\ OnlyLocal(c)
         /\ TargetOK(c) /\ SchemaOK(c)
    ELSE ~Some(c, {"input-codec", "to", "bfbs"})

(* protobufOptions.validate *)
DescriptorOK(c) == Good(c, "descriptor-set") /\ Good(c, "message-type")

OnlyProtobuf(c) ==
  DOMAIN c.options \subseteq ProtobufOptions \cup QueryOptions \cup {"log-format"}

ProtobufOK(c) ==
  IF ProtobufSelected(c)
    THEN /\ c.args = <<>>
         /\ ~Every(c, {"protobuf-file", "protobuf-stdin"})
         /\ Accepted(c, "protobuf-file") /\ Value(c, "protobuf-stdin", "true") = "true"
         /\ OnlyProtobuf(c)
         /\ DescriptorOK(c)
    ELSE IF NativeSelected(c) /\ Value(c, "nats-codec", "json") = "protobuf"
      THEN DescriptorOK(c)
      ELSE ~Some(c, {"descriptor-set", "message-type"})

(* natsOptions.validate *)
OnlyNats(c) ==
  DOMAIN c.options \subseteq NatsOptions \cup QueryOptions
                             \cup {"log-format", "descriptor-set", "message-type"}

HistoryOK(c) ==
  /\ Changed(c, "subject")
  /\ Changed(c, "start-seq") # Changed(c, "start-time")
  /\ \A f \in HistoryOptions : Accepted(c, f)
  /\ ~(Changed(c, "start-seq") /\ Value(c, "end-seq", "good") = "before")

SecurityOK(c) ==
  /\ Some(c, SecurityOptions) => c.options["server"] = "tls"
  /\ \A f \in SecurityOptions : Accepted(c, f)
  /\ Changed(c, "tls-cert") = Changed(c, "tls-key")

NatsOK(c) ==
  /\ ~Every(c, {"nats", "nats-history"})
  /\ Some(c, HistoryOptions) => Changed(c, "nats-history")
  /\ IF NativeSelected(c)
       THEN /\ OnlyNats(c)
            /\ Accepted(c, "nats-codec") /\ c.args = <<>>
            /\ Good(c, "server") /\ Good(c, "duration")
            /\ Accepted(c, "count") /\ Accepted(c, "nats-output")
            /\ Changed(c, "nats-history") => HistoryOK(c)
            /\ Accepted(c, "nats")
            /\ SecurityOK(c)
       ELSE ~Some(c, NatsOptions \cup QueryOptions)

-----------------------------------------------------------------------------
(* flagConflictRules: the second with the first is an error. *)
Conflicts ==
  {<<"query", "from-file">>, <<"dry-run", "check">>, <<"keep-going", "strict">>,
   <<"output-format", "in-place">>, <<"where", "dry-run">>, <<"where", "check">>}
  \cup {<<"edit", f>> : f \in {"in-place", "dry-run", "check", "query", "from-file",
                               "arg", "argjson"}}

(* flagPrecedenceRules: a warning, the second wins. *)
Precedences == {<<"in-place", "dry-run">>, <<"in-place", "check">>}

(* validateFlagInteraction *)
BugWhereAnywhere(c) ==
  /\ \A r \in Conflicts : ~(Changed(c, r[1]) /\ Changed(c, r[2]))
  /\ Changed(c, "backup") => Changed(c, "in-place")
  /\ Changed(c, "where") => Some(c, {"query", "from-file"})
InteractionOK(c) ==
  /\ \A r \in Conflicts : ~(Changed(c, r[1]) /\ Changed(c, r[2]))
  /\ Changed(c, "backup") => Changed(c, "in-place")
  /\ Changed(c, "where") => /\ Some(c, {"query", "from-file"})
                            /\ Changed(c, "in-place") \/ FromStdin(c)

Warns(c) == \E r \in Precedences : Changed(c, r[1]) /\ Changed(c, r[2])

(* PreRunE, what it refuses after the log format, *)
OptionsOK(c) ==
  /\ LocalOK(c)
  /\ ~LocalSelected(c) => ProtobufOK(c)
  /\ ~LocalSelected(c) /\ ~ProtobufSelected(c) => NatsOK(c)

DocumentOK(c) ==
  /\ Accepted(c, "output-format") /\ Accepted(c, "yaml-version")
  /\ InteractionOK(c)

(* and RunE: the mode of a command line and what it still refuses. *)
Mode(c) ==
  CASE LocalSelected(c)                           -> "local"
    [] ~LocalSelected(c) /\ ProtobufSelected(c)   -> "protobuf"
    [] ~LocalSelected(c) /\ ~ProtobufSelected(c) /\ NativeSelected(c) -> "native"
    [] ~Inspects(c) /\ On(c, "edit")              -> "edit"
    [] ~Inspects(c) /\ ~On(c, "edit") /\ On(c, "dry-run") -> "dryrun"
    [] ~Inspects(c) /\ ~On(c, "edit") /\ ~On(c, "dry-run") /\ On(c, "check") -> "check"
    [] ~Inspects(c) /\ \A f \in {"edit", "dry-run", "check"} : ~On(c, f) ->
         IF On(c, "in-place") THEN "files" ELSE IF FromStdin(c) THEN "stdin" ELSE "once"

RouteOK(c) ==
  /\ Mode(c) # "edit" => \A f \in {"arg", "argjson", "from-file"} : Accepted(c, f)
  /\ Mode(c) \in {"dryrun", "check"} => Len(c.args) = 1 /\ ~FromStdin(c)
=============================================================================
