----------------------------- MODULE MCCommand -----------------------------
(* Instance of Command for TLC: one command line for each mode and source, *)
(* and each of them with an option more, one less, or one of each; two     *)
(* more where options depend on each other.                                *)
EXTENDS Command, TLC
MCCallers == {Main, Watcher, Signals}

Documents == {"query" :> "good", "in-place" :> "true", "dry-run" :> "true",
              "check" :> "true", "edit" :> "true"}
Natives == {
  "nats" :> "good" @@ "server" :> "tls" @@ "duration" :> "good",
  "nats-history" :> "good" @@ "server" :> "nats" @@ "duration" :> "good" @@
    "subject" :> "good" @@ "start-seq" :> "good"}
Bodies == {
  "input-file" :> "good" @@ "input-codec" :> "flatbuffers" @@ "bfbs" :> "good",
  "input-stdin" :> "true" @@ "input-codec" :> "json" @@ "to" :> "msgpack",
  "input-stdin" :> "true" @@ "input-codec" :> "text" @@ "filter" :> "good",
  "protobuf-stdin" :> "true" @@ "descriptor-set" :> "good" @@ "message-type" :> "good"}

Nothing  == [f \in {} |-> ""]
Less(o)  == {o} \cup {[g \in DOMAIN o \ {f} |-> o[g]] : f \in DOMAIN o}
More(o, S) == {o} \cup UNION {{(f :> v) @@ o : v \in ValuesOf(f)} : f \in S}
Twice(o, S) == UNION {More(p, S) : p \in More(o, S)}

Paired == {"in-place", "dry-run", "check", "edit", "where", "backup", "query",
           "from-file", "keep-going", "strict", "output-format"}

Line(o, a, b) == [options |-> o, args |-> a, broken |-> b]
Inspections == UNION {More(p, Options) : p \in UNION {Less(o) : o \in Natives \cup Bodies}}
NativePairs == UNION {Twice(o, HistoryOptions \cup SecurityOptions) : o \in Natives}
Edits == UNION {More(o, Options) : o \in Documents \cup {Nothing}}
         \cup UNION {Twice(o, Paired) : o \in Documents}

MCInit ==
  /\ \/ \E o \in Inspections \cup NativePairs : line = Line(o, <<>>, FALSE)
     \/ \E o \in Natives \cup Bodies, b \in BOOLEAN : line = Line(o, <<"a">>, b)
     \/ \E o \in Edits, a \in Arguments : line = Line(o, a, FALSE)
  /\ Init
MCSpec == MCInit /\ [][Next]_vars /\ Fairness
=============================================================================
