------------------------------ MODULE Document ------------------------------
(***************************************************************************)
(* One document through decode, query, missing-path check and encode, in   *)
(* the four modes that do so for a file: -i (processOneFile), --check,     *)
(* --dry-run and plain output (runOnce).  A document is an abstract value, *)
(* the bytes of a file are the value they decode to and a form: what the   *)
(* encoder writes ("compact", or "pretty" with --pretty), another layout   *)
(* of the same value ("loose") or another format ("foreign").              *)
(***************************************************************************)
CONSTANTS Values,
          None,        \* no value: what does not decode, or a failed query
          Larger,      \* the values with a path that the others lack
          Unencodable, \* what the codec decodes or jq returns but encode refuses
          Where        \* Where[v]: what --where says of v

ASSUME DocumentAssumption ==
  /\ None \notin Values /\ Larger \subseteq Values /\ Unencodable \subseteq Values
  /\ Where \in [Values -> {"match", "skip", "fails"}]

(* The flags of the command line that matter to a document or a batch;     *)
(* "pretty" is --pretty for a TOML file (it is ignored for the others),    *)
(* "forced" is --format, "cross" an --output-format that differs.          *)
Flags == {"keepGoing", "backup", "where", "create", "pretty", "forced", "cross"}
FlagSets == [Flags -> BOOLEAN]
Queries  == [Values -> Values \cup {None}]

Bytes(v, form) == [value |-> v, form |-> form]
Garbage == Bytes(None, "loose")
NoBytes == Bytes(None, "none")
Torn    == Bytes(None, "torn")
Texts   == [value : Values, form : {"compact", "pretty", "loose"}] \cup {Garbage}

Decode(t) == t.value

Form(pretty)     == IF pretty THEN "pretty" ELSE "compact"
Encode(v, form)  == IF v \in {None} \cup Unencodable THEN NoBytes ELSE Bytes(v, form)
OutForm(o)       == IF o["cross"] THEN "foreign" ELSE Form(o["pretty"])

(* CheckNoMissingPaths *)
Creates(v, w) == w \in Larger /\ v \notin Larger

(* The query on v: None if it fails or creates a path without leave. *)
RunQuery(q, v, o) ==
  LET w == IF v = None THEN None ELSE q[v]
  IN IF w # None /\ Creates(v, w) /\ ~o["create"] THEN None ELSE w

(* What --where says; without it everything matches. *)
ApplyWhere(v, o) == IF o["where"] THEN Where[v] ELSE "match"

(* processOneFile: the outcome and the two texts that are compared. *)
Outcome(status, base, new) == [status |-> status, base |-> base, new |-> new]

ProcessOneFile(t, q, o) ==
  LET v    == Decode(t)
      base == Encode(v, Form(o["pretty"]))
      new  == Encode(RunQuery(q, v, o), Form(o["pretty"]))
  IN CASE v = None                      -> Outcome("errored", NoBytes, NoBytes)
       [] v # None /\ ApplyWhere(v, o) = "fails" -> Outcome("errored", base, NoBytes)
       [] v # None /\ ApplyWhere(v, o) = "skip"  -> Outcome("skipped", base, NoBytes)
       [] v # None /\ ApplyWhere(v, o) = "match" ->
            Outcome(IF new = NoBytes THEN "errored" ELSE "ready", base, new)
Unread == Outcome("none", NoBytes, NoBytes)
Failed == Outcome("errored", NoBytes, NoBytes)

Unchanged(r) == r.base # NoBytes /\ r.base = r.new

(* runCheck: 2 is drift. *)
BugCompactBaseline(t, q, o) ==
  LET before == Encode(Decode(t), "compact")
      after  == Encode(RunQuery(q, Decode(t), o), OutForm(o))
  IN IF NoBytes \in {before, after} THEN 1 ELSE IF before = after THEN 0 ELSE 2
RunCheck(t, q, o) ==
  LET before == Encode(Decode(t), Form(o["pretty"]))
      after  == Encode(RunQuery(q, Decode(t), o), OutForm(o))
  IN IF NoBytes \in {before, after} THEN 1 ELSE IF before = after THEN 0 ELSE 2

(* runDryRun: the two sides of the diff, the first never pretty. *)
RunDryRun(t, q, o) ==
  LET before == Encode(Decode(t), "compact")
      after  == Encode(RunQuery(q, Decode(t), o), OutForm(o))
  IN IF NoBytes \in {before, after} THEN <<>> ELSE <<before, after>>

(* runOnce: what goes to stdout. *)
RunOnce(t, q, o) == Encode(RunQuery(q, Decode(t), o), OutForm(o))

(* A query that is applied once or twice to the same effect. *)
Idempotent(q) == \A v \in Values : q[v] # None => q[q[v]] = q[v]
=============================================================================
