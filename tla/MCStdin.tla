------------------------------ MODULE MCStdin ------------------------------
(***************************************************************************)
(* Instance of StdinStream for TLC.  The query answers a; it fails on b,   *)
(* gives for c what no codec can write, for d a new path and for e what    *)
(* only TOML refuses; --where skips d and fails on e.                      *)
(***************************************************************************)
EXTENDS StdinStream, TLC
CONSTANTS a, b, c, d, e, ok, big, nan, nul, whole, folded, empty, Given, Named, Texts_, Out, MaxLines, MaxPiped

MCQuery == a :> ok @@ b :> None @@ c :> nan @@ d :> big @@ e :> nul
           @@ ok :> ok @@ big :> big @@ nan :> nan @@ nul :> nul @@ whole :> ok @@ folded :> None @@ empty :> ok
MCWhere == [v \in Values |-> IF v = d THEN "skip" ELSE IF v = e THEN "fails" ELSE "match"]

(* --format is the format of the text, absent, or "json" for JSON lines; a *)
(* program that waits for its answers asks for what it sent.               *)
AsFlags(s) == [f \in Flags |-> f \in s]
MCJobs == {j \in [named : Named, text : Texts_, out : Out, opts : {AsFlags(s) : s \in SUBSET Given},
                  piped : {n > 0 : n \in {0, MaxPiped}}] :
             /\ j.named \in {"auto", j.text} \/ (j.named = "json" /\ j.text = "jsonl")
             /\ j.piped => j.out = "same" /\ \A f \in Flags : j.opts[f] => f = "keepGoing"}

(* The lines of a text in format f; few of them where the text is long. *)
Text(f, few) ==
  {Bytes(v, "compact") : v \in IF few THEN {a, b} ELSE {a, b, c, d, e}}
  \cup (IF few THEN {Sep} ELSE {Blank, Bad, Bytes(d, "loose")})
  \cup (IF f \in {"json", "toml"} \/ few THEN {} ELSE {Bytes(a, "long")})
  \cup (IF f \in {"yaml", "toml"} THEN {Sep} ELSE {})
  \cup (IF f = "json" THEN {Begin, Item, End} ELSE {})
MCStreams == [f \in Formats |-> [piped \in BOOLEAN |->
                UNION {[1..n -> Text(f, piped)] : n \in 0..(IF piped THEN MaxPiped ELSE MaxLines)}]]
=============================================================================
