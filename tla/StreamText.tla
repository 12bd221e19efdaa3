----------------------------- MODULE StreamText -----------------------------
(***************************************************************************)
(* What the readers and writers of stream/stream.go and the detector of    *)
(* format/detect.go make of text.  A text is a sequence of lines; a line   *)
(* that holds a whole document of the stream's format is Bytes(v, form),   *)
(* with form "compact" (as the encoder writes it), "loose" or "long" (more *)
(* than the 1 MiB that bufio.Scanner takes); the others have no value.     *)
(* A document is a mapping, and all of them have the same one key: two on  *)
(* successive lines are an error in JSON, where the first is followed by   *)
(* something, and one document in YAML and TOML, where the key is set      *)
(* twice.  YAML and TOML documents are laid out as blocks (k: v, k = v).   *)
(***************************************************************************)
EXTENDS Integers, Sequences, SequencesExt, FiniteSetsExt, Document

CONSTANTS Whole,     \* the value of an array that is laid out over lines
          Empty,     \* the value of an empty TOML text
          Folded,    \* the value of lines of TOML that are read as YAML
          NotToml,   \* the values that only TOML refuses
          PeekLines  \* how many (short) lines the 512 bytes of the peek hold

ASSUME StreamAssumption ==
  /\ {Whole, Empty, Folded} \cup NotToml \subseteq Values /\ PeekLines \in Nat \ {0}

Formats == {"json", "jsonl", "yaml", "toml"}

Mark(form) == Bytes(None, form)
Sep   == Mark("sep")    \* ---
Plus  == Mark("plus")   \* +++
Blank == Mark("blank")
Bad   == Mark("bad")    \* a control character, which no decoder takes
Begin == Mark("begin")  \* [ on a line of its own
Item  == Mark("item")   \* an element of the array and its comma
End   == Mark("end")    \* ] on a line of its own
Marks == {Sep, Plus, Blank, Bad, Begin, Item, End}
Eol   == Mark("eol")    \* the newline that ends a JSON document
Docs  == [value : Values, form : {"compact", "loose", "long"}]
Lines == Docs \cup Marks

Solid(s) == SelectSeq(s, LAMBDA l : l # Blank)

(* Lines that stand in a JSON text only, and the lines of a text in format *)
(* f.                                                                      *)
Brackets   == {Begin, Item, End}
LinesOf(f) == IF f \in {"json", "jsonl"} THEN Lines ELSE Lines \ Brackets

(* Is t an array over lines: "[", elements, "]"?  No comma follows the     *)
(* last element, but YAML takes one there.                                 *)
IsArray(t, last) ==
  /\ Len(t) > 1 /\ t[1] = Begin /\ t[Len(t)] = End
  /\ \A i \in 2..(Len(t) - 1) : IF i = Len(t) - 1 THEN t[i] \in last ELSE t[i] = Item

(* The value of a JSON text: None if it is not exactly one document.       *)
One(t, last)  == IF \E l \in Docs : t = <<l>> THEN t[1].value ELSE IF IsArray(t, last) THEN Whole ELSE None
DecodeText(s) == One(Solid(s), Docs)

(* A block: every line sets the key, and the last one stays.               *)
IsBlock(t) == t # <<>> /\ t \in Seq(Docs)

(* One YAML document, in a text of format g.  Flow collections one after   *)
(* the other are an error, lines of TOML one plain scalar, and blank lines *)
(* no document at all.                                                     *)
DecodeYAML(s, g) ==
  LET t == Solid(s)
  IN IF g \in {"json", "jsonl"} THEN One(t, Docs \cup {Item})
     ELSE IF ~IsBlock(t) THEN None ELSE IF g = "yaml" THEN Last(t).value ELSE Folded

(* json.DecodeValueWithLimits: Decoder.More is false before "]", so a      *)
(* document that is followed by one passes for the whole text.             *)
DecodeJSON(s) ==
  LET t == Solid(s)
      heads == {i \in 1..Len(t) : /\ DecodeText(SubSeq(t, 1, i)) # None
                                  /\ i = Len(t) \/ t[i + 1] = End}
  IN IF heads = {} THEN None ELSE DecodeText(SubSeq(t, 1, Max(heads)))

(* tomlDocReader.Next: a line "---" is refused, no line is an empty table, *)
(* and nothing but TOML is TOML.                                           *)
DecodeTOML(s, g) ==
  LET t == Solid(s)
  IN IF Sep \in ToSet(s) THEN None ELSE IF t = <<>> THEN Empty
     ELSE IF g = "toml" /\ IsBlock(t) THEN Last(t).value ELSE None

(* detectBytes, on lines of a text in format f.                            *)
Opens(l, f)   == f \in {"json", "jsonl"} /\ (l \in Docs \/ l \in {Begin, Item})
Colon(l, f)   == l \in Docs /\ (f = "yaml" \/ (f \in {"json", "jsonl"} /\ l.form = "loose"))
Assigns(l, f) == l = Begin \/ (f = "toml" /\ l \in Docs)

DetectBytes(p, f) ==
  LET t == Solid(p)
      has(P(_, _)) == \E i \in DOMAIN t : P(t[i], f)
  IN CASE t = <<>> -> "none"
       [] t # <<>> /\ Opens(t[1], f) ->
            IF Len(t) > 1 /\ \A i \in DOMAIN t : Opens(t[i], f) THEN "jsonl" ELSE "json"
       [] t # <<>> /\ ~Opens(t[1], f) ->
            IF Sep \in ToSet(t) \/ has(Colon) THEN "yaml" ELSE IF has(Assigns) THEN "toml" ELSE "none"

(* The window of the peek ends in the first long line.                     *)
Peek(s) ==
  LET longs == {i \in DOMAIN s : s[i].form = "long"}
  IN SubSeq(s, 1, Min({Len(s), PeekLines} \cup longs))

Refused(f) == Unencodable \cup (IF f = "toml" THEN NotToml ELSE {})
=============================================================================
