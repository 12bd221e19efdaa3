----------------------------- MODULE MsgpackJSON -----------------------------
(***************************************************************************)
(* The way back: a JSON text is read (json_input.go), validated against    *)
(* the limits that its view would meet (target.go, number.go) and encoded  *)
(* (encode.go); what comes of it is decoded again.  As ordinary JSON a     *)
(* text is data; as rich JSON its objects are the tags of the view.        *)
(***************************************************************************)
EXTENDS Msgpack

CONSTANTS Number,                        \* a text that is a number, and what it is as such
          OrdinaryTrees, RichTrees,      \* what may be given to encode
          OutputLimit

VARIABLES source, profile, stage
jsonVars == <<source, profile, stage>>

Refused == [nodes |-> -1, text |-> -1]
Charge(b, depth, nodes, text) ==
  IF b = Refused \/ ~Fits(b, depth, nodes, text) THEN Refused ELSE Add(b, nodes, text)
Numbers == DOMAIN Number
IsStr(j, S) == j.kind = "str" /\ j.text.form = "plain" /\ j.text.of \in S
IsBin(j)    == j.kind = "str" /\ j.text.form = "base64"
IsList(j, n) == j.kind = "seq" /\ Len(j.items) = n

(* ordinaryNumber; integers that are too large are no floats. *)
NumberTag(x) ==
  LET n == Number[x]
  IN IF n.floating THEN (IF n.float = "" THEN Literal ELSE Tag("$float", StrValue(Plain(n.float))))
     ELSE IF n.int THEN Tag("$int", StrValue(Plain(x))) ELSE Literal

(* jsonScan counts the nodes and the text of the tree before it is built,  *)
(* and actualView when it is; a key is charged with its object.            *)
RECURSIVE ActualView(_, _, _)
ActualView(j, depth, b) ==
  FoldLeft(LAMBDA acc, i : ActualView(j.items[i], depth + 1,
                             IF j.kind = "map" THEN Charge(acc, depth, 0, LenOf(j.keys[i])) ELSE acc),
           Charge(b, depth, 1, IF j.kind = "str" THEN LenOf(j.text) ELSE 0),
           [i \in DOMAIN j.items |-> i])

RECURSIVE NoDuplicates(_)
NoDuplicates(j) == IsInjective(j.keys) /\ \A i \in DOMAIN j.items : NoDuplicates(j.items[i])

RECURSIVE Ordinary(_, _, _, _)
(* ordinary: the budgets of the body and of the view it would have.        *)
Ordinary(j, depth, viewDepth, b) ==
  LET text == IF j.kind = "str" THEN LenOf(j.text) ELSE 0
      s == Charge(b.semantic, depth, 1, text)
      v == Charge(b.view, viewDepth, 1, text)
      tag == NumberTag(j.text.of)
      pair(acc, i) ==
        LET a == [acc EXCEPT !.view = Charge(@, viewDepth + 2, 1, 0)]
        IN Ordinary(j.items[i], depth + 1, viewDepth + 3,
                    Ordinary(StrValue(j.keys[i]), depth + 1, viewDepth + 3, a))
      each(acc, c) == Ordinary(c, depth + 1, viewDepth + 1, acc)
  IN CASE j.kind \in {"literal", "str"} -> [semantic |-> s, view |-> v]
       [] j.kind = "num" ->
            [semantic |-> IF tag = Literal THEN Refused ELSE s,
             view |-> IF tag = Literal THEN Refused
                      ELSE Charge(v, viewDepth + 1, 1, LenOf(tag.keys[1]) + LenOf(tag.items[1].text))]
       [] j.kind = "seq" -> FoldLeft(each, [semantic |-> s, view |-> v], j.items)
       [] j.kind = "map" ->
            FoldLeft(pair, [semantic |-> s, view |-> Charge(v, viewDepth + 1, 1, Size["$map"])],
                     [i \in DOMAIN j.items |-> i])

(* rich: one key, and what it calls for. *)
RECURSIVE Rich(_, _, _)
RichScalar(key, arg) ==
  CASE key = "$int"   -> IsStr(arg, Numbers) /\ Number[arg.text.of].int
    [] key = "$float" -> IsStr(arg, Numbers) /\ Number[arg.text.of].float # ""
    [] key = "$bin"   -> IsBin(arg)
    [] key = "$str64" -> IsBin(arg) /\ arg.text.of \notin Strings
    [] key = "$ext"   -> IsList(arg, 2) /\ arg.items[1] = NumValue(ExtId) /\ IsBin(arg.items[2])
    [] key = "$time"  -> /\ IsList(arg, 2) /\ IsStr(arg.items[1], Numbers)
                         /\ Number[arg.items[1].text.of].signed
                         /\ arg.items[2].kind = "num" /\ Number[arg.items[2].text.of].nanos
    [] OTHER -> FALSE
PayloadOf(key, arg) ==
  CASE key \in {"$bin", "$str64"} -> Size[arg.text.of]
    [] key = "$ext" -> Size[arg.items[2].text.of]
    [] OTHER -> 0
Rich(j, depth, b) ==
  LET s == Charge(b, depth, 1, IF j.kind = "str" THEN LenOf(j.text) ELSE 0)
      key == j.keys[1].of
      arg == j.items[1]
      each(acc, c) == Rich(c, depth + 1, acc)
      pair(acc, p) == IF IsList(p, 2) THEN FoldLeft(each, acc, p.items) ELSE Refused
  IN CASE j.kind \in {"literal", "str"} -> s
       [] j.kind = "num" -> Refused
       [] j.kind = "seq" -> FoldLeft(each, s, j.items)
       [] j.kind = "map" /\ Len(j.keys) = 1 /\ key = "$map" ->
            IF arg.kind = "seq" THEN FoldLeft(pair, s, arg.items) ELSE Refused
       [] j.kind = "map" /\ Len(j.keys) = 1 /\ key # "$map" ->
            IF RichScalar(key, arg) THEN Charge(s, 0, 0, PayloadOf(key, arg)) ELSE Refused
       [] OTHER -> Refused

ValidTarget(j, p) ==
  IF p = "rich" THEN ActualView(j, 0, Zero) # Refused /\ Rich(j, 0, Zero) # Refused
  ELSE LET b == Ordinary(j, 0, 0, [semantic |-> Zero, view |-> Zero])
       IN b.semantic # Refused /\ b.view # Refused

(* The encoder writes the shortest form. *)
IntItem(x)   == Item(IF Number[x].negative THEN "int" ELSE "uint", 0, x)
FloatItem(x) == Item("f64", 0, Number[x].float)
TimeItem(sec, nanos) ==
  LET m == CHOOSE m \in Moments : Moment[m].sec = sec /\ Moment[m].nanos = nanos
  IN Item("time", Moment[m].least, m)

RECURSIVE Wire(_, _)
Wire(j, p) ==
  LET key == j.keys[1].of
      arg == j.items[1]
      all(s) == FlattenSeq([i \in DOMAIN s |-> Wire(s[i], p)])
      tag == NumberTag(j.text.of)
  IN CASE j.kind = "literal" -> <<Item("nil", 0, "")>>
       [] j.kind = "str" -> <<Item("str", 0, j.text.of)>>
       [] j.kind = "num" -> <<IF tag.keys[1].of = "$int" THEN IntItem(j.text.of) ELSE FloatItem(j.text.of)>>
       [] j.kind = "seq" -> <<Item("array", Len(j.items), "")>> \o all(j.items)
       [] j.kind = "map" /\ p = "ordinary" ->
            <<Item("map", Len(j.items), "")>>
            \o FlattenSeq([i \in DOMAIN j.items |-> <<Item("str", 0, j.keys[i].of)>> \o Wire(j.items[i], p)])
       [] j.kind = "map" /\ p = "rich" ->
            CASE key = "$int"   -> <<IntItem(arg.text.of)>>
              [] key = "$float" -> <<FloatItem(arg.text.of)>>
              [] key = "$bin"   -> <<Item("bin", 0, arg.text.of)>>
              [] key = "$str64" -> <<Item("str", 0, arg.text.of)>>
              [] key = "$ext"   -> <<Item("ext", 0, arg.items[2].text.of)>>
              [] key = "$time"  -> <<TimeItem(arg.items[1].text.of, arg.items[2].text.of)>>
              [] key = "$map"   -> <<Item("map", Len(arg.items), "")>>
                                   \o FlattenSeq([i \in DOMAIN arg.items |-> all(arg.items[i].items)])

(* The length of a compact text without escapes, as it is written; a text  *)
(* that is given may be longer, with white space.                          *)
RECURSIVE JSONLength(_)
JSONLength(j) ==
  LET commas == IF j.items = <<>> THEN 0 ELSE Len(j.items) - 1
      inside == FoldLeft(LAMBDA n, c : n + JSONLength(c), 2 + commas, j.items)
  IN CASE j.kind = "literal" -> 4
       [] j.kind = "num" -> LenOf(j.text)
       [] j.kind = "str" -> LenOf(j.text) + 2
       [] j.kind = "seq" -> inside
       [] j.kind = "map" -> FoldLeft(LAMBDA n, k : n + LenOf(k) + 3, inside, j.keys)
Lengths(j) == {JSONLength(j), RawLimit + 1}

ReadJSON(j, length, p) ==
  /\ length <= RawLimit
  /\ ActualView(j, 0, Zero) # Refused /\ NoDuplicates(j)
  /\ p = "rich" => ValidTarget(j, p)
Encode(j, p) == ValidTarget(j, p) /\ BytesOf(Wire(j, p)) <= OutputLimit

JSONInit ==
  \/ Init /\ source = Literal /\ profile = "none" /\ stage = "sent"
  \/ /\ \/ source \in OrdinaryTrees /\ profile = "ordinary"
        \/ source \in RichTrees /\ profile = "rich"
     /\ stage = "text" \/ (stage = "read" /\ NoDuplicates(source))
     /\ body = <<>> /\ pos = 1 /\ stack = <<>>
     /\ decoded = Zero /\ view = Zero /\ allocated = 0
     /\ cancelled = FALSE /\ outcome = "none"

ReadStep ==
  /\ stage = "text"
  /\ \E length \in Lengths(source) :
       stage' = IF ReadJSON(source, length, profile) THEN "read" ELSE "unread"
  /\ UNCHANGED <<vars, source, profile>>
EncodeStep ==
  /\ stage = "read"
  /\ IF Encode(source, profile) THEN stage' = "sent" /\ body' = Wire(source, profile)
                                ELSE stage' = "refused" /\ UNCHANGED body
  /\ UNCHANGED <<pos, stack, decoded, view, allocated, cancelled, outcome, source, profile>>
DecodeStep == stage = "sent" /\ Next /\ UNCHANGED jsonVars

JSONNext == ReadStep \/ EncodeStep \/ DecodeStep
JSONSpec == JSONInit /\ [][JSONNext]_<<vars, jsonVars>>

-----------------------------------------------------------------------------
(* What a tree is, said without a budget. *)
RECURSIVE Nodes(_), TextOf(_), Depth(_)
Nodes(j)  == FoldLeft(LAMBDA n, c : n + Nodes(c), 1, j.items)
TextOf(j) == FoldLeft(LAMBDA n, c : n + TextOf(c), IF j.kind = "str" THEN LenOf(j.text) ELSE 0, j.items)
             + FoldLeft(LAMBDA n, k : n + LenOf(k), 0, j.keys)
Depth(j)  == FoldLeft(LAMBDA n, c : IF Depth(c) + 1 > n THEN Depth(c) + 1 ELSE n, 0, j.items)
Within(j) == Nodes(j) <= NodeLimit /\ TextOf(j) <= TextLimit /\ Depth(j) <= DepthLimit

(* The view of an ordinary value, and the view that rich JSON comes back   *)
(* as: only floats change their spelling.                                  *)
RECURSIVE Expand(_), Respell(_)
Expand(j) ==
  CASE j.kind = "num" -> NumberTag(j.text.of)
    [] j.kind = "seq" -> SeqValue([i \in DOMAIN j.items |-> Expand(j.items[i])])
    [] j.kind = "map" -> Tag("$map", SeqValue([i \in DOMAIN j.items |->
                              SeqValue(<<StrValue(j.keys[i]), Expand(j.items[i])>>)]))
    [] OTHER -> j
Respell(j) ==
  IF j.kind = "map" /\ j.keys[1].of = "$float"
  THEN Tag("$float", StrValue(Plain(Number[j.items[1].text.of].float)))
  ELSE [j EXCEPT !.items = [i \in DOMAIN j.items |-> Respell(j.items[i])]]

(* The view budget is spent on the tree that is handed out, node by node   *)
(* and byte by byte, and on nothing else (walker).                         *)
ChargesAreExact ==
  outcome = "value" =>
    view.nodes = Nodes(Result) /\ view.text = TextOf(Result) /\ Depth(Result) <= DepthLimit

(* The body with every number and time in its shortest form. *)
Canonical(items) ==
  [k \in DOMAIN items |->
     LET i == items[k]
     IN CASE i.code \in {"uint", "int"} -> IntItem(i.of)
          [] i.code = "f32" -> [i EXCEPT !.code = "f64"]
          [] i.code = "time" -> [i EXCEPT !.n = Moment[i.of].least]
          [] OTHER -> i]

(* What decode gives is valid rich JSON, within the same limits, and       *)
(* encodes to the body it came from, up to the widths of numbers and times *)
(* (encode); written as a line, it is read again if, and only if, the line *)
(* is no longer than a body may be: "only when both representations fit    *)
(* their limits" (docs/modes/msgpack.md:116).                              *)
ViewsEncode ==
  outcome = "value" =>
    /\ ValidTarget(Result, "rich") /\ Wire(Result, "rich") = Canonical(body)
    /\ LET line == JSONLength(Result) + 1
       IN ReadJSON(Result, line, "rich") <=> line <= RawLimit

(* What encode accepts decode accepts and gives back, up to the size of a  *)
(* body; and ordinary JSON is refused only if its view would not be within *)
(* the limits: "Count the hypothetical rich expansion, but never build a   *)
(* second tree" (target.go:24).                                            *)
RECURSIVE HasNoBadNumber(_)
HasNoBadNumber(j) == /\ j.kind = "num" => NumberTag(j.text.of) # Literal
                     /\ \A i \in DOMAIN j.items : HasNoBadNumber(j.items[i])
EncodersAgree ==
  /\ profile # "none" /\ outcome \notin {"none", "cancelled"} =>
       IF BytesOf(body) > RawLimit THEN outcome = "raw"
       ELSE outcome = "value" /\ Result = (IF profile = "rich" THEN Respell(source) ELSE Expand(source))
  /\ stage = "refused" /\ profile = "ordinary" /\ HasNoBadNumber(source) =>
       ~Within(Expand(source)) \/ BytesOf(Wire(source, profile)) > OutputLimit

RoundTrips == ViewsEncode /\ EncodersAgree
=============================================================================
