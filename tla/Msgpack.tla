------------------------------- MODULE Msgpack -------------------------------
(***************************************************************************)
(* internal/msgpackview/decode.go: one MessagePack value, read from a body *)
(* whose lengths nobody vouches for and given as a tree of ordinary JSON,  *)
(* in which what JSON cannot say is an object with one "$" key.  Every     *)
(* value of the body is charged to one budget and every node of the tree   *)
(* to another before anything is allocated for it.                         *)
(*                                                                         *)
(* A body is a sequence of items, each the header of a value with its      *)
(* payload; the last may be cut.  The recursion of the walker is a stack   *)
(* of the containers that are open.                                        *)
(***************************************************************************)
EXTENDS Integers, Sequences, SequencesExt

CONSTANTS Bodies,                        \* what may be given to decode
          Strings, Raw, Size,            \* texts in UTF-8, other payloads, and their lengths
          Moments, Moment,               \* points in time
          ExtId,                         \* the id of an extension, other than -1
          DepthLimit, NodeLimit, TextLimit, RawLimit

Keys == {"$int", "$float", "$bin", "$str64", "$ext", "$time", "$map"}

ASSUME LimitAssumption == {DepthLimit, NodeLimit, TextLimit, RawLimit} \subseteq Nat \ {0}
ASSUME LengthAssumption == Size \in [Strings \cup Raw -> Nat] /\ Keys \subseteq Strings
ASSUME MomentAssumption == \A m \in Moments : Moment[m].sec \in Strings

(* What the headers of a body may be, and what their payloads are. *)
Codes == {"nil", "uint", "int", "f32", "f64", "str", "bin", "ext", "time", "array", "map", "reserved"}
Items == [code : Codes, n : Nat, of : Strings \cup Raw \cup Moments, cut : BOOLEAN]
PayloadOK(i) == /\ i.code \in {"uint", "int", "f32", "f64"} => i.of \in Strings
                /\ i.code \in {"str", "bin", "ext"} => i.of \in Strings \cup Raw
                /\ i.code = "time" => i.of \in Moments
ASSUME BodiesAssumption ==
  \A b \in Bodies : b \in Seq(Items) /\ \A k \in DOMAIN b : PayloadOK(b[k])

(* What is read, and what is given: a string is a text, or one in base64.  *)
Item(code, n, of) == [code |-> code, n |-> n, of |-> of, cut |-> FALSE]
Bytes(i) == CASE i.code \in {"str", "bin", "ext"} -> 1 + Size[i.of]
              [] i.code = "time" -> 1 + i.n
              [] OTHER -> 1
BytesOf(items) == FoldLeft(LAMBDA n, i : n + Bytes(i), 0, items)

Plain(s)     == [form |-> "plain", of |-> s]
Base64(d)    == [form |-> "base64", of |-> d]
LenOf(t)     == IF t.form = "plain" THEN Size[t.of] ELSE 4 * ((Size[t.of] + 2) \div 3)
Tree(kind, text, keys, items) == [kind |-> kind, text |-> text, keys |-> keys, items |-> items]
Literal      == Tree("literal", Plain("$int"), <<>>, <<>>)        \* null, true, false
StrValue(t)  == Tree("str", t, <<>>, <<>>)
NumValue(x)  == Tree("num", Plain(x), <<>>, <<>>)
SeqValue(s)  == Tree("seq", Plain("$int"), <<>>, s)
MapValue(keys, s) == Tree("map", Plain("$int"), keys, s)
Tag(key, v)  == MapValue(<<Plain(key)>>, <<v>>)

(* budget.fits and budget.add *)
Zero == [nodes |-> 0, text |-> 0]
Fits(b, depth, nodes, text) ==
  depth <= DepthLimit /\ nodes <= NodeLimit - b.nodes /\ text <= TextLimit - b.text
Add(b, nodes, text) == [nodes |-> b.nodes + nodes, text |-> b.text + text]

VARIABLES body, pos,            \* the body, and the next item
          stack,                \* the containers that are open, the outermost first
          decoded, view,        \* the two budgets
          allocated,            \* elements of the slices made
          cancelled, outcome
vars == <<body, pos, stack, decoded, view, allocated, cancelled, outcome>>

Outcomes == {"none", "value", "raw", "wire", "semantic", "view", "trailing", "timestamp", "cancelled"}

(* The values of a container are left to be read, each at these depths.    *)
Frame(kind, left, depth, viewDepth) ==
  [kind |-> kind, left |-> left, depth |-> depth, viewDepth |-> viewDepth, items |-> <<>>]
Top    == stack[Len(stack)]
Result == Top.items[1]

Given(f, v) == [f EXCEPT !.left = @ - 1, !.items = Append(@, v)]
Left == BytesOf(SubSeq(body, pos + 1, Len(body)))          \* reader.Len() after the header

Fail(o) == outcome' = o /\ UNCHANGED <<body, pos, stack, decoded, view, allocated, cancelled>>

Init == /\ body \in Bodies /\ pos = 1 /\ stack = <<>>
        /\ decoded = Zero /\ view = Zero /\ allocated = 0
        /\ cancelled = FALSE /\ outcome = "none"

(* Decode, up to the walk. *)
Begin ==
  /\ outcome = "none" /\ stack = <<>>
  /\ CASE cancelled -> Fail("cancelled")
       [] ~cancelled /\ BytesOf(body) > RawLimit -> Fail("raw")
       [] OTHER -> /\ stack' = <<Frame("root", 1, 0, 0)>>
                   /\ decoded' = Add(Zero, 1, 0) /\ view' = Add(Zero, 1, 0)
                   /\ UNCHANGED <<body, pos, allocated, cancelled, outcome>>

(* reservedValue: the next value of the container on top, by its code.     *)
BugReadsOn == outcome = "none" /\ stack # <<>>
Reading == outcome = "none" /\ stack # <<>> /\ Top.left > 0
Reads(codes) == /\ Reading /\ ~cancelled /\ pos <= Len(body) /\ ~body[pos].cut
                /\ body[pos].code \in codes

NoItem(i)  == i.cut \/ i.code = "reserved"
Unreadable == /\ Reading
              /\ \/ cancelled /\ Fail("cancelled")
                 \/ ~cancelled /\ (pos <= Len(body) => NoItem(body[pos])) /\ Fail("wire")

(* A value without values of its own: its payload, and what its view costs *)
(* beyond the node that is reserved for it.                                *)
Give(v, payload, depth, nodes, text) ==
  CASE ~Fits(decoded, 0, 0, payload) -> Fail("semantic")
    [] Fits(decoded, 0, 0, payload) /\ ~Fits(view, depth, nodes, text) -> Fail("view")
    [] OTHER -> /\ stack' = [stack EXCEPT ![Len(stack)] = Given(@, v)]
                /\ decoded' = Add(decoded, 0, payload) /\ view' = Add(view, nodes, text)
                /\ pos' = pos + 1
                /\ UNCHANGED <<body, allocated, cancelled, outcome>>

BugKeyIsFree(key, text, payload) ==
  Give(Tag(key, StrValue(text)), payload, Top.viewDepth + 1, 1, LenOf(text))
StringTag(key, text, payload) ==
  Give(Tag(key, StrValue(text)), payload, Top.viewDepth + 1, 1, Size[key] + LenOf(text))

Simple  == Reads({"nil"}) /\ Give(Literal, 0, 0, 0, 0)
Integer == Reads({"uint", "int"}) /\ StringTag("$int", Plain(body[pos].of), 0)
Float   == Reads({"f32", "f64"}) /\ StringTag("$float", Plain(body[pos].of), 0)

BytesValue ==
  LET d == body[pos].of
  IN /\ Reads({"str", "bin"})
     /\ IF body[pos].code = "str" /\ d \in Strings
        THEN Give(StrValue(Plain(d)), Size[d], Top.viewDepth, 0, Size[d])
        ELSE StringTag(IF body[pos].code = "bin" THEN "$bin" ELSE "$str64", Base64(d), Size[d])

Extension ==
  LET d == body[pos].of
  IN /\ Reads({"ext"})
     /\ Give(Tag("$ext", SeqValue(<<NumValue(ExtId), StrValue(Base64(d))>>)), Size[d],
             Top.viewDepth + 2, 3, Size["$ext"] + LenOf(Base64(d)))

Timestamp ==
  LET m == Moment[body[pos].of]
  IN /\ Reads({"time"})
     /\ IF Fits(decoded, 0, 0, body[pos].n) /\ (body[pos].n \notin {4, 8, 12} \/ ~m.valid)
        THEN Fail("timestamp")
        ELSE Give(Tag("$time", SeqValue(<<StrValue(Plain(m.sec)), NumValue(m.nanos)>>)),
                  body[pos].n, Top.viewDepth + 2, 3, Size["$time"] + Size[m.sec])

(* A container reserves its values, in both budgets, before it makes the   *)
(* slice for them.                                                         *)
BugPairsAreOne(kind, count, viewDepth, v) ==
  /\ stack' = Append(stack, Frame(kind, count, Top.depth + 1, viewDepth))
  /\ decoded' = Add(decoded, IF kind = "map" THEN count \div 2 ELSE count, 0) /\ view' = v
  /\ pos' = pos + 1
  /\ UNCHANGED <<body, cancelled, outcome>>
Enter(kind, count, viewDepth, v) ==
  /\ stack' = Append(stack, Frame(kind, count, Top.depth + 1, viewDepth))
  /\ decoded' = Add(decoded, count, 0) /\ view' = v
  /\ pos' = pos + 1
  /\ UNCHANGED <<body, cancelled, outcome>>

Array ==
  LET n == body[pos].n
      short == n > Left
      fits == n > 0 => Fits(decoded, Top.depth + 1, n, 0)
  IN /\ Reads({"array"})
     /\ CASE short -> Fail("wire")
          [] ~short /\ ~fits -> Fail("semantic")
          [] ~short /\ fits /\ n > 0 /\ ~Fits(view, Top.viewDepth + 1, n, 0) -> Fail("view")
          [] OTHER -> /\ Enter("array", n, Top.viewDepth + 1, Add(view, n, 0))
                      /\ allocated' = allocated + n

(* {"$map": [[key, value], ...]} *)
Mapping ==
  LET n == body[pos].n
      short == n > Left \div 2
      fits == n > 0 => Fits(decoded, Top.depth + 1, 2 * n, 0)
      wrapped == Add(view, 1, Size["$map"])
  IN /\ Reads({"map"})
     /\ CASE short -> Fail("wire")
          [] ~short /\ ~fits -> Fail("semantic")
          [] /\ ~short /\ fits
             /\ \/ ~Fits(view, Top.viewDepth + 1, 1, Size["$map"])
                \/ n > 0 /\ ~Fits(wrapped, Top.viewDepth + 3, 3 * n, 0) -> Fail("view")
          [] OTHER -> /\ Enter("map", 2 * n, Top.viewDepth + 3, Add(wrapped, 3 * n, 0))
                      /\ allocated' = allocated + n

(* array and mapping return. *)
BugPairsAsMap(s) ==
  LET pairs == [i \in 1..(Len(s) \div 2) |-> SeqValue(<<s[2 * i - 1], s[2 * i]>>)]
      last(i) == \A k \in DOMAIN pairs : k > i => pairs[k].items[1] # pairs[i].items[1]
      kept == SelectSeq([i \in DOMAIN pairs |-> i], last)
  IN [k \in DOMAIN kept |-> pairs[kept[k]]]
Pairs(s) == [i \in 1..(Len(s) \div 2) |-> SeqValue(<<s[2 * i - 1], s[2 * i]>>)]
Whole(f) == IF f.kind = "map" THEN Tag("$map", SeqValue(Pairs(f.items))) ELSE SeqValue(f.items)

Close ==
  /\ outcome = "none" /\ Len(stack) > 1 /\ Top.left = 0
  /\ stack' = [SubSeq(stack, 1, Len(stack) - 1) EXCEPT ![Len(stack) - 1] = Given(@, Whole(Top))]
  /\ UNCHANGED <<body, pos, decoded, view, allocated, cancelled, outcome>>

(* Decode, after the walk. *)
End == /\ outcome = "none" /\ Len(stack) = 1 /\ Top.left = 0
       /\ Fail(IF pos <= Len(body) THEN "trailing" ELSE IF cancelled THEN "cancelled" ELSE "value")

(* The context is cancelled by whoever called. *)
Cancel == /\ outcome = "none" /\ ~cancelled /\ cancelled' = TRUE
          /\ UNCHANGED <<body, pos, stack, decoded, view, allocated, outcome>>

Walk == \/ Begin \/ Unreadable \/ Simple \/ Integer \/ Float \/ BytesValue \/ Extension
        \/ Timestamp \/ Array \/ Mapping \/ Close \/ End
Next == Walk \/ Cancel
Spec == Init /\ [][Next]_vars

-----------------------------------------------------------------------------
(* Types; no container waits for fewer values than none, so the walk never *)
(* takes a value that was not declared.                                    *)
MsgpackTypeOK ==
  /\ pos \in 1..Len(body) + 1
  /\ decoded \in [nodes : Nat, text : Nat] /\ view \in [nodes : Nat, text : Nat]
  /\ allocated \in Nat /\ cancelled \in BOOLEAN /\ outcome \in Outcomes
  /\ \A i \in DOMAIN stack : stack[i].left \in Nat

(* Whatever lengths the body declares, no budget is overdrawn, the slices  *)
(* made have no more elements in all than there are values to charge, and  *)
(* the goroutine's stack is no deeper than the depth allowed (array,       *)
(* mapping: a container that is empty is not checked for its depth).       *)
BudgetsHold ==
  /\ decoded.nodes <= NodeLimit /\ view.nodes <= NodeLimit
  /\ decoded.text <= TextLimit /\ view.text <= TextLimit
  /\ allocated <= decoded.nodes
  /\ Len(stack) <= DepthLimit + 2

(* "Container reservations include all outstanding siblings" (decode.go:   *)
(* 96): the values that were charged are those that were read and those    *)
(* that the open containers still wait for, none of them twice.  What an   *)
(* open container is was read, and its place is not given to it yet.       *)
Owed(s) == UNION {{i} \X (1..s[i].left) : i \in DOMAIN s}
EachIsChargedOnce ==
  stack # <<>> => decoded.nodes + Len(stack) = pos + Cardinality(Owed(stack))

(* Every value is charged, once, and before anything is made for it        *)
(* (budget.add).                                                           *)
ChargesHold == BudgetsHold /\ EachIsChargedOnce
=============================================================================
