------------------------------ MODULE MCMsgpack ------------------------------
(* Instance of MsgpackJSON for TLC. *)
EXTENDS MsgpackJSON, TLC, FiniteSetsExt
CONSTANTS MaxItems

MCRaw     == {"\\xff"}
MCStrings == Keys \cup {"a", "", "5", "-3", "1.5", "1.50", "-0", "1e999", "7000000000", "NaN",
                         "fourteen bytes", "fifteen bytes ."}
MCSize    == [s \in MCStrings \cup MCRaw |-> IF s \in MCRaw THEN 1 ELSE Len(s)]
Num(int, floating, float, negative, signed, nanos) ==
  [int |-> int, floating |-> floating, float |-> float, negative |-> negative,
   signed |-> signed, nanos |-> nanos]
MCNumber ==
  "5" :> Num(TRUE, FALSE, "5", FALSE, TRUE, TRUE) @@ "-3" :> Num(TRUE, FALSE, "-3", TRUE, TRUE, FALSE)
  @@ "1.5" :> Num(FALSE, TRUE, "1.5", FALSE, FALSE, FALSE) @@ "1.50" :> Num(FALSE, TRUE, "1.5", FALSE, FALSE, FALSE)
  @@ "-0" :> Num(FALSE, TRUE, "-0", TRUE, FALSE, FALSE) @@ "1e999" :> Num(FALSE, TRUE, "", FALSE, FALSE, FALSE)
  @@ "7000000000" :> Num(TRUE, FALSE, "7000000000", FALSE, TRUE, FALSE)
  @@ "NaN" :> Num(FALSE, TRUE, "NaN", FALSE, FALSE, FALSE)
Time(sec, nanos, least) == [sec |-> sec, nanos |-> nanos, least |-> least, valid |-> nanos = "5"]
MCMoment == "soon" :> Time("5", "5", 8) @@ "late" :> Time("-3", "5", 12) @@ "never" :> Time("5", "7000000000", 12)
MCMoments == DOMAIN MCMoment

Cut(i) == [i EXCEPT !.cut = TRUE]
Leaves == {Item("nil", 0, ""), Item("uint", 0, "5"), Item("int", 0, "5"), Item("int", 0, "-3"),
           Item("f32", 0, "1.5"), Item("str", 0, "a"), Item("str", 0, "\\xff"), Item("bin", 0, "a"),
           Item("ext", 0, "\\xff"), Item("time", 8, "soon"), Item("time", 12, "soon"),
           Item("time", 12, "late"), Item("time", 12, "never"), Item("time", 5, "soon"), Item("reserved", 0, "")}
Containers == {Item(c, n, "") : c \in {"array", "map"}, n \in 0..3}
Few == {Item("nil", 0, ""), Item("uint", 0, "5"), Item("str", 0, "a")} \cup {Item(c, n, "") : c \in {"array", "map"}, n \in 0..2}
Bodies_ ==
  LET whole == UNION {[1..n -> Leaves \cup Containers] : n \in 0..3}
  IN whole \cup UNION {[1..n -> Few] : n \in 4..MaxItems}
     \cup {[b EXCEPT ![Len(b)] = Cut(@)] : b \in UNION {[1..n -> Few] : n \in 1..3}}

Texts  == {StrValue(Plain(s)) : s \in {"a", "", "$map", "fourteen bytes", "fifteen bytes ."}}
Nums   == {NumValue(x) : x \in DOMAIN MCNumber \ {"NaN"}}
Lists(S, n)    == {SeqValue(s) : s \in UNION {[1..k -> S] : k \in 0..n}}
Maps(S, K, n)  == {MapValue(ks, s) : ks \in UNION {[1..k -> {Plain(x) : x \in K}] : k \in 0..n}, s \in UNION {[1..k -> S] : k \in 0..n}}
Even(S) == {j \in S : Len(j.keys) = Len(j.items)}
Flat   == Texts \cup Nums \cup {Literal}
Some   == {StrValue(Plain("a")), NumValue("5"), NumValue("1e999"), Literal}
Objects == Even(Maps(Flat, {"a", "$int"}, 1) \cup Maps(Some, {"a", "$int"}, 2))
MCOrdinary == Flat \cup Lists(Some, 3) \cup Objects
              \cup Lists(Lists(Some, 1) \cup Even(Maps(Some, {"a"}, 1)), 2)
              \cup Even(Maps(Lists(Some, 1) \cup Even(Maps(Some, {"a"}, 1)), {"a"}, 1))

Args  == Flat \cup {StrValue(Base64(d)) : d \in {"a", "\\xff"}} \cup {StrValue(Plain(x)) : x \in DOMAIN MCNumber}
Pairs_ == {SeqValue(<<x, y>>) : x, y \in {NumValue("5"), StrValue(Plain("5")), StrValue(Plain("-3")), StrValue(Base64("a"))}}
Scalars == {Tag(k, x) : k \in Keys \cup {"a"}, x \in Args \cup Pairs_ \cup {SeqValue(<<>>)}}
Good  == {Tag("$int", StrValue(Plain("5"))), Tag("$float", StrValue(Plain("1.50"))), Tag("$str64", StrValue(Base64("\\xff"))),
          StrValue(Plain("a")), Literal}
GoodMaps(S) == {Tag("$map", SeqValue(p)) : p \in UNION {[1..n -> {SeqValue(<<x, y>>) : x, y \in S}] : n \in 0..1}}
MCRich == Flat \cup Scalars \cup Lists(Good, 2) \cup GoodMaps(Good) \cup Lists(GoodMaps(Good), 1)
          \cup {Tag("$map", SeqValue(<<SeqValue(<<x>>)>>)) : x \in Good}
=============================================================================
