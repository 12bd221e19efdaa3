------------------------------- MODULE MCEdit -------------------------------
(* Instance of Edit for TLC: maps of up to two keys, in both orders, whose *)
(* values are scalars, lists and maps; lists and scalars as documents.     *)
(* The number 1.0 comes back from a query as 1.                            *)
EXTENDS Edit

One == Scalar("num", "1")
Point == Scalar("num", "1.0")
Stamp == Tagged("name", "timestamp")
Inner == {One, Point, Stamp, Scalar("str", "12"), Null, List(<<One>>), List(<<Point, Stamp>>),
          List(<<Null, One>>), List(<<>>), Doc(<<"a">>, <<One>>), Doc(<<"b">>, <<One>>),
          Doc(<<"b", "a">>, <<Stamp, One>>), Doc(<<"a", "b">>, <<Point, Scalar("str", "name")>>)}
Maps(S) == {Doc(<<>>, <<>>)} \cup {Doc(<<k>>, <<v>>) : k \in {"a", "b"}, v \in S}
           \cup {Doc(<<"a", "b">>, <<v, w>>) : v, w \in S}
Roots == {One, Stamp, List(<<One>>), List(<<Stamp>>), List(<<Doc(<<"a">>, <<One>>)>>)}
MCSpelling == "1.0" :> "1"
MCKeyOrder == <<"a", "b">>
MCOriginals == {d \in Maps(Inner \ {Scalar("str", "12")}) : d.keys = <<"a", "b">>} \cup Roots
               \cup {Doc(<<"b", "a">>, <<v, w>>) : v \in {Point, Stamp}, w \in Inner}
MCEdits == Maps(Inner) \cup Roots
=============================================================================
