------------------------------- MODULE Value -------------------------------
(***************************************************************************)
(* Documents as trees (omap), their way through gojq and back (bridge.go), *)
(* and the check for paths that a query has created (missing_path.go).     *)
(* A scalar is its kind and its literal; a map keeps the order of its      *)
(* keys.  gojq sees no order, no tags and no spelling of a number: for it  *)
(* keys are sorted, and a number is the spelling it comes back with.       *)
(***************************************************************************)
EXTENDS Naturals, SequencesExt

CONSTANTS KeyOrder,   \* the keys, in lexicographic order
          Spelling    \* the numbers that come back spelled differently, and how

ASSUME KeyAssumption == \A i, j \in DOMAIN KeyOrder : KeyOrder[i] = KeyOrder[j] => i = j
ASSUME SpellingAssumption == \A n \in DOMAIN Spelling : Spelling[n] \notin DOMAIN Spelling

Node(kind, leaf, tag, keys, items) ==
  [kind |-> kind, leaf |-> leaf, tag |-> tag, keys |-> keys, items |-> items]
Scalar(kind, leaf) == Node(kind, leaf, "", <<>>, <<>>)
Null         == Scalar("null", "null")
Tagged(s, t) == Node("str", s, t, <<>>, <<>>)
List(items)  == Node("seq", "", "", <<>>, items)
Doc(keys, items) == Node("map", "", "", keys, items)

IsMap(v) == v.kind = "map"
IsSeq(v) == v.kind = "seq"
Has(v, k)  == \E i \in DOMAIN v.keys : v.keys[i] = k
At(v, k)   == CHOOSE i \in DOMAIN v.keys : v.keys[i] = k
Get(v, k)  == v.items[At(v, k)]

(* Doc.Set and Doc.Delete *)
Set(v, k, w) == IF Has(v, k) THEN [v EXCEPT !.items[At(v, k)] = w]
                ELSE Doc(Append(v.keys, k), Append(v.items, w))
Delete(v, k) == IF Has(v, k) THEN Doc(RemoveAt(v.keys, At(v, k)), RemoveAt(v.items, At(v, k)))
                ELSE v

-----------------------------------------------------------------------------
(* A number is an int, a big.Int or a float64 for gojq, which anyToValue   *)
(* spells in one way each: 1.0 comes back as 1, whoever wrote it.          *)
Respelled(v) == IF v.kind = "num" /\ v.leaf \in DOMAIN Spelling
                THEN [v EXCEPT !.leaf = Spelling[v.leaf]] ELSE v

(* ToAny *)
SortedKeys(v) == SelectSeq(KeyOrder, LAMBDA k : Has(v, k))

RECURSIVE ToAny(_)
ToAny(v) ==
  CASE IsMap(v) -> LET ks == SortedKeys(v)
                   IN Doc(ks, [i \in DOMAIN ks |-> ToAny(Get(v, ks[i]))])
    [] IsSeq(v) -> List([i \in DOMAIN v.items |-> ToAny(v.items[i])])
    [] OTHER    -> [Respelled(v) EXCEPT !.tag = ""]

Same(v, w) == ToAny(v) = ToAny(w)

(* ValueFromAny: x, with order and tags from what was there before the     *)
(* query; Null where nothing was.                                          *)
BugSortsAll(x, prev) == x.keys
Ordered(x, prev) ==
  LET old == IF IsMap(prev) THEN prev.keys ELSE <<>>
  IN SelectSeq(old, LAMBDA k : Has(x, k)) \o SelectSeq(x.keys, LAMBDA k : ~Contains(old, k))

RECURSIVE FromAny(_, _)
FromAny(x, prev) ==
  CASE IsMap(x) -> LET ks == Ordered(x, prev)
                   IN Doc(ks, [i \in DOMAIN ks |->
                        FromAny(Get(x, ks[i]), IF IsMap(prev) /\ Has(prev, ks[i])
                                               THEN Get(prev, ks[i]) ELSE Null)])
    [] IsSeq(x) -> List([i \in DOMAIN x.items |->
                        FromAny(x.items[i], IF IsSeq(prev) /\ i <= Len(prev.items)
                                            THEN prev.items[i] ELSE Null)])
    [] x.kind = "str" /\ prev.kind = "str" /\ prev.leaf = x.leaf -> [x EXCEPT !.tag = prev.tag]
    [] OTHER    -> x

-----------------------------------------------------------------------------
(* CheckNoMissingPaths: orig, then out. *)
RECURSIVE NoMissingPaths(_, _)
NoMissingPaths(v, w) ==
  CASE IsMap(v) /\ IsMap(w) ->
         \A i \in DOMAIN w.keys : /\ Has(v, w.keys[i])
                                  /\ NoMissingPaths(Get(v, w.keys[i]), w.items[i])
    [] IsSeq(v) /\ IsSeq(w) ->
         \A i \in DOMAIN w.items : /\ i <= Len(v.items)
                                   /\ NoMissingPaths(v.items[i], w.items[i])
    [] OTHER -> TRUE
=============================================================================
