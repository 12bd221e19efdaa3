-------------------------------- MODULE Edit --------------------------------
(***************************************************************************)
(* What lies between two documents (diff/diff.go), the query that --edit   *)
(* suggests for it, and what that query does; EditSession is the program   *)
(* that suggests it.                                                       *)
(***************************************************************************)
EXTENDS Value, EditSession

(* What else a path has and a change may be, see Field and Change.         *)
Index(i)    == [key |-> "", at |-> i]
Deletion(p) == [path |-> p, new |-> Null, deleted |-> TRUE]

(* encodeValue: the literal keeps the order of the keys, but no tags. *)
RECURSIVE EncodeValue(_)
EncodeValue(v) == [v EXCEPT !.tag = "", !.items = [i \in DOMAIN v.items |-> EncodeValue(v.items[i])]]

(* walkDiff, walkMaps and walkSeqs *)
BugNoDeletions(p, b, a) == <<>>
Deletions(p, b, a) ==
  LET gone == SelectSeq(b.keys, LAMBDA k : ~Has(a, k))
  IN [i \in DOMAIN gone |-> Deletion(Append(p, Field(gone[i])))]

Alike(b, a) == IsSeq(b) /\ IsSeq(a) /\ Len(b.items) = Len(a.items)

Differ(b, a) == EncodeValue(b) # EncodeValue(a)

RECURSIVE WalkDiff(_, _, _)
WalkDiff(p, b, a) ==
  CASE IsMap(b) /\ IsMap(a) ->
         FlattenSeq([i \in DOMAIN a.keys |->
           LET q == Append(p, Field(a.keys[i]))
           IN IF Has(b, a.keys[i]) THEN WalkDiff(q, Get(b, a.keys[i]), a.items[i])
                                   ELSE <<Change(q, a.items[i])>>])
         \o Deletions(p, b, a)
    [] Alike(b, a) ->
         FlattenSeq([i \in DOMAIN b.items |-> WalkDiff(Append(p, Index(i)), b.items[i], a.items[i])])
    [] OTHER ->
         IF Differ(b, a) THEN <<Change(p, a)>> ELSE <<>>

WalkRoot(b, a) == WalkDiff(<<>>, b, a)   \* Walk

-----------------------------------------------------------------------------
(* What gojq makes of the suggested query: assignments and deletions, one  *)
(* after the other.  A change of the root is written " = v", which is no   *)
(* query; a path that starts with an index is an array and not a path.     *)
Error == Scalar("error", "")
IsPath(p) == p # <<>> /\ p[1].key # ""

Child(x, s) == IF s.key # "" THEN Get(x, s.key) ELSE x.items[s.at]
Reaches(x, s) == IF s.key # "" THEN IsMap(x) /\ Has(x, s.key)
                               ELSE IsSeq(x) /\ s.at \in DOMAIN x.items

RECURSIVE SetPath(_, _, _)
SetPath(x, p, y) ==
  IF p = <<>> THEN y
  ELSE IF Len(p) = 1 /\ Head(p).key # "" /\ IsMap(x) THEN ToAny(Set(x, Head(p).key, y))
  ELSE IF ~Reaches(x, Head(p)) THEN Error
  ELSE LET c == SetPath(Child(x, Head(p)), Tail(p), y)
       IN IF c = Error THEN Error
          ELSE IF Head(p).key # "" THEN Set(x, Head(p).key, c)
          ELSE [x EXCEPT !.items[Head(p).at] = c]

RECURSIVE DelPath(_, _)
DelPath(x, p) ==
  IF Len(p) = 1 THEN Delete(x, p[1].key)
  ELSE IF ~Reaches(x, Head(p)) THEN Error
  ELSE SetPath(x, <<Head(p)>>, DelPath(Child(x, Head(p)), Tail(p)))

Apply(x, c) ==
  CASE x = Error       -> Error
    [] c.path = Dot    -> ToAny(EncodeValue(c.new))
    [] ~IsPath(c.path) -> Error
    [] OTHER -> IF c.deleted THEN DelPath(x, c.path) ELSE SetPath(x, c.path, ToAny(c.new))

RunQuery(cs, v) == FoldLeft(Apply, ToAny(v), cs)

(* The suggested command on a file that holds v (runOnce). *)
Suggested(cs, v, create) ==
  LET x == RunQuery(cs, v)
  IN IF x = Error THEN Error
     ELSE IF create \/ NoMissingPaths(v, FromAny(x, v)) THEN FromAny(x, v) ELSE Error

(* SuggestArgs: a change that can be made with a variable, and the value   *)
(* that the shell and --arg or --argjson give it.  The quotes of a string  *)
(* of digits, which is taken for a number, are gone by then.               *)
NameLike == {"name"}
Digits(s) == CASE s = "12" -> TRUE [] OTHER -> FALSE
LastOf(p) == p[Len(p)].key
Variable(c) ==
  CASE c.new.kind = "str" /\ c.new.leaf \in NameLike -> Scalar("str", c.new.leaf)
    [] c.new.kind = "str" /\ Digits(c.new.leaf) -> Scalar("num", c.new.leaf)
    [] OTHER -> c.new
Variants(cs) ==
  {c \in ToSet(cs) : /\ ~c.deleted /\ c.path \notin {Dot, <<>>} /\ LastOf(c.path) # ""
                     /\ \/ c.new.kind = "str" /\ (c.new.leaf \in NameLike \/ Digits(c.new.leaf))
                        \/ c.new.kind \in {"num", "null"}}

-----------------------------------------------------------------------------
(* The suggested query, applied to the document that was edited, gives the *)
(* edited one: the assignments and deletions are complete, none undoes     *)
(* another, and no index is shifted by a change before it.  This is for    *)
(* documents that are maps and with leave to create paths; --pretty, tags  *)
(* and the spelling of numbers aside.  The variants with variables do what their change does,     *)
(* but for strings of digits.                                              *)
HasSuggestion == shown = "suggestion" /\ exited = "none"
Reproduces ==
  HasSuggestion /\ IsMap(origVal) /\ IsMap(editedVal) =>
    /\ Same(Suggested(changes, origVal, TRUE), editedVal)
    /\ (\A i \in DOMAIN changes : changes[i].path # Dot) /\ NoMissingPaths(origVal, editedVal) =>
         Same(Suggested(changes, origVal, FALSE), editedVal)
    /\ \A c \in Variants(changes) :
         c.new.kind # "str" \/ c.new.leaf \in NameLike => Same(Variable(c), c.new)

(* What was not edited is left as it is: the suggested query keeps the     *)
(* order of the keys and the tags of the scalars of the original; numbers  *)
(* keep their value and not their spelling (bridge.go:181).                *)
RECURSIVE Keeps(_, _)
Keeps(v, w) ==
  CASE IsMap(v) /\ IsMap(w) ->
         /\ SelectSeq(w.keys, LAMBDA k : Has(v, k)) = SelectSeq(v.keys, LAMBDA k : Has(w, k))
         /\ \A k \in ToSet(v.keys) : Has(w, k) => Keeps(Get(v, k), Get(w, k))
    [] IsSeq(v) /\ IsSeq(w) ->
         \A i \in DOMAIN v.items \cap DOMAIN w.items : Keeps(v.items[i], w.items[i])
    [] OTHER -> Same(v, w) => w = Respelled(v)

LeavesTheRest ==
  HasSuggestion =>
    LET w == Suggested(changes, origVal, TRUE) IN w # Error => Keeps(origVal, w)

(* No change names what is equal before and after, and no path is below    *)
(* another: the suggestion is as small as it says (diff.go:48).            *)
RECURSIVE Below(_, _)
Below(x, p) == IF p = <<>> THEN x
               ELSE IF Reaches(x, Head(p)) THEN Below(Child(x, Head(p)), Tail(p)) ELSE Error
IsMinimal ==
  HasSuggestion => \A i, j \in DOMAIN changes :
    LET c == changes[i] IN
    /\ i # j => ~IsPrefix(c.path, changes[j].path)
    /\ c.path # Dot => Below(origVal, c.path) # Below(editedVal, c.path)

(* "the nesdit command you can paste into a script" (docs/modes/edit.md:5). *)
SuggestionRuns ==
  HasSuggestion /\ IsMap(origVal) /\ IsMap(editedVal) =>
    Same(Suggested(changes, origVal, FALSE), editedVal)

(* The suggestion spares what was not edited, in short (Diff). *)
TouchesNoMore == LeavesTheRest /\ IsMinimal

=============================================================================
