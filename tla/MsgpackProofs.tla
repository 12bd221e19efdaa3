--------------------------- MODULE MsgpackProofs ---------------------------
(***************************************************************************)
(* Proofs about the MessagePack walker (Msgpack), for all bodies and all   *)
(* limits: its types, and that whatever lengths a body declares neither    *)
(* budget is overdrawn, no more slots are allocated than were charged, the *)
(* recursion is no deeper than the limit allows, and every value is        *)
(* charged once.                                                           *)
(***************************************************************************)
EXTENDS Msgpack, FiniteSetTheorems, SequenceTheorems, TLAPS

(* A frame of the stack, at position i; one that waits for a value passed  *)
(* the check of its depth, and only the one on top may wait for nothing.   *)
IsFrame(f) == {"left", "depth"} \subseteq DOMAIN f
FrameOK(f, i) == /\ IsFrame(f) /\ f.left \in Nat /\ f.depth = i - 1
                 /\ f.left > 0 => i - 1 <= DepthLimit

IsStack(s) == \E S : s \in Seq(S)
StackOK(s) == /\ IsStack(s)
              /\ \A i \in 1..Len(s) : FrameOK(s[i], i)
              /\ \A i \in 1..Len(s) : i < Len(s) => s[i].left > 0

Budgets == [nodes : Nat, text : Nat]
BudgetOK(b) == b \in Budgets /\ b.nodes <= NodeLimit /\ b.text <= TextLimit

MsgpackIInv ==
  /\ body \in Bodies /\ pos \in 1..Len(body) + 1
  /\ StackOK(stack)
  /\ BudgetOK(decoded) /\ BudgetOK(view)
  /\ allocated \in Nat /\ allocated <= decoded.nodes
  /\ stack = <<>> => allocated = 0
  /\ cancelled \in BOOLEAN /\ outcome \in Outcomes

-----------------------------------------------------------------------------
(* What the assumptions say of the item that is read. *)
LEMMA BodyItems ==
  ASSUME MsgpackIInv, pos <= Len(body)
  PROVE  /\ pos \in 1..Len(body) /\ pos + 1 \in 1..Len(body) + 1
         /\ body[pos] \in Items /\ PayloadOK(body[pos]) /\ body[pos].n \in Nat
<1>1. body \in Seq(Items) /\ \A k \in DOMAIN body : PayloadOK(body[k])
  BY BodiesAssumption DEF MsgpackIInv
<1>2. Len(body) \in Nat /\ DOMAIN body = 1..Len(body)
  BY <1>1
<1>3. pos \in 1..Len(body) /\ pos + 1 \in 1..Len(body) + 1
  BY <1>2 DEF MsgpackIInv
<1>4. body[pos] \in Items /\ PayloadOK(body[pos])
  BY <1>1, <1>2, <1>3
<1> QED BY <1>3, <1>4 DEF Items

LEMMA Lengths ==
  /\ \A s \in Strings \cup Raw : /\ Size[s] \in Nat
                                 /\ LenOf(Plain(s)) \in Nat /\ LenOf(Base64(s)) \in Nat
  /\ \A k \in Keys : Size[k] \in Nat
<1>1. \A s \in Strings \cup Raw : Size[s] \in Nat
  BY LengthAssumption
<1>2. \A n \in Nat : 4 * ((n + 2) \div 3) \in Nat
  OBVIOUS
<1>3. \A s : LenOf(Plain(s)) = Size[s] /\ LenOf(Base64(s)) = 4 * ((Size[s] + 2) \div 3)
  BY DEF LenOf, Plain, Base64
<1>4. ASSUME NEW s \in Strings \cup Raw
      PROVE  Size[s] \in Nat /\ LenOf(Plain(s)) \in Nat /\ LenOf(Base64(s)) \in Nat
  BY <1>1, <1>2, <1>3
<1>5. \A k \in Keys : Size[k] \in Nat
  BY <1>1, LengthAssumption
<1> QED BY <1>4, <1>5

(* A charge that fits leaves the budget within its limits. *)
LEMMA ChargesFit ==
  ASSUME NEW b, BudgetOK(b), NEW depth, NEW nodes \in Nat, NEW text \in Nat,
         Fits(b, depth, nodes, text)
  PROVE  BudgetOK(Add(b, nodes, text)) /\ Add(b, nodes, text).nodes = b.nodes + nodes
  BY LimitAssumption DEF BudgetOK, Budgets, Fits, Add

LEMMA NothingFits ==
  ASSUME NEW b, BudgetOK(b)
  PROVE  BudgetOK(Add(b, 0, 0)) /\ Add(b, 0, 0).nodes = b.nodes
  BY LimitAssumption DEF BudgetOK, Budgets, Add

-----------------------------------------------------------------------------
(* What the stack does: a value is given to the container on top, a        *)
(* container is opened, and one is closed.                                 *)
LEMMA GivenOK ==
  ASSUME NEW f, NEW i \in Nat \ {0}, FrameOK(f, i), f.left > 0, NEW v
  PROVE  FrameOK(Given(f, v), i)
<1>1. IsFrame(f)
  BY DEF FrameOK
<1>2. IsFrame(Given(f, v)) /\ Given(f, v).left = f.left - 1 /\ Given(f, v).depth = f.depth
  BY <1>1 DEF IsFrame, Given
<1> QED BY <1>2 DEF FrameOK

LEMMA StackGives ==
  ASSUME NEW s, StackOK(s), s # <<>>, s[Len(s)].left > 0, NEW v
  PROVE  LET t == [s EXCEPT ![Len(s)] = Given(@, v)]
         IN  StackOK(t) /\ t # <<>>
<1> PICK R : s \in Seq(R)
  BY DEF StackOK, IsStack
<1> DEFINE t == [s EXCEPT ![Len(s)] = Given(@, v)]
           S == R \cup {Given(s[Len(s)], v)}
<1>1. s \in Seq(S) /\ Len(s) \in 1..Len(s) /\ Len(s) \in Nat
  BY DEF StackOK, IsStack
<1>2. t = [s EXCEPT ![Len(s)] = Given(s[Len(s)], v)]
  OBVIOUS
<1>3. /\ t \in Seq(S) /\ Len(t) = Len(s)
      /\ \A j \in 1..Len(s) : t[j] = IF j = Len(s) THEN Given(s[Len(s)], v) ELSE s[j]
  BY <1>1, <1>2, ExceptSeq
<1>4. IsStack(t)
  BY <1>3 DEF IsStack
<1>5. \A i \in 1..Len(t) : FrameOK(t[i], i)
  BY <1>1, <1>3, GivenOK DEF StackOK
<1>6. \A i \in 1..Len(t) : i < Len(t) => t[i].left > 0
  BY <1>1, <1>3 DEF StackOK
<1>7. t # <<>>
  BY <1>1, <1>3
<1> QED BY <1>4, <1>5, <1>6, <1>7 DEF StackOK

LEMMA StackOpens ==
  ASSUME NEW s, StackOK(s), s # <<>>, s[Len(s)].left > 0,
         NEW f, FrameOK(f, Len(s) + 1)
  PROVE  StackOK(Append(s, f)) /\ Append(s, f) # <<>>
<1> PICK R : s \in Seq(R)
  BY DEF StackOK, IsStack
<1> DEFINE t == Append(s, f)
           S == R \cup {f}
<1>1. s \in Seq(S) /\ Len(s) \in 1..Len(s) /\ Len(s) \in Nat
  BY DEF StackOK, IsStack
<1>2. /\ t \in Seq(S) /\ t # <<>> /\ Len(t) = Len(s) + 1
      /\ \A i \in 1..Len(s) : t[i] = s[i]
      /\ t[Len(s) + 1] = f
  BY <1>1, AppendProperties
<1>3. IsStack(t)
  BY <1>2 DEF IsStack
<1>4. \A i \in 1..Len(t) : i \in 1..Len(s) \/ i = Len(s) + 1
  BY <1>1, <1>2
<1>5. \A i \in 1..Len(t) : FrameOK(t[i], i)
  BY <1>1, <1>2, <1>4 DEF StackOK
<1>6. \A i \in 1..Len(t) : i < Len(t) => t[i].left > 0
  BY <1>1, <1>2, <1>4 DEF StackOK
<1> QED BY <1>2, <1>3, <1>5, <1>6 DEF StackOK

LEMMA StackCloses ==
  ASSUME NEW s, StackOK(s), Len(s) > 1
  PROVE  LET t == SubSeq(s, 1, Len(s) - 1)
         IN  StackOK(t) /\ t # <<>> /\ t[Len(t)].left > 0 /\ Len(t) = Len(s) - 1
<1> PICK S : s \in Seq(S)
  BY DEF StackOK, IsStack
<1> DEFINE t == SubSeq(s, 1, Len(s) - 1)
<1>1. s \in Seq(S) /\ Len(s) \in Nat
  BY DEF StackOK, IsStack
<1>2. /\ t \in Seq(S) /\ Len(t) = Len(s) - 1
      /\ \A i \in 1..Len(s) - 1 : t[i] = s[i]
  BY <1>1, SubSeqProperties
<1> HIDE DEF t
<1>3. IsStack(t) /\ Len(t) # 0
  BY <1>1, <1>2 DEF IsStack
<1>4. \A i \in 1..Len(t) : FrameOK(t[i], i) /\ t[i].left > 0
  BY <1>1, <1>2 DEF StackOK
<1>5. t[Len(t)].left > 0
  BY <1>1, <1>2, <1>4
<1>6. t # <<>>
  BY <1>2, <1>3
<1> QED BY <1>2, <1>3, <1>4, <1>5, <1>6 DEF StackOK, t

-----------------------------------------------------------------------------
LEMMA InitIInv == Init => MsgpackIInv
<1> SUFFICES ASSUME Init PROVE MsgpackIInv
  OBVIOUS
<1>1. body \in Seq(Items)
  BY BodiesAssumption DEF Init
<1>2. pos \in 1..Len(body) + 1
  BY <1>1 DEF Init
<1>3. StackOK(stack)
  <2>1. stack = <<>> /\ <<>> \in Seq({}) /\ Len(<<>>) = 0
    BY DEF Init
  <2> QED BY <2>1 DEF StackOK, IsStack
<1>4. BudgetOK(decoded) /\ BudgetOK(view) /\ decoded.nodes = 0
  BY LimitAssumption DEF Init, BudgetOK, Budgets, Zero
<1>5. allocated \in Nat /\ allocated <= decoded.nodes /\ allocated = 0
  BY <1>4 DEF Init
<1> QED BY <1>2, <1>3, <1>4, <1>5 DEF Init, MsgpackIInv, Outcomes

(* The walk ends: only the outcome changes. *)
LEMMA FailKeepsIInv ==
  ASSUME MsgpackIInv, NEW o \in Outcomes, Fail(o)
  PROVE  MsgpackIInv'
  BY DEF MsgpackIInv, Fail

(* The container on top waits for the value that is read. *)
LEMMA ReadsTop ==
  ASSUME MsgpackIInv, NEW codes, Reads(codes)
  PROVE  /\ stack # <<>> /\ stack[Len(stack)].left > 0 /\ pos <= Len(body)
         /\ Top = stack[Len(stack)] /\ Len(stack) \in Nat \ {0}
         /\ Top.depth = Len(stack) - 1 /\ body[pos].code \in codes
<1>1. stack # <<>> /\ stack[Len(stack)].left > 0 /\ pos <= Len(body) /\ body[pos].code \in codes
  BY DEF Reads, Reading, Top
<1>2. PICK S : stack \in Seq(S)
  BY DEF MsgpackIInv, StackOK, IsStack
<1>3. Len(stack) \in Nat \ {0} /\ Len(stack) \in 1..Len(stack)
  BY <1>1, <1>2
<1>4. FrameOK(stack[Len(stack)], Len(stack))
  BY <1>3 DEF MsgpackIInv, StackOK
<1> QED BY <1>1, <1>3, <1>4 DEF Top, FrameOK

(* A value without values: an integer, a string, an extension. *)
LEMMA GiveKeepsIInv ==
  ASSUME MsgpackIInv, NEW codes, Reads(codes), NEW v, NEW payload \in Nat, NEW depth,
         NEW nodes \in Nat, NEW text \in Nat, Give(v, payload, depth, nodes, text)
  PROVE  MsgpackIInv'
<1>1. CASE ~Fits(decoded, 0, 0, payload)
  <2>1. Fail("semantic")
    BY <1>1 DEF Give
  <2> QED BY <2>1, FailKeepsIInv DEF Outcomes
<1>2. CASE Fits(decoded, 0, 0, payload) /\ ~Fits(view, depth, nodes, text)
  <2>1. Fail("view")
    BY <1>2 DEF Give
  <2> QED BY <2>1, FailKeepsIInv DEF Outcomes
<1>3. CASE Fits(decoded, 0, 0, payload) /\ Fits(view, depth, nodes, text)
  <2>1. /\ stack' = [stack EXCEPT ![Len(stack)] = Given(@, v)]
        /\ decoded' = Add(decoded, 0, payload) /\ view' = Add(view, nodes, text)
        /\ pos' = pos + 1
        /\ UNCHANGED <<body, allocated, cancelled, outcome>>
    BY <1>3 DEF Give
  <2>2. StackOK(stack) /\ BudgetOK(decoded) /\ BudgetOK(view)
    BY DEF MsgpackIInv
  <2>3. StackOK(stack') /\ stack' # <<>>
    BY <2>1, <2>2, StackGives, ReadsTop
  <2>4. BudgetOK(decoded') /\ decoded'.nodes = decoded.nodes
    BY <1>3, <2>1, <2>2, ChargesFit DEF BudgetOK, Budgets
  <2>5. BudgetOK(view')
    BY <1>3, <2>1, <2>2, ChargesFit
  <2>6. pos' \in 1..Len(body') + 1
    BY <2>1, ReadsTop, BodyItems
  <2> QED BY <2>1, <2>3, <2>4, <2>5, <2>6 DEF MsgpackIInv
<1> QED BY <1>1, <1>2, <1>3

LEMMA StringTagKeepsIInv ==
  ASSUME MsgpackIInv, NEW codes, Reads(codes), NEW key \in Keys, NEW text, LenOf(text) \in Nat,
         NEW payload \in Nat, StringTag(key, text, payload)
  PROVE  MsgpackIInv'
<1>1. Size[key] + LenOf(text) \in Nat
  BY Lengths
<1> QED BY <1>1, GiveKeepsIInv DEF StringTag

(* A container: its values are charged, and waited for. *)
LEMMA EnterKeepsIInv ==
  ASSUME MsgpackIInv, NEW codes, Reads(codes), NEW kind, NEW count \in Nat, NEW viewDepth,
         NEW v, BudgetOK(v), count > 0 => Fits(decoded, Top.depth + 1, count, 0),
         Enter(kind, count, viewDepth, v), NEW n \in 0..count, allocated' = allocated + n
  PROVE  MsgpackIInv'
<1> DEFINE f == Frame(kind, count, Top.depth + 1, viewDepth)
<1>1. /\ stack' = Append(stack, f)
      /\ decoded' = Add(decoded, count, 0) /\ view' = v /\ pos' = pos + 1
      /\ UNCHANGED <<body, cancelled, outcome>>
  BY DEF Enter
<1>2. f.left = count /\ f.depth = Top.depth + 1 /\ IsFrame(f)
  BY DEF Frame, IsFrame
<1> HIDE DEF f
<1>3. Top.depth + 1 = (Len(stack) + 1) - 1 /\ Len(stack) \in Nat
  BY ReadsTop
<1>4. count > 0 => Top.depth + 1 <= DepthLimit
  BY DEF Fits
<1>5. FrameOK(f, Len(stack) + 1)
  BY <1>2, <1>3, <1>4 DEF FrameOK
<1>6. StackOK(stack') /\ stack' # <<>>
  BY <1>1, <1>5, StackOpens, ReadsTop DEF MsgpackIInv
<1>7. BudgetOK(decoded') /\ decoded'.nodes = decoded.nodes + count
  <2>1. BudgetOK(decoded)
    BY DEF MsgpackIInv
  <2>2. CASE count > 0
    BY <1>1, <2>1, <2>2, ChargesFit
  <2>3. CASE count = 0
    BY <1>1, <2>1, <2>3, NothingFits DEF BudgetOK, Budgets
  <2> QED BY <2>2, <2>3
<1>8. pos' \in 1..Len(body') + 1
  BY <1>1, ReadsTop, BodyItems
<1>9. allocated' \in Nat /\ allocated' <= decoded'.nodes
  BY <1>7 DEF MsgpackIInv, BudgetOK, Budgets
<1> QED BY <1>1, <1>6, <1>7, <1>8, <1>9 DEF MsgpackIInv

-----------------------------------------------------------------------------
LEMMA BeginKeepsIInv == ASSUME MsgpackIInv, Begin PROVE MsgpackIInv'
<1>1. CASE cancelled
  BY <1>1, FailKeepsIInv DEF Begin, Outcomes
<1>2. CASE ~cancelled /\ BytesOf(body) > RawLimit
  BY <1>2, FailKeepsIInv DEF Begin, Outcomes
<1>3. CASE ~cancelled /\ ~(BytesOf(body) > RawLimit)
  <2> DEFINE f == Frame("root", 1, 0, 0)
  <2>1. /\ stack = <<>> /\ stack' = <<f>>
        /\ decoded' = Add(Zero, 1, 0) /\ view' = Add(Zero, 1, 0)
        /\ UNCHANGED <<body, pos, allocated, cancelled, outcome>>
    BY <1>3 DEF Begin
  <2>2. FrameOK(f, 1)
    BY LimitAssumption DEF Frame, FrameOK, IsFrame
  <2> HIDE DEF f
  <2>3. <<f>> \in Seq({f}) /\ Len(<<f>>) = 1 /\ <<f>>[1] = f /\ <<f>> # <<>>
    OBVIOUS
  <2>4. IsStack(<<f>>)
    BY <2>3 DEF IsStack
  <2>5. StackOK(<<f>>)
    BY <2>2, <2>3, <2>4 DEF StackOK
  <2>6. BudgetOK(decoded') /\ BudgetOK(view') /\ decoded'.nodes = 1
    BY <2>1, LimitAssumption DEF BudgetOK, Budgets, Add, Zero
  <2> QED BY <2>1, <2>3, <2>5, <2>6 DEF MsgpackIInv
<1> QED BY <1>1, <1>2, <1>3

LEMMA BytesKeepIInv ==
  ASSUME MsgpackIInv, BytesValue \/ Extension \/ Timestamp
  PROVE  MsgpackIInv'
<1> DEFINE d == body[pos].of
<1>1. CASE BytesValue
  <2>1. Reads({"str", "bin"})
    BY <1>1 DEF BytesValue
  <2>2. d \in Strings \cup Raw
    BY <2>1, ReadsTop, BodyItems DEF PayloadOK
  <2>3. Size[d] \in Nat /\ LenOf(Base64(d)) \in Nat
    BY <2>2, Lengths
  <2>4. CASE Give(StrValue(Plain(d)), Size[d], Top.viewDepth, 0, Size[d])
    BY <2>1, <2>3, <2>4, GiveKeepsIInv
  <2>5. CASE \E key \in Keys : StringTag(key, Base64(d), Size[d])
    BY <2>1, <2>3, <2>5, StringTagKeepsIInv
  <2> QED BY <1>1, <2>4, <2>5 DEF BytesValue, Keys
<1>2. CASE Extension
  <2>1. Reads({"ext"})
    BY <1>2 DEF Extension
  <2>2. d \in Strings \cup Raw
    BY <2>1, ReadsTop, BodyItems DEF PayloadOK
  <2>3. Size[d] \in Nat /\ Size["$ext"] + LenOf(Base64(d)) \in Nat
    BY <2>2, Lengths DEF Keys
  <2> QED BY <1>2, <2>1, <2>3, GiveKeepsIInv DEF Extension
<1>3. CASE Timestamp
  <2>1. Reads({"time"})
    BY <1>3 DEF Timestamp
  <2>2. d \in Moments /\ body[pos].n \in Nat
    BY <2>1, ReadsTop, BodyItems DEF PayloadOK
  <2>3. Size["$time"] + Size[Moment[d].sec] \in Nat
    BY <2>2, Lengths, MomentAssumption DEF Keys
  <2>4. CASE Fail("timestamp")
    BY <2>4, FailKeepsIInv DEF Outcomes
  <2>5. CASE ~Fail("timestamp")
    <3>1. Give(Tag("$time", SeqValue(<<StrValue(Plain(Moment[d].sec)), NumValue(Moment[d].nanos)>>)),
               body[pos].n, Top.viewDepth + 2, 3, Size["$time"] + Size[Moment[d].sec])
      BY <1>3, <2>5 DEF Timestamp
    <3> QED BY <2>1, <2>2, <2>3, <3>1, GiveKeepsIInv
  <2> QED BY <2>4, <2>5
<1> QED BY <1>1, <1>2, <1>3

LEMMA ArrayKeepsIInv == ASSUME MsgpackIInv, Array PROVE MsgpackIInv'
<1> DEFINE n == body[pos].n
           short == n > Left
           fits == n > 0 => Fits(decoded, Top.depth + 1, n, 0)
           shows == n > 0 => Fits(view, Top.viewDepth + 1, n, 0)
<1>1. Reads({"array"})
  BY DEF Array
<1>2. n \in Nat
  BY <1>1, ReadsTop, BodyItems
<1>3. CASE short \/ ~fits \/ ~shows
  <2>1. \E o \in {"wire", "semantic", "view"} : Fail(o)
    BY <1>3 DEF Array
  <2> QED BY <2>1, FailKeepsIInv DEF Outcomes
<1>4. CASE ~short /\ fits /\ shows
  <2>1. Enter("array", n, Top.viewDepth + 1, Add(view, n, 0)) /\ allocated' = allocated + n
    BY <1>4 DEF Array
  <2>2. BudgetOK(Add(view, n, 0))
    <3>1. BudgetOK(view)
      BY DEF MsgpackIInv
    <3>2. CASE n > 0
      BY <1>2, <1>4, <3>1, <3>2, ChargesFit
    <3>3. CASE n = 0
      BY <3>1, <3>3, NothingFits
    <3> QED BY <1>2, <3>2, <3>3
  <2>3. n \in 0..n
    BY <1>2
  <2> QED BY <1>1, <1>2, <1>4, <2>1, <2>2, <2>3, EnterKeepsIInv
<1> QED BY <1>3, <1>4

LEMMA MappingKeepsIInv == ASSUME MsgpackIInv, Mapping PROVE MsgpackIInv'
<1> DEFINE n == body[pos].n
           short == n > Left \div 2
           fits == n > 0 => Fits(decoded, Top.depth + 1, 2 * n, 0)
           wrapped == Add(view, 1, Size["$map"])
           wraps == Fits(view, Top.viewDepth + 1, 1, Size["$map"])
           shows == n > 0 => Fits(wrapped, Top.viewDepth + 3, 3 * n, 0)
<1>1. Reads({"map"})
  BY DEF Mapping
<1>2. n \in Nat /\ 2 * n \in Nat /\ 3 * n \in Nat /\ n \in 0..2 * n
  <2>1. n \in Nat
    BY <1>1, ReadsTop, BodyItems
  <2> QED BY <2>1
<1>3. CASE short \/ ~fits \/ ~wraps \/ ~shows
  <2>1. \E o \in {"wire", "semantic", "view"} : Fail(o)
    BY <1>3 DEF Mapping
  <2> QED BY <2>1, FailKeepsIInv DEF Outcomes
<1>4. CASE ~short /\ fits /\ wraps /\ shows
  <2>1. /\ Enter("map", 2 * n, Top.viewDepth + 3, Add(wrapped, 3 * n, 0))
        /\ allocated' = allocated + n
    BY <1>4 DEF Mapping
  <2>2. BudgetOK(wrapped)
    BY <1>4, Lengths, ChargesFit DEF MsgpackIInv, Keys
  <2>3. BudgetOK(Add(wrapped, 3 * n, 0))
    <3> HIDE DEF wrapped
    <3>1. CASE n > 0
      BY <1>2, <1>4, <2>2, <3>1, ChargesFit
    <3>2. CASE n = 0
      BY <2>2, <3>2, NothingFits
    <3> QED BY <1>2, <3>1, <3>2
  <2>4. 2 * n > 0 => Fits(decoded, Top.depth + 1, 2 * n, 0)
    BY <1>2, <1>4
  <2> HIDE DEF n, wrapped
  <2> QED BY <1>1, <1>2, <2>1, <2>3, <2>4, EnterKeepsIInv
<1> QED BY <1>3, <1>4

LEMMA CloseKeepsIInv == ASSUME MsgpackIInv, Close PROVE MsgpackIInv'
<1> DEFINE s == SubSeq(stack, 1, Len(stack) - 1)
           v == Whole(Top)
<1>1. /\ stack' = [s EXCEPT ![Len(stack) - 1] = Given(@, v)]
      /\ UNCHANGED <<body, pos, decoded, view, allocated, cancelled, outcome>>
      /\ Len(stack) > 1
  BY DEF Close
<1>2. StackOK(s) /\ s # <<>> /\ s[Len(s)].left > 0 /\ Len(s) = Len(stack) - 1
  BY <1>1, StackCloses DEF MsgpackIInv
<1> HIDE DEF s, v
<1>3. stack' = [s EXCEPT ![Len(s)] = Given(@, v)]
  BY <1>1, <1>2
<1>4. StackOK(stack') /\ stack' # <<>>
  BY <1>2, <1>3, StackGives
<1> QED BY <1>1, <1>4 DEF MsgpackIInv

LEMMA StepKeepsIInv == MsgpackIInv /\ [Next]_vars => MsgpackIInv'
<1> SUFFICES ASSUME MsgpackIInv, [Next]_vars PROVE MsgpackIInv'
  OBVIOUS
<1>1. CASE Begin
  BY <1>1, BeginKeepsIInv
<1>2. CASE Unreadable
  BY <1>2, FailKeepsIInv DEF Unreadable, Outcomes
<1>3. CASE Simple
  BY <1>3, GiveKeepsIInv DEF Simple
<1>4. CASE Integer \/ Float
  <2>1. PICK codes \in SUBSET {"uint", "int", "f32", "f64"} :
          Reads(codes) /\ \E key \in Keys : StringTag(key, Plain(body[pos].of), 0)
    BY <1>4 DEF Integer, Float, Keys
  <2>2. body[pos].of \in Strings
    BY <2>1, ReadsTop, BodyItems DEF PayloadOK
  <2>3. LenOf(Plain(body[pos].of)) \in Nat
    BY <2>2, Lengths
  <2> QED BY <2>1, <2>3, StringTagKeepsIInv
<1>5. CASE BytesValue \/ Extension \/ Timestamp
  BY <1>5, BytesKeepIInv
<1>6. CASE Array
  BY <1>6, ArrayKeepsIInv
<1>7. CASE Mapping
  BY <1>7, MappingKeepsIInv
<1>8. CASE Close
  BY <1>8, CloseKeepsIInv
<1>9. CASE End
  BY <1>9, FailKeepsIInv DEF End, Outcomes
<1>10. CASE Cancel
  BY <1>10 DEF MsgpackIInv, Cancel
<1>11. CASE UNCHANGED vars
  BY <1>11 DEF MsgpackIInv, vars
<1> QED BY <1>1, <1>2, <1>3, <1>4, <1>5, <1>6, <1>7, <1>8, <1>9, <1>10, <1>11 DEF Next, Walk

(* The walk keeps its invariant, for every body and all limits. *)
THEOREM WalkInvariant == Spec => []MsgpackIInv
  BY InitIInv, StepKeepsIInv, PTL DEF Spec

(* Decode is well typed, whatever the body says of itself.                 *)
THEOREM WalkTypes == Spec => []MsgpackTypeOK
<1>1. MsgpackIInv => MsgpackTypeOK
  <2> SUFFICES ASSUME MsgpackIInv PROVE MsgpackTypeOK
    OBVIOUS
  <2>1. PICK S : stack \in Seq(S)
    BY DEF MsgpackIInv, StackOK, IsStack
  <2>2. \A i \in DOMAIN stack : stack[i].left \in Nat
    BY <2>1 DEF MsgpackIInv, StackOK, FrameOK
  <2> QED BY <2>2 DEF MsgpackIInv, BudgetOK, Budgets, MsgpackTypeOK
<1> QED BY <1>1, WalkInvariant, PTL

(* No body overdraws a budget, makes slices of more elements than it was   *)
(* charged for, or drives the recursion deeper than the limit (decode.go). *)
THEOREM NoBodyOverdraws == Spec => []BudgetsHold
<1>1. MsgpackIInv => BudgetsHold
  <2> SUFFICES ASSUME MsgpackIInv PROVE BudgetsHold
    OBVIOUS
  <2>1. PICK S : stack \in Seq(S)
    BY DEF MsgpackIInv, StackOK, IsStack
  <2>2. Len(stack) <= DepthLimit + 2
    <3>1. CASE Len(stack) > 1
      <4>1. Len(stack) - 1 \in 1..Len(stack) /\ Len(stack) - 1 < Len(stack)
        BY <2>1, <3>1
      <4>2. stack[Len(stack) - 1].left > 0 /\ FrameOK(stack[Len(stack) - 1], Len(stack) - 1)
        BY <4>1 DEF MsgpackIInv, StackOK
      <4> QED BY <2>1, <4>2, LimitAssumption DEF FrameOK
    <3>2. CASE ~(Len(stack) > 1)
      BY <2>1, <3>2, LimitAssumption
    <3> QED BY <3>1, <3>2
  <2> QED BY <2>2 DEF MsgpackIInv, BudgetOK, BudgetsHold
<1> QED BY <1>1, WalkInvariant, PTL
-----------------------------------------------------------------------------
(* EachIsChargedOnce counts the values that the open containers wait for.  *)
(* A value that is given is one of them, a container that is opened waits  *)
(* for new ones, and one that is closed for none.                          *)
LEMMA OwedOnes ==
  ASSUME NEW s, NEW i, NEW k
  PROVE  <<i, k>> \in Owed(s) <=> i \in DOMAIN s /\ k \in 1..s[i].left
  BY DEF Owed

LEMMA OwedPairs ==
  ASSUME NEW s, NEW p \in Owed(s)
  PROVE  \E i \in DOMAIN s : \E k \in 1..s[i].left : p = <<i, k>>
  BY DEF Owed

LEMMA SameOwed ==
  ASSUME NEW s, NEW t, NEW D,
         \A i, k : <<i, k>> \in Owed(t) <=> <<i, k>> \in D,
         \A p \in D : \E i, k : p = <<i, k>>
  PROVE  Owed(t) = D
<1>1. ASSUME NEW p \in Owed(t) PROVE p \in D
  BY <1>1, OwedPairs
<1>2. ASSUME NEW p \in D PROVE p \in Owed(t)
  BY <1>2
<1> QED BY <1>1, <1>2

LEMMA GivingOwes ==
  ASSUME NEW s, StackOK(s), s # <<>>, s[Len(s)].left > 0, NEW v
  PROVE  LET t == [s EXCEPT ![Len(s)] = Given(@, v)]
             p == <<Len(s), s[Len(s)].left>>
         IN  Owed(t) = Owed(s) \ {p} /\ p \in Owed(s) /\ Len(t) = Len(s)
<1> PICK S : s \in Seq(S)
  BY DEF StackOK, IsStack
<1> DEFINE n == Len(s)
           x == s[n].left
           f == Given(s[n], v)
           t == [s EXCEPT ![Len(s)] = Given(@, v)]
<1>1. n \in Nat \ {0} /\ n \in 1..n /\ DOMAIN s = 1..n
  OBVIOUS
<1>2. FrameOK(s[n], n)
  BY <1>1 DEF StackOK
<1>3. x \in Nat /\ x > 0 /\ f.left = x - 1
  BY <1>2 DEF FrameOK, IsFrame, Given
<1>4. DOMAIN t = 1..n /\ t[n] = f /\ (\A i \in 1..n : i # n => t[i] = s[i]) /\ Len(t) = n
  <2>1. t = [s EXCEPT ![n] = f]
    OBVIOUS
  <2>2. s \in Seq(S \cup {f})
    OBVIOUS
  <2> HIDE DEF f, t, n
  <2>3. t \in Seq(S \cup {f}) /\ Len(t) = Len(s) /\ \A j \in 1..Len(s) : t[j] = IF j = n THEN f ELSE s[j]
    BY <1>1, <2>1, <2>2, ExceptSeq DEF n
  <2>4. DOMAIN t = 1..Len(t)
    BY <2>3
  <2>5. Len(s) = n
    BY DEF n
  <2> QED BY <1>1, <2>3, <2>4, <2>5
<1> HIDE DEF f, t, x, n
<1>5. ASSUME NEW i, NEW k
      PROVE  <<i, k>> \in Owed(t) <=> <<i, k>> \in Owed(s) \ {<<n, x>>}
  <2>1. CASE i = n
    <3>1. <<i, k>> \in Owed(t) <=> k \in 1..x - 1
      BY <1>1, <1>3, <1>4, <2>1, OwedOnes
    <3>2. <<i, k>> \in Owed(s) <=> k \in 1..x
      BY <1>1, <2>1, OwedOnes DEF x
    <3>3. k \in 1..x - 1 <=> k \in 1..x /\ k # x
      BY <1>3
    <3> QED BY <2>1, <3>1, <3>2, <3>3
  <2>2. CASE i # n
    <3>1. <<i, k>> \in Owed(t) <=> i \in 1..n /\ k \in 1..t[i].left
      BY <1>4, OwedOnes
    <3>2. <<i, k>> \in Owed(s) <=> i \in 1..n /\ k \in 1..s[i].left
      BY <1>1, OwedOnes
    <3>3. i \in 1..n => t[i] = s[i]
      BY <1>4, <2>2
    <3> QED BY <2>2, <3>1, <3>2, <3>3
  <2> QED BY <2>1, <2>2
<1>6. \A p \in Owed(s) \ {<<n, x>>} : \E i, k : p = <<i, k>>
  BY OwedPairs
<1>7. Owed(t) = Owed(s) \ {<<n, x>>}
  BY <1>5, <1>6, SameOwed
<1>8. <<n, x>> \in Owed(s)
  <2>1. x \in 1..x
    BY <1>3
  <2> QED BY <1>1, <2>1, OwedOnes DEF x
<1> QED BY <1>4, <1>7, <1>8 DEF t, n, x

LEMMA OpeningOwes ==
  ASSUME NEW s, StackOK(s), NEW f, f.left \in Nat
  PROVE  LET D == {Len(s) + 1} \X (1..f.left)
         IN  /\ Owed(Append(s, f)) = Owed(s) \cup D /\ Owed(s) \cap D = {}
             /\ Len(Append(s, f)) = Len(s) + 1
<1> PICK S : s \in Seq(S)
  BY DEF StackOK, IsStack
<1> DEFINE n == Len(s)
           D == {n + 1} \X (1..f.left)
           t == Append(s, f)
<1>1. n \in Nat /\ DOMAIN s = 1..n /\ n + 1 \notin 1..n /\ 1..n + 1 = 1..n \cup {n + 1}
  OBVIOUS
<1>2. DOMAIN t = 1..n + 1 /\ t[n + 1] = f /\ (\A i \in 1..n : t[i] = s[i]) /\ Len(t) = n + 1
  OBVIOUS
<1> HIDE DEF n, t
<1>3. ASSUME NEW i, NEW k
      PROVE  <<i, k>> \in Owed(t) <=> <<i, k>> \in Owed(s) \cup D
  <2>1. <<i, k>> \in Owed(t) <=> (i \in 1..n \/ i = n + 1) /\ k \in 1..t[i].left
    BY <1>1, <1>2, OwedOnes
  <2>2. <<i, k>> \in Owed(s) <=> i \in 1..n /\ k \in 1..s[i].left
    BY <1>1, OwedOnes
  <2>3. <<i, k>> \in D <=> i = n + 1 /\ k \in 1..f.left
    OBVIOUS
  <2>4. (i \in 1..n => t[i] = s[i]) /\ (i = n + 1 => t[i] = f)
    BY <1>2
  <2> QED BY <2>1, <2>2, <2>3, <2>4
<1>4. \A p \in Owed(s) \cup D : \E i, k : p = <<i, k>>
  BY OwedPairs
<1>5. ASSUME NEW p \in Owed(s), p \in D PROVE FALSE
  <2>1. PICK i, k : i \in DOMAIN s /\ p = <<i, k>>
    BY <1>5, OwedPairs
  <2>2. i = n + 1
    BY <1>5, <2>1
  <2> QED BY <1>1, <2>1, <2>2
<1> HIDE DEF D
<1>6. Owed(t) = Owed(s) \cup D
  BY <1>3, <1>4, SameOwed
<1>7. Owed(s) \cap D = {}
  BY <1>5
<1> QED BY <1>2, <1>6, <1>7 DEF D, t, n

LEMMA ClosingOwes ==
  ASSUME NEW s, StackOK(s), Len(s) > 1, s[Len(s)].left = 0
  PROVE  Owed(SubSeq(s, 1, Len(s) - 1)) = Owed(s)
<1> PICK S : s \in Seq(S)
  BY DEF StackOK, IsStack
<1> DEFINE n == Len(s)
           t == SubSeq(s, 1, Len(s) - 1)
<1>1. n \in Nat /\ DOMAIN s = 1..n /\ 1..n = 1..n - 1 \cup {n} /\ n \notin 1..n - 1
  OBVIOUS
<1>2. DOMAIN t = 1..n - 1 /\ \A i \in 1..n - 1 : t[i] = s[i]
  BY SubSeqProperties
<1> HIDE DEF n, t
<1>3. ASSUME NEW i, NEW k
      PROVE  <<i, k>> \in Owed(t) <=> <<i, k>> \in Owed(s)
  <2>1. <<i, k>> \in Owed(t) <=> i \in 1..n - 1 /\ k \in 1..t[i].left
    BY <1>2, OwedOnes
  <2>2. <<i, k>> \in Owed(s) <=> (i \in 1..n - 1 \/ i = n) /\ k \in 1..s[i].left
    BY <1>1, OwedOnes
  <2>3. i = n => ~(k \in 1..s[i].left)
    BY DEF n
  <2>4. i \in 1..n - 1 => t[i] = s[i]
    BY <1>2
  <2> QED BY <2>1, <2>2, <2>3, <2>4
<1>4. \A p \in Owed(s) : \E i, k : p = <<i, k>>
  BY OwedPairs
<1> QED BY <1>3, <1>4, SameOwed DEF t

Charged ==
  /\ IsFiniteSet(Owed(stack))
  /\ stack = <<>> => pos = 1
  /\ EachIsChargedOnce

LEMMA FailKeepsCharged ==
  ASSUME Charged, NEW o, Fail(o)
  PROVE  Charged'
  BY DEF Charged, EachIsChargedOnce, Fail

LEMMA GiveKeepsCharged ==
  ASSUME MsgpackIInv, Charged, NEW codes, Reads(codes), NEW v, NEW payload, NEW depth,
         NEW nodes, NEW text, Give(v, payload, depth, nodes, text)
  PROVE  Charged'
<1>1. CASE ~Fits(decoded, 0, 0, payload)
  <2>1. Fail("semantic")
    BY <1>1 DEF Give
  <2> QED BY <2>1, FailKeepsCharged
<1>2. CASE Fits(decoded, 0, 0, payload) /\ ~Fits(view, depth, nodes, text)
  <2>1. Fail("view")
    BY <1>2 DEF Give
  <2> QED BY <2>1, FailKeepsCharged
<1>3. CASE Fits(decoded, 0, 0, payload) /\ Fits(view, depth, nodes, text)
  <2> DEFINE p == <<Len(stack), stack[Len(stack)].left>>
  <2>1. /\ stack' = [stack EXCEPT ![Len(stack)] = Given(@, v)]
        /\ decoded' = Add(decoded, 0, payload) /\ pos' = pos + 1
    BY <1>3 DEF Give
  <2>2. StackOK(stack) /\ decoded.nodes \in Nat /\ pos \in Nat
    BY BodyItems, ReadsTop DEF MsgpackIInv, BudgetOK, Budgets
  <2>3. decoded'.nodes = decoded.nodes
    BY <2>1, <2>2 DEF Add
  <2>4. stack # <<>> /\ stack[Len(stack)].left > 0 /\ Len(stack) \in Nat \ {0}
    BY ReadsTop
  <2>5. /\ Owed(stack') = Owed(stack) \ {p} /\ p \in Owed(stack) /\ Len(stack') = Len(stack)
    BY <2>1, <2>2, <2>4, GivingOwes
  <2> HIDE DEF p
  <2>6. IsFiniteSet(Owed(stack)) /\ Cardinality(Owed(stack)) \in Nat
    BY FS_CardinalityType DEF Charged
  <2>7. IsFiniteSet(Owed(stack')) /\ Cardinality(Owed(stack')) = Cardinality(Owed(stack)) - 1
    BY <2>5, <2>6, FS_RemoveElement
  <2>8. decoded.nodes + Len(stack) = pos + Cardinality(Owed(stack))
    BY <2>4 DEF Charged, EachIsChargedOnce
  <2>9. decoded'.nodes + Len(stack') = pos' + Cardinality(Owed(stack'))
    BY <2>1, <2>2, <2>3, <2>4, <2>5, <2>6, <2>7, <2>8
  <2>10. stack' # <<>>
    BY <2>4, <2>5
  <2> QED BY <2>7, <2>9, <2>10 DEF Charged, EachIsChargedOnce
<1> QED BY <1>1, <1>2, <1>3

LEMMA EnterKeepsCharged ==
  ASSUME MsgpackIInv, Charged, NEW codes, Reads(codes), NEW kind, NEW count \in Nat,
         NEW viewDepth, NEW v, Enter(kind, count, viewDepth, v)
  PROVE  Charged'
<1> DEFINE f == Frame(kind, count, Top.depth + 1, viewDepth)
           D == {Len(stack) + 1} \X (1..count)
<1>1. stack' = Append(stack, f) /\ decoded' = Add(decoded, count, 0) /\ pos' = pos + 1
  BY DEF Enter
<1>2. f.left = count
  BY DEF Frame
<1> HIDE DEF f
<1>3. StackOK(stack) /\ decoded.nodes \in Nat /\ pos \in Nat
  BY BodyItems, ReadsTop DEF MsgpackIInv, BudgetOK, Budgets
<1>4. stack # <<>> /\ Len(stack) \in Nat \ {0}
  BY ReadsTop
<1>5. decoded'.nodes = decoded.nodes + count
  BY <1>1 DEF Add
<1>6. /\ Owed(stack') = Owed(stack) \cup D /\ Owed(stack) \cap D = {}
      /\ Len(stack') = Len(stack) + 1
  BY <1>1, <1>2, <1>3, OpeningOwes
<1>7. IsFiniteSet(D) /\ Cardinality(D) = count
  <2>1. IsFiniteSet(1..count) /\ Cardinality(1..count) = count
    BY FS_Interval
  <2>2. IsFiniteSet({Len(stack) + 1}) /\ Cardinality({Len(stack) + 1}) = 1
    BY FS_Singleton
  <2>3. IsFiniteSet(D) /\ Cardinality(D) = 1 * count
    BY <2>1, <2>2, FS_Product
  <2> QED BY <2>3
<1> HIDE DEF D
<1>8. IsFiniteSet(Owed(stack)) /\ Cardinality(Owed(stack)) \in Nat
  BY FS_CardinalityType DEF Charged
<1>9. Cardinality({}) = 0
  BY FS_EmptySet
<1>10. IsFiniteSet(Owed(stack')) /\ Cardinality(Owed(stack')) = Cardinality(Owed(stack)) + count
  <2>1. /\ IsFiniteSet(Owed(stack) \cup D)
        /\ Cardinality(Owed(stack) \cup D)
             = Cardinality(Owed(stack)) + Cardinality(D) - Cardinality(Owed(stack) \cap D)
    BY <1>7, <1>8, FS_Union
  <2>2. Cardinality(Owed(stack) \cap D) = 0
    BY <1>6, <1>9
  <2>3. Cardinality(Owed(stack')) = Cardinality(Owed(stack)) + count - 0
    BY <1>6, <1>7, <2>1, <2>2
  <2> QED BY <1>6, <1>8, <2>1, <2>3
<1>11. decoded.nodes + Len(stack) = pos + Cardinality(Owed(stack))
  BY <1>4 DEF Charged, EachIsChargedOnce
<1>12. decoded'.nodes + Len(stack') = pos' + Cardinality(Owed(stack'))
  <2> DEFINE d == decoded.nodes
             l == Len(stack)
             q == pos
             c == Cardinality(Owed(stack))
  <2>1. d \in Nat /\ l \in Nat /\ q \in Nat /\ c \in Nat /\ d + l = q + c
    BY <1>3, <1>4, <1>8, <1>11
  <2>2. pos' = pos + 1
    BY <1>1
  <2>3. (d + count) + (l + 1) = (q + 1) + (c + count)
    <3> HIDE DEF d, l, q, c
    <3> QED BY <2>1
  <2>4. Len(stack') = Len(stack) + 1
    BY <1>6
  <2>5. Cardinality(Owed(stack')) = Cardinality(Owed(stack)) + count
    BY <1>10
  <2> QED BY <1>5, <2>2, <2>3, <2>4, <2>5
<1>13. stack' # <<>>
  BY <1>4, <1>6
<1> QED BY <1>10, <1>12, <1>13 DEF Charged, EachIsChargedOnce

LEMMA BeginKeepsCharged == ASSUME MsgpackIInv, Charged, Begin PROVE Charged'
<1>1. CASE cancelled
  BY <1>1, FailKeepsCharged DEF Begin
<1>2. CASE ~cancelled /\ BytesOf(body) > RawLimit
  BY <1>2, FailKeepsCharged DEF Begin
<1>3. CASE ~cancelled /\ ~(BytesOf(body) > RawLimit)
  <2> DEFINE f == Frame("root", 1, 0, 0)
  <2>1. stack = <<>> /\ stack' = <<f>> /\ decoded' = Add(Zero, 1, 0) /\ pos' = pos
    BY <1>3 DEF Begin
  <2>2. f.left = 1
    BY DEF Frame
  <2> HIDE DEF f
  <2>3. Len(stack') = 1 /\ DOMAIN stack' = {1} /\ stack'[1].left = 1 /\ stack' # <<>>
    BY <2>1, <2>2
  <2>4. Owed(stack') = {<<1, 1>>}
    <3>1. ASSUME NEW i, NEW k
          PROVE  <<i, k>> \in Owed(stack') <=> <<i, k>> \in {<<1, 1>>}
      <4>1. <<i, k>> \in Owed(stack') <=> i = 1 /\ k \in 1..stack'[i].left
        BY <2>3, OwedOnes
      <4>2. k \in 1..1 <=> k = 1
        OBVIOUS
      <4> QED BY <2>3, <4>1, <4>2
    <3>2. \A p \in {<<1, 1>>} : \E i, k : p = <<i, k>>
      OBVIOUS
    <3> QED BY <3>1, <3>2, SameOwed
  <2>5. IsFiniteSet(Owed(stack')) /\ Cardinality(Owed(stack')) = 1
    BY <2>4, FS_Singleton
  <2>6. decoded'.nodes = 1 /\ pos' = 1
    BY <2>1 DEF Charged, Add, Zero
  <2> QED BY <2>3, <2>5, <2>6 DEF Charged, EachIsChargedOnce
<1> QED BY <1>1, <1>2, <1>3

LEMMA CloseKeepsCharged == ASSUME MsgpackIInv, Charged, Close PROVE Charged'
<1> DEFINE s == SubSeq(stack, 1, Len(stack) - 1)
           p == <<Len(s), s[Len(s)].left>>
           v == Whole(Top)
<1>1. /\ stack' = [s EXCEPT ![Len(stack) - 1] = Given(@, v)]
      /\ pos' = pos /\ decoded' = decoded
      /\ Len(stack) > 1 /\ stack[Len(stack)].left = 0
  BY DEF Close, Top
<1>2. StackOK(stack) /\ stack # <<>> /\ Len(stack) \in Nat
  <2>1. PICK S : stack \in Seq(S)
    BY DEF MsgpackIInv, StackOK, IsStack
  <2> QED BY <1>1, <2>1 DEF MsgpackIInv
<1>3. StackOK(s) /\ s # <<>> /\ s[Len(s)].left > 0 /\ Len(s) = Len(stack) - 1
  BY <1>1, <1>2, StackCloses
<1>4. Owed(s) = Owed(stack)
  BY <1>1, <1>2, ClosingOwes
<1> HIDE DEF s, v
<1>5. stack' = [s EXCEPT ![Len(s)] = Given(@, v)]
  BY <1>1, <1>3
<1>6. Owed(stack') = Owed(s) \ {p} /\ p \in Owed(s) /\ Len(stack') = Len(s)
  BY <1>3, <1>5, GivingOwes
<1> HIDE DEF p
<1>7. IsFiniteSet(Owed(stack)) /\ Cardinality(Owed(stack)) \in Nat
  BY FS_CardinalityType DEF Charged
<1>8. IsFiniteSet(Owed(stack')) /\ Cardinality(Owed(stack')) = Cardinality(Owed(stack)) - 1
  <2>1. /\ IsFiniteSet(Owed(stack) \ {p})
        /\ Cardinality(Owed(stack) \ {p}) = Cardinality(Owed(stack)) - 1
    BY <1>4, <1>6, <1>7, FS_RemoveElement
  <2> QED BY <1>4, <1>6, <2>1
<1>9. decoded.nodes \in Nat /\ pos \in Nat
  <2>1. body \in Seq(Items)
    BY BodiesAssumption DEF MsgpackIInv
  <2> QED BY <2>1 DEF MsgpackIInv, BudgetOK, Budgets
<1>10. decoded.nodes + Len(stack) = pos + Cardinality(Owed(stack))
  BY <1>2 DEF Charged, EachIsChargedOnce
<1>11. decoded'.nodes + Len(stack') = pos' + Cardinality(Owed(stack'))
  <2> DEFINE d == decoded.nodes
             l == Len(stack)
             q == pos
             c == Cardinality(Owed(stack))
  <2>1. d \in Nat /\ l \in Nat /\ q \in Nat /\ c \in Nat /\ d + l = q + c
    BY <1>2, <1>7, <1>9, <1>10
  <2>2. pos' = pos /\ decoded'.nodes = decoded.nodes /\ Len(stack') = Len(stack) - 1
    BY <1>1, <1>3, <1>6
  <2>3. d + (l - 1) = q + (c - 1)
    <3> HIDE DEF d, l, q, c
    <3> QED BY <2>1
  <2> QED BY <1>8, <2>2, <2>3
<1>12. stack' # <<>>
  BY <1>1, <1>2, <1>3, <1>6
<1> QED BY <1>8, <1>11, <1>12 DEF Charged, EachIsChargedOnce

LEMMA ContainersKeepCharged == ASSUME MsgpackIInv, Charged, Array \/ Mapping PROVE Charged'
<1>1. ASSUME NEW o, Fail(o) PROVE Charged'
  BY <1>1, FailKeepsCharged
<1>2. CASE Array
  <2>1. Reads({"array"}) /\ body[pos].n \in Nat
    BY <1>2, ReadsTop, BodyItems DEF Array
  <2>2. \/ \E o : Fail(o)
        \/ Enter("array", body[pos].n, Top.viewDepth + 1, Add(view, body[pos].n, 0))
    BY <1>2 DEF Array
  <2> QED BY <1>1, <2>1, <2>2, EnterKeepsCharged
<1>3. CASE Mapping
  <2>1. Reads({"map"}) /\ body[pos].n \in Nat
    BY <1>3, ReadsTop, BodyItems DEF Mapping
  <2>2. 2 * body[pos].n \in Nat
    BY <2>1
  <2>3. \/ \E o : Fail(o)
        \/ \E w : Enter("map", 2 * body[pos].n, Top.viewDepth + 3, w)
    BY <1>3 DEF Mapping
  <2> QED BY <1>1, <2>1, <2>2, <2>3, EnterKeepsCharged
<1> QED BY <1>2, <1>3

LEMMA ValuesKeepCharged ==
  ASSUME MsgpackIInv, Charged,
         Simple \/ Integer \/ Float \/ BytesValue \/ Extension \/ Timestamp
  PROVE  Charged'
<1>1. \/ \E o : Fail(o)
      \/ \E codes, v, payload, depth, nodes, text :
           Reads(codes) /\ Give(v, payload, depth, nodes, text)
  <2>1. CASE Simple
    BY <2>1 DEF Simple
  <2>2. CASE Integer
    BY <2>2 DEF Integer, StringTag
  <2>3. CASE Float
    BY <2>3 DEF Float, StringTag
  <2>4. CASE BytesValue
    BY <2>4 DEF BytesValue, StringTag
  <2>5. CASE Extension
    BY <2>5 DEF Extension
  <2>6. CASE Timestamp
    BY <2>6 DEF Timestamp
  <2> QED BY <2>1, <2>2, <2>3, <2>4, <2>5, <2>6
<1> QED BY <1>1, FailKeepsCharged, GiveKeepsCharged

LEMMA StepKeepsCharged == MsgpackIInv /\ Charged /\ [Next]_vars => Charged'
<1> SUFFICES ASSUME MsgpackIInv, Charged, [Next]_vars PROVE Charged'
  OBVIOUS
<1>1. CASE Begin
  BY <1>1, BeginKeepsCharged
<1>2. CASE Simple \/ Integer \/ Float \/ BytesValue \/ Extension \/ Timestamp
  BY <1>2, ValuesKeepCharged
<1>3. CASE Array \/ Mapping
  BY <1>3, ContainersKeepCharged
<1>4. CASE Close
  BY <1>4, CloseKeepsCharged
<1>5. CASE Unreadable \/ End
  BY <1>5, FailKeepsCharged DEF Unreadable, End
<1>6. CASE Cancel
  BY <1>6 DEF Charged, EachIsChargedOnce, Cancel
<1>7. CASE UNCHANGED vars
  BY <1>7 DEF Charged, EachIsChargedOnce, vars
<1> QED BY <1>1, <1>2, <1>3, <1>4, <1>5, <1>6, <1>7 DEF Next, Walk

(* What was charged is what was read and what is waited for, whatever the  *)
(* body declares (budget.add, before every container).                     *)
THEOREM ValuesAreChargedOnce == Spec => []EachIsChargedOnce
<1>1. Init => Charged
  <2> SUFFICES ASSUME Init PROVE Charged
    OBVIOUS
  <2>1. Owed(<<>>) = {}
    BY DEF Owed
  <2> QED BY <2>1, FS_EmptySet DEF Init, Charged, EachIsChargedOnce
<1>2. Charged => EachIsChargedOnce
  BY DEF Charged
<1> QED BY <1>1, <1>2, StepKeepsCharged, WalkInvariant, PTL DEF Spec

(* Both together: no charge is forgotten, none is made twice, and none     *)
(* overdraws (decode.go, budget.add).                                      *)
THEOREM ChargesAreHeld == Spec => []ChargesHold
<1>1. BudgetsHold /\ EachIsChargedOnce => ChargesHold
  BY DEF ChargesHold
<1> QED BY <1>1, NoBodyOverdraws, ValuesAreChargedOnce, PTL
=============================================================================
