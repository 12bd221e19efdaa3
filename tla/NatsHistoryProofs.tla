------------------------- MODULE NatsHistoryProofs -------------------------
(***************************************************************************)
(* Proofs about the inspection of a retained stream (NatsHistory), for     *)
(* every largest sequence, every selection and every number of changes of  *)
(* the stream: its types, that what it delivers is faithful, and that it   *)
(* is a session as the observation expects it (NatsSession).               *)
(***************************************************************************)
EXTENDS NatsHistory, FiniteSetTheorems, WellFoundedInduction, SequenceTheorems, TLAPS

Records == [stream : Nat, seq : 1..MaxSeq]
Infos   == [kind : {"info"}, created : Nat, messages : Nat,
            first : 0..MaxSeq, last : 0..MaxSeq]
Messages == [kind : {"message"}, stream : Nat, seq : 0..MaxSeq,
             match : BOOLEAN, timely : BOOLEAN]
Replies == {Pending, Lost, Refusal, Nothing} \cup Infos \cup Messages

InspectTypes ==
  /\ last \in 0..MaxSeq /\ retained \subseteq 1..last /\ kept \subseteq retained
  /\ stream \in Nat \ {0} /\ matching \subseteq Seqs /\ changes \in Nat
  /\ options \in Selections
  /\ step \in {"connect", "request", "waiting", "exhausted", "idle"}
  /\ purpose \in {"open", "get", "end"} /\ reply \in Replies
  /\ created \in Nat /\ upper \in 0..MaxSeq /\ cursor \in 0..MaxSeq
  /\ horizon \in 0..MaxSeq /\ first \in BOOLEAN /\ boundary \in BOOLEAN
  /\ delivered \in Seq(Records)
  /\ sessionDone \in BOOLEAN /\ failure \in BOOLEAN
  /\ life \in {"opening", "open", "failed", "closed"}
  /\ harm \in {"none", "late", "early"} /\ told \in {"no", "due", "yes"}
  /\ got \in Results \ {"empty"}

(* What is asked, and when. *)
Protocol ==
  /\ step = "connect" => purpose = "open"
  /\ life = "opening" <=> purpose = "open" /\ step # "idle"
  /\ step # "idle" => life \in {"opening", "open"} /\ ~Ended
  /\ step = "exhausted" => purpose # "open"
  /\ life \in {"opening", "failed"} => delivered = <<>> /\ got = "none"
  /\ reply # Pending => step = "waiting"
  /\ reply.kind = "message" \/ reply = Nothing => purpose = "get"
  /\ purpose = "get" /\ step \in {"request", "waiting"} => ~boundary

(* The cursor is behind what has been delivered, and the bounds hold. *)
Latest == delivered[Len(delivered)]

Progress ==
  /\ first <=> delivered = <<>>
  /\ first => cursor = options.start
  /\ ~first => Latest.seq = (IF boundary THEN upper ELSE cursor - 1)
  /\ \A i, j \in 1..Len(delivered) : i < j => delivered[i].seq < delivered[j].seq
  /\ \A i \in 1..Len(delivered) : delivered[i].seq \in options.start..upper
  /\ options.end > 0 => upper <= options.end

(* A stream that is replaced is another one for ever. *)
Identity ==
  /\ created <= stream
  /\ \A i \in 1..Len(delivered) : delivered[i].stream \in created..stream
  /\ reply.kind = "message" => reply.stream \in created..stream
  /\ reply.kind = "info" =>
       /\ reply.created <= stream
       /\ \A i \in 1..Len(delivered) : delivered[i].stream <= reply.created
  /\ OneStream

(* While nothing has done harm the broker's answers are possible, and what *)
(* is wanted and not delivered yet lies at or after the cursor, and the    *)
(* answer to a request does not pass it over.                              *)
Wanted(s) == /\ s \in kept \cap matching /\ s \in options.start..upper
             /\ Stored(created, s) >= options.from
             /\ \A i \in 1..Len(delivered) : delivered[i].seq # s

Honest ==
  harm = "none" =>
    /\ stream = 1 /\ reply \notin {Lost, Refusal}
    /\ life \in {"open", "closed"} => created = 1 /\ upper <= horizon
    /\ reply.kind = "info" =>
         /\ reply.created = 1 /\ Possible(reply)
         /\ purpose = "open" => reply.last = horizon /\ (reply.messages = 0 => kept = {})
    /\ reply.kind = "message" => Valid(reply) /\ Stored(1, reply.seq) >= options.from
    /\ ~first => Stored(1, Latest.seq) >= options.from

Complete ==
  harm = "none" /\ life \in {"open", "closed"} =>
    \A s \in Seqs : Wanted(s) =>
      /\ got # "exhausted"
      /\ ~Ended => /\ ~boundary /\ s >= cursor /\ purpose # "end" /\ step # "exhausted"
                   /\ reply # Nothing
                   /\ reply.kind = "message" => s >= reply.seq

HistoryIInv == InspectTypes /\ Protocol /\ Progress /\ Identity /\ Honest /\ Complete

-----------------------------------------------------------------------------
(* The numbers. *)
LEMMA MaxSeqIsPositive == MaxSeq \in Nat \ {0}
  BY HistoryAssumption

LEMMA SelectionsAreSelected ==
  ASSUME NEW o \in Selections
  PROVE  /\ o.start \in 0..MaxSeq /\ o.from \in Nat /\ o.end \in 0..MaxSeq
         /\ o.from # NoTime => o.start = 0
         /\ o.from = NoTime => o.start > 0
  BY HistoryAssumption DEF Selected, NoTime

LEMMA StoredGrows ==
  ASSUME NEW q \in Nat, NEW s \in Nat, NEW t \in Nat
  PROVE  Stored(q, s) \in Nat /\ (s <= t => Stored(q, s) <= Stored(q, t))
<1>1. q * (MaxSeq + 1) \in Nat
  BY MaxSeqIsPositive
<1>2. \A k \in Nat : k + s \in Nat /\ (s <= t => k + s <= k + t)
  OBVIOUS
<1> QED BY <1>1, <1>2 DEF Stored

(* A sum that is small enough is its own remainder. *)
LEMMA NoWrap ==
  ASSUME NEW s \in Nat, s <= MaxSeq
  PROVE  s % (MaxSeq + 1) = s
  BY MaxSeqIsPositive

LEMMA SmallestIsMin ==
  ASSUME NEW S, S \subseteq Nat, S # {}
  PROVE  Min(S) \in S /\ \A y \in S : Min(S) <= y
<1> DEFINE R == OpToRel(<, Nat)
<1>r. R = {p \in Nat \X Nat : p[1] < p[2]}
  BY DEF OpToRel
<1>w. IsWellFoundedOn(R, Nat)
  BY NatLessThanWellFounded
<1> HIDE DEF R
<1>m. PICK x \in S : \A y \in S : ~(<<y, x>> \in R)
  BY <1>w, WFMin
<1>1. \A y \in S : x <= y
  <2> SUFFICES ASSUME NEW y \in S, y < x PROVE FALSE
    OBVIOUS
  <2> QED BY <1>r, <1>m
<1>2. \A y \in S : x =< y
  BY <1>1
<1> QED BY <1>2 DEF Min

(* The kinds of answers. *)
LEMMA ReplyKinds ==
  /\ Pending.kind = "pending" /\ Lost.kind = "lost"
  /\ Refusal.kind = "error" /\ Nothing.kind = "none"
  /\ \A r \in Infos : r.kind = "info"
  /\ \A r \in Messages : r.kind = "message"
  /\ \A r \in Replies : /\ r.kind = "info" => r \in Infos
                        /\ r.kind = "message" => r \in Messages
                        /\ r.kind = "pending" => r = Pending
                        /\ r.kind = "none" => r = Nothing
  BY DEF Pending, Lost, Refusal, Nothing, Infos, Messages, Replies

LEMMA RecordsDelivered ==
  ASSUME delivered \in Seq(Records)
  PROVE  /\ Len(delivered) \in Nat /\ DOMAIN delivered = 1..Len(delivered)
         /\ \A i \in 1..Len(delivered) : /\ delivered[i].seq \in 1..MaxSeq
                                         /\ delivered[i].stream \in Nat
         /\ delivered # <<>> <=> Len(delivered) > 0
<1>1. Len(delivered) \in Nat /\ DOMAIN delivered = 1..Len(delivered)
  OBVIOUS
<1>2. \A i \in 1..Len(delivered) : delivered[i] \in Records
  OBVIOUS
<1>3. delivered # <<>> <=> Len(delivered) > 0
  BY <1>1
<1> QED BY <1>1, <1>2, <1>3 DEF Records

(* What a range says that is true is possible.                             *)
LEMMA TrueRangeIsPossible ==
  ASSUME NEW R, NEW l \in 0..MaxSeq, R \subseteq 1..l
  PROVE  /\ Cardinality(R) \in Nat /\ (Cardinality(R) = 0 <=> R = {})
         /\ R # {} => /\ Min(R) \in 1..l
                      /\ Cardinality(R) - 1 <= l - Min(R)
<1>1. IsFiniteSet(1..l) /\ l \in Nat
  BY MaxSeqIsPositive, FS_Interval
<1>2. IsFiniteSet(R)
  BY <1>1, FS_Subset
<1>3. Cardinality(R) \in Nat /\ (Cardinality(R) = 0 <=> R = {})
  BY <1>2, FS_CardinalityType, FS_EmptySet
<1>4. ASSUME R # {}
      PROVE  Min(R) \in 1..l /\ Cardinality(R) - 1 <= l - Min(R)
  <2>1. R \subseteq Nat
    BY <1>1
  <2>2. Min(R) \in R /\ \A y \in R : Min(R) <= y
    BY <1>4, <2>1, SmallestIsMin
  <2>3. Min(R) \in 1..l
    BY <2>2
  <2>6. R \subseteq Min(R)..l
    BY <1>1, <2>2, <2>3
  <2>4. IsFiniteSet(Min(R)..l) /\ Cardinality(Min(R)..l) = l - Min(R) + 1
    BY <1>1, <2>3, FS_Interval
  <2>5. Cardinality(R) <= Cardinality(Min(R)..l)
    BY <2>4, <2>6, FS_Subset
  <2> QED BY <1>1, <1>3, <2>3, <2>4, <2>5
<1> QED BY <1>3, <1>4

-----------------------------------------------------------------------------
(* What a step that changes little keeps of the invariant. *)
LEMMA SameProgress ==
  ASSUME Progress, UNCHANGED <<first, boundary, cursor, upper, options, delivered>>
  PROVE  Progress'
  BY DEF Progress, Latest

LEMMA SameWanted ==
  ASSUME UNCHANGED <<matching, options, created, upper, delivered>>, kept' \subseteq kept,
         NEW s, Wanted(s)'
  PROVE  Wanted(s)
  BY DEF Wanted, Stored

(* The caller keeps its hands off everything but its own request.          *)
LEMMA CallerStays ==
  ASSUME CallerStep
  PROVE  UNCHANGED <<retained, last, stream, changes, horizon, kept, matching,
                     options, sessionDone, harm, failure, told>>
  BY DEF CallerStep, brokerVars, fixedVars

(* Between two answers only the request and the result of the call move.   *)
LEMMA TypesStay ==
  ASSUME InspectTypes,
         UNCHANGED <<retained, last, stream, changes, horizon, kept, matching, options,
                     sessionDone, harm, failure, told>>,
         UNCHANGED <<created, upper, cursor, first, boundary, delivered>>,
         step' \in {"connect", "request", "waiting", "exhausted", "idle"},
         purpose' \in {"open", "get", "end"}, reply' \in Replies,
         life' \in {"opening", "open", "failed", "closed"}, got' \in Results \ {"empty"}
  PROVE  InspectTypes'
<1>1. /\ last' \in 0..MaxSeq /\ retained' \subseteq 1..last' /\ kept' \subseteq retained'
      /\ stream' \in Nat \ {0} /\ matching' \subseteq Seqs' /\ changes' \in Nat
      /\ options' \in Selections
  BY DEF InspectTypes, Seqs
<1>2. /\ created' \in Nat /\ upper' \in 0..MaxSeq /\ cursor' \in 0..MaxSeq
      /\ horizon' \in 0..MaxSeq /\ first' \in BOOLEAN /\ boundary' \in BOOLEAN
      /\ delivered' \in Seq(Records)
  BY DEF InspectTypes
<1>3. /\ sessionDone' \in BOOLEAN /\ failure' \in BOOLEAN
      /\ harm' \in {"none", "late", "early"} /\ told' \in {"no", "due", "yes"}
  BY DEF InspectTypes
<1> QED BY <1>1, <1>2, <1>3 DEF InspectTypes

(* The caller goes from one request to the next, or waits for an answer.   *)
LEMMA MoveKeepsIInv ==
  ASSUME HistoryIInv, CallerStep, UNCHANGED <<historyVars, delivered, life, got>>,
         reply' = Pending, ~Ended, step # "idle" \/ life = "open",
         step' \in {"request", "waiting", "exhausted"},
         purpose' \in {"open", "get", "end"},
         purpose' = "open" <=> life = "opening", step' = "exhausted" => purpose' # "open",
         purpose' = "get" /\ step' # "exhausted" => ~boundary,
         (purpose' = "end" \/ step' = "exhausted") /\ harm = "none"
           => \A s \in Seqs : ~Wanted(s)
  PROVE  HistoryIInv'
<1> USE CallerStays DEF historyVars
<1>1. InspectTypes'
  <2>1. reply' \in Replies
    BY DEF Replies
  <2>2. UNCHANGED <<matching, created, upper, cursor, first, boundary, delivered, life, got>>
    OBVIOUS
  <2>3. step' \in {"connect", "request", "waiting", "exhausted", "idle"}
    OBVIOUS
  <2>4. life' \in {"opening", "open", "failed", "closed"} /\ got' \in Results \ {"empty"}
    BY DEF HistoryIInv, InspectTypes
  <2> QED BY <2>1, <2>2, <2>3, <2>4, TypesStay DEF HistoryIInv
<1>2. Protocol'
  BY ReplyKinds DEF HistoryIInv, Protocol, Ended
<1>3. Progress'
  BY SameProgress DEF HistoryIInv
<1>4. Identity'
  BY ReplyKinds DEF HistoryIInv, Identity, OneStream
<1>5. Honest'
  BY ReplyKinds DEF HistoryIInv, Honest, Latest, Stored
<1>6. Complete'
  BY ReplyKinds, SameWanted DEF HistoryIInv, Complete, Ended
<1> QED BY <1>1, <1>2, <1>3, <1>4, <1>5, <1>6 DEF HistoryIInv

(* An error, or the end. *)
LEMMA FailKeepsIInv ==
  ASSUME HistoryIInv, CallerStep, step # "idle",
         NEW r \in {"failed", "cancelled", "broken", "exhausted"}, Fail(r),
         r = "exhausted" =>
           /\ \A i \in 1..Len(delivered) : delivered[i].stream = created
           /\ harm = "none" => \A s \in Seqs : ~Wanted(s)
  PROVE  HistoryIInv'
<1> USE CallerStays DEF historyVars, Fail, GoTo
<1>r. /\ r \in Results \ {"empty"}
      /\ \/ life' = "failed" /\ got' = got
         \/ life' = life /\ got' = r
  BY DEF Results
<1>1. InspectTypes'
  <2>1. reply' \in Replies
    BY DEF Replies
  <2>2. UNCHANGED <<matching, created, upper, cursor, first, boundary, delivered>>
    OBVIOUS
  <2>3. life' \in {"opening", "open", "failed", "closed"} /\ got' \in Results \ {"empty"}
    BY <1>r DEF HistoryIInv, InspectTypes
  <2>4. /\ step' \in {"connect", "request", "waiting", "exhausted", "idle"}
        /\ purpose' \in {"open", "get", "end"}
    BY DEF HistoryIInv, InspectTypes
  <2> QED BY <2>1, <2>2, <2>3, <2>4, TypesStay DEF HistoryIInv
<1>2. Protocol'
  BY ReplyKinds DEF HistoryIInv, Protocol, Ended
<1>3. Progress'
  BY SameProgress DEF HistoryIInv
<1>4. OneStream'
  <2>1. DOMAIN delivered = 1..Len(delivered)
    BY RecordsDelivered DEF HistoryIInv, InspectTypes
  <2> QED BY <2>1 DEF HistoryIInv, Identity, OneStream
<1>5. Identity'
  BY <1>4, ReplyKinds DEF HistoryIInv, Identity
<1>6. Honest'
  BY ReplyKinds DEF HistoryIInv, Honest, Protocol, Latest, Stored
<1>7. Complete'
  BY ReplyKinds, SameWanted DEF HistoryIInv, Complete, Protocol, Ended
<1> QED BY <1>1, <1>2, <1>3, <1>5, <1>6, <1>7 DEF HistoryIInv

-----------------------------------------------------------------------------
(* The caller, action by action. *)
LEMMA ConnectKeepsIInv == ASSUME HistoryIInv, Connect PROVE HistoryIInv'
<1>1. CASE Fail("failed")
  BY <1>1, FailKeepsIInv DEF Connect
<1>2. CASE Ask("open") /\ UNCHANGED <<historyVars, delivered, life, got>>
  BY <1>2, MoveKeepsIInv DEF Connect, Ask, GoTo, HistoryIInv, Protocol
<1> QED BY <1>1, <1>2 DEF Connect

LEMMA RequestKeepsIInv == ASSUME HistoryIInv, Request PROVE HistoryIInv'
<1>1. CASE failure
  BY <1>1, FailKeepsIInv DEF Request
<1>2. CASE ~failure
  <2>1. /\ step = "request" /\ step' = "waiting" /\ CallerStep
        /\ UNCHANGED <<purpose, reply, historyVars, delivered, life, got>>
    BY <1>2 DEF Request, GoTo
  <2>2. reply = Pending /\ ~Ended /\ (purpose = "open" <=> life = "opening")
        /\ (purpose = "get" => ~boundary) /\ purpose \in {"open", "get", "end"}
        /\ life \in {"opening", "open"}
    BY <2>1 DEF HistoryIInv, Protocol, InspectTypes
  <2>3. purpose = "end" /\ harm = "none" => \A s \in Seqs : ~Wanted(s)
    BY <2>2 DEF HistoryIInv, Complete
  <2> QED BY <2>1, <2>2, <2>3, MoveKeepsIInv
<1> QED BY <1>1, <1>2

LEMMA FailuresKeepIInv == ASSUME HistoryIInv, RequestFails \/ Refused PROVE HistoryIInv'
<1>1. CASE RequestFails
  BY <1>1, FailKeepsIInv DEF RequestFails
<1>2. CASE Refused
  BY <1>2, FailKeepsIInv DEF Refused
<1> QED BY <1>1, <1>2

LEMMA NextKeepsIInv == ASSUME HistoryIInv, Next1 PROVE HistoryIInv'
<1>1. /\ step = "idle" /\ life = "open" /\ ~Ended /\ CallerStep
      /\ UNCHANGED <<historyVars, delivered, life, got>> /\ reply' = Pending
      /\ \/ boundary /\ step' = "exhausted" /\ purpose' = "end"
         \/ ~boundary /\ step' = "request" /\ purpose' = "get"
  BY ReplyKinds DEF Next1, Ask, GoTo, HistoryIInv, Protocol
<1>2. boundary /\ harm = "none" => \A s \in Seqs : ~Wanted(s)
  BY <1>1 DEF HistoryIInv, Complete
<1> QED BY <1>1, <1>2, MoveKeepsIInv

(* The caller has waited for something else than an INFO of OpenHistory.   *)
LEMMA BusyIsOpen ==
  ASSUME HistoryIInv, step # "idle", purpose # "open"
  PROVE  life = "open" /\ ~Ended
  BY DEF HistoryIInv, Protocol

LEMMA ExhaustedKeepsIInv == ASSUME HistoryIInv, GotNothing \/ Exhausted PROVE HistoryIInv'
<1>1. CASE GotNothing
  <2>1. /\ step = "waiting" /\ purpose = "get" /\ reply = Nothing /\ step' = "exhausted"
        /\ reply' = Pending /\ CallerStep
        /\ UNCHANGED <<purpose, historyVars, delivered, life, got>>
    BY <1>1, ReplyKinds DEF GotNothing, Answered, GoTo, HistoryIInv, InspectTypes
  <2>2. life = "open" /\ ~Ended
    BY <2>1, BusyIsOpen
  <2>3. harm = "none" => \A s \in Seqs : ~Wanted(s)
    BY <2>1, <2>2 DEF HistoryIInv, Complete
  <2> QED BY <2>1, <2>2, <2>3, MoveKeepsIInv
<1>2. CASE Exhausted
  <2>1. purpose # "open" /\ step = "exhausted" /\ CallerStep
    BY <1>2 DEF Exhausted, HistoryIInv, Protocol
  <2>2. life = "open" /\ ~Ended
    BY <2>1, BusyIsOpen
  <2>3. harm = "none" => \A s \in Seqs : ~Wanted(s)
    BY <2>1, <2>2 DEF HistoryIInv, Complete
  <2>4. CASE sessionDone
    BY <1>2, <2>1, <2>4, FailKeepsIInv DEF Exhausted
  <2>5. CASE ~sessionDone
    BY <1>2, <2>1, <2>2, <2>3, <2>5, MoveKeepsIInv DEF Exhausted, Ask, GoTo
  <2> QED BY <2>4, <2>5
<1> QED BY <1>1, <1>2

(* An inspection that is exhausted has seen one stream from INFO to INFO.  *)
LEMMA EndKeepsIInv == ASSUME HistoryIInv, End PROVE HistoryIInv'
<1>1. /\ step = "waiting" /\ purpose = "end" /\ reply.kind = "info" /\ CallerStep
  BY DEF End, Answered
<1>2. life = "open" /\ ~Ended
  BY <1>1, BusyIsOpen
<1>3. harm = "none" => \A s \in Seqs : ~Wanted(s)
  BY <1>1, <1>2 DEF HistoryIInv, Complete
<1>4. ASSUME ~Replaced
      PROVE  \A i \in 1..Len(delivered) : delivered[i].stream = created
  <2> SUFFICES ASSUME NEW i \in 1..Len(delivered) PROVE delivered[i].stream = created
    OBVIOUS
  <2>1. delivered[i].stream \in created..stream /\ delivered[i].stream <= created
    BY <1>1, <1>4 DEF HistoryIInv, Identity, Replaced
  <2>2. created \in Nat /\ stream \in Nat
    BY DEF HistoryIInv, InspectTypes
  <2> QED BY <2>1, <2>2
<1>5. PICK r \in {"failed", "cancelled", "broken", "exhausted"} :
        Fail(r) /\ (r = "exhausted" => ~Replaced)
  BY DEF End
<1> QED BY <1>1, <1>3, <1>4, <1>5, FailKeepsIInv

(* An INFO fixes the range. *)
LEMMA OpenedKeepsIInv == ASSUME HistoryIInv, Opened PROVE HistoryIInv'
<1>1. /\ step = "waiting" /\ purpose = "open" /\ reply.kind = "info" /\ CallerStep
  BY DEF Opened, Answered
<1>2. CASE ~Possible(reply) \/ failure \/ sessionDone
  BY <1>1, <1>2, FailKeepsIInv DEF Opened
<1>3. CASE ~(~Possible(reply) \/ failure \/ sessionDone)
  <2>1. /\ created' = reply.created /\ upper' = UpperBound
        /\ boundary' = (reply.messages = 0 \/ UpperBound = 0 \/ cursor > UpperBound)
        /\ life' = "open" /\ step' = "idle" /\ reply' = Pending
        /\ UNCHANGED <<purpose, cursor, first, delivered, got>>
    BY <1>3 DEF Opened, GoTo
  <2>2. UNCHANGED <<retained, last, stream, changes, horizon, kept, matching,
                    options, sessionDone, harm, failure, told>>
    BY <1>1, CallerStays
  <2>3. life = "opening" /\ delivered = <<>> /\ got = "none" /\ first /\ cursor = options.start
    BY <1>1 DEF HistoryIInv, Protocol, Progress
  <2>4. reply \in Infos
    BY <1>1, ReplyKinds DEF HistoryIInv, InspectTypes
  <2>5. /\ options.start \in 0..MaxSeq /\ options.end \in 0..MaxSeq /\ MaxSeq \in Nat
    BY MaxSeqIsPositive, SelectionsAreSelected DEF HistoryIInv, InspectTypes
  <2>6. /\ upper' \in 0..MaxSeq /\ upper' <= reply.last
        /\ options.end > 0 => upper' <= options.end
    BY <2>1, <2>4, <2>5 DEF UpperBound, Infos
  <2>7. InspectTypes'
    BY <2>1, <2>2, <2>4, <2>6 DEF HistoryIInv, InspectTypes, Infos, Replies
  <2>8. Protocol'
    BY <1>1, <2>1, <2>2, <2>3, ReplyKinds DEF HistoryIInv, Protocol, Ended
  <2>9. Len(delivered) = 0
    BY <2>3
  <2>10. Progress'
    BY <2>1, <2>2, <2>3, <2>6, <2>9 DEF Progress
  <2>11. Identity'
    BY <1>1, <2>1, <2>2, <2>3, <2>9, ReplyKinds DEF HistoryIInv, Identity, OneStream
  <2>12. Honest'
    BY <1>1, <2>1, <2>2, <2>3, <2>4, <2>5, <2>6, ReplyKinds
       DEF HistoryIInv, InspectTypes, Honest, Infos
  <2>13. Complete'
    <3> SUFFICES ASSUME harm = "none", NEW s \in Seqs, Wanted(s)'
                 PROVE  ~boundary' /\ s >= cursor'
      BY <1>1, <2>1, <2>2, <2>3, ReplyKinds DEF Complete
    <3>1. s \in kept /\ s \in options.start..upper'
      BY <2>2 DEF Wanted
    <3>2. reply.messages # 0
      BY <1>1, <2>2, <3>1 DEF HistoryIInv, Honest
    <3>3. s >= cursor /\ s >= 1 /\ s <= UpperBound /\ UpperBound \in 0..MaxSeq
      BY <2>1, <2>3, <2>5, <2>6, <3>1 DEF Seqs
    <3>4. ~(UpperBound = 0) /\ ~(cursor > UpperBound)
      BY <2>3, <2>5, <3>3 DEF Seqs
    <3> QED BY <2>1, <3>2, <3>3, <3>4
  <2> QED BY <2>7, <2>8, <2>10, <2>11, <2>12, <2>13 DEF HistoryIInv
<1> QED BY <1>2, <1>3

(* A message goes to the end of what is delivered, and the cursor behind   *)
(* it.                                                                     *)
LEMMA RecordKeepsIInv ==
  ASSUME HistoryIInv, Got, Valid(reply), ~Beyond(reply), got' = "message", step' = "idle"
  PROVE  HistoryIInv'
<1> DEFINE m == reply.seq
           n == Len(delivered)
<1>1. /\ step = "waiting" /\ purpose = "get" /\ reply.kind = "message" /\ CallerStep
      /\ Advance(reply.seq) /\ first' = FALSE /\ reply' = Pending
      /\ delivered' = Append(delivered, [stream |-> reply.stream, seq |-> reply.seq])
      /\ UNCHANGED <<purpose, created, upper, life>>
  BY ReplyKinds DEF Got, Answered, Fail, GoTo
<1>2. UNCHANGED <<retained, last, stream, changes, horizon, kept, matching,
                  options, sessionDone, harm, failure, told>>
  BY <1>1, CallerStays
<1>3. life = "open" /\ ~Ended /\ ~boundary
  BY <1>1, BusyIsOpen DEF HistoryIInv, Protocol
<1>4. /\ reply \in Messages /\ m \in 1..MaxSeq /\ m >= cursor /\ m <= upper
      /\ cursor \in 0..MaxSeq /\ upper \in 0..MaxSeq /\ MaxSeq \in Nat
      /\ options.start \in 0..MaxSeq
  BY <1>1, MaxSeqIsPositive, ReplyKinds, SelectionsAreSelected
     DEF HistoryIInv, InspectTypes, Valid, Beyond, Messages
<1>5. boundary' = (m = upper) /\ cursor' = IF m = upper THEN cursor ELSE m + 1
  <2>1. m # upper => m + 1 \in Nat /\ m + 1 <= MaxSeq
    BY <1>4
  <2>2. m # upper => (m + 1) % (MaxSeq + 1) = m + 1
    BY <2>1, NoWrap
  <2> QED BY <1>1, <2>2 DEF Advance
<1>6. /\ n \in Nat /\ DOMAIN delivered = 1..n
      /\ \A i \in 1..n : delivered[i].seq \in 1..MaxSeq
      /\ delivered # <<>> <=> n > 0
  BY RecordsDelivered DEF HistoryIInv, InspectTypes
<1>7. [stream |-> reply.stream, seq |-> reply.seq] \in Records
  BY <1>4 DEF Messages, Records
<1>8. /\ delivered' \in Seq(Records) /\ delivered' # <<>> /\ Len(delivered') = n + 1
      /\ \A i \in 1..n : delivered'[i] = delivered[i]
      /\ delivered'[n + 1].seq = m /\ delivered'[n + 1].stream = reply.stream
  BY <1>1, <1>7, AppendProperties DEF HistoryIInv, InspectTypes
<1> HIDE DEF m, n
<1>9. InspectTypes'
  <2>1. cursor' \in 0..MaxSeq /\ boundary' \in BOOLEAN
    BY <1>4, <1>5
  <2>2. got' \in Results \ {"empty"} /\ reply' \in Replies
    BY <1>1 DEF Results, Replies
  <2> QED BY <1>1, <1>2, <1>8, <2>1, <2>2 DEF HistoryIInv, InspectTypes
<1>10. Protocol'
  BY <1>1, <1>2, <1>3, ReplyKinds DEF Protocol, Ended
<1>11. \A i \in 1..n : delivered[i].seq < m
  <2> SUFFICES ASSUME NEW i \in 1..n PROVE delivered[i].seq < m
    OBVIOUS
  <2>1. Latest.seq = cursor - 1
    BY <1>3, <1>6 DEF HistoryIInv, Progress
  <2>2. n \in 1..n /\ Latest = delivered[n]
    BY <1>6 DEF Latest, n
  <2>3. delivered[i].seq <= delivered[n].seq
    BY <1>6, <2>2 DEF HistoryIInv, Progress, n
  <2> QED BY <1>4, <1>6, <2>1, <2>2, <2>3
<1>12. m >= options.start
  <2>1. CASE first
    BY <1>4, <2>1 DEF HistoryIInv, Progress
  <2>2. CASE ~first
    <3>1. 1 \in 1..n /\ delivered[1].seq >= options.start
      BY <1>4, <1>6, <2>2 DEF HistoryIInv, Progress, n
    <3> QED BY <1>4, <1>6, <1>11, <3>1
  <2> QED BY <2>1, <2>2
<1>13. Progress'
  <2>1. Latest' = delivered'[n + 1]
    BY <1>8 DEF Latest
  <2>2. (~first)' /\ Latest'.seq = IF boundary' THEN upper' ELSE cursor' - 1
    <3>1. m = IF m = upper THEN upper ELSE (m + 1) - 1
      BY <1>4
    <3> QED BY <1>1, <1>5, <1>8, <2>1, <3>1
  <2>3. \A i, j \in 1..(n + 1) : i < j => delivered'[i].seq < delivered'[j].seq
    <3> SUFFICES ASSUME NEW i \in 1..(n + 1), NEW j \in 1..(n + 1), i < j
                 PROVE  delivered'[i].seq < delivered'[j].seq
      OBVIOUS
    <3>1. i \in 1..n
      BY <1>6
    <3>2. CASE j = n + 1
      BY <1>8, <1>11, <3>1, <3>2
    <3>3. CASE j # n + 1
      <4>1. j \in 1..n
        BY <1>6, <3>3
      <4> QED BY <1>8, <3>1, <4>1 DEF HistoryIInv, Progress, n
    <3> QED BY <3>2, <3>3
  <2>4. \A i \in 1..(n + 1) : delivered'[i].seq \in options.start..upper
    <3> SUFFICES ASSUME NEW i \in 1..(n + 1)
                 PROVE  delivered'[i].seq \in options.start..upper
      OBVIOUS
    <3>1. CASE i = n + 1
      BY <1>4, <1>8, <1>12, <3>1
    <3>2. CASE i # n + 1
      <4>1. i \in 1..n
        BY <1>6, <3>2
      <4> QED BY <1>8, <4>1 DEF HistoryIInv, Progress, n
    <3> QED BY <3>1, <3>2
  <2> QED BY <1>1, <1>2, <1>8, <2>2, <2>3, <2>4 DEF HistoryIInv, Progress
<1>14. Identity'
  <2>1. \A i \in 1..(n + 1) : delivered'[i].stream \in created..stream
    <3> SUFFICES ASSUME NEW i \in 1..(n + 1)
                 PROVE  delivered'[i].stream \in created..stream
      OBVIOUS
    <3>1. CASE i = n + 1
      BY <1>1, <1>8, <3>1 DEF HistoryIInv, Identity
    <3>2. CASE i # n + 1
      <4>1. i \in 1..n
        BY <1>6, <3>2
      <4> QED BY <1>8, <4>1 DEF HistoryIInv, Identity, n
    <3> QED BY <3>1, <3>2
  <2> QED BY <1>1, <1>2, <1>8, <2>1, ReplyKinds DEF HistoryIInv, Identity, OneStream
<1>15. Honest'
  <2>1. Latest' = delivered'[n + 1]
    BY <1>8 DEF Latest
  <2>2. harm = "none" => Stored(1, m) >= options.from
    BY <1>1 DEF HistoryIInv, Honest, m
  <2> QED BY <1>1, <1>2, <1>8, <2>1, <2>2, ReplyKinds DEF HistoryIInv, Honest, Stored
<1>16. Complete'
  <2> SUFFICES ASSUME harm = "none", NEW s \in Seqs, Wanted(s)'
               PROVE  ~boundary' /\ s >= cursor'
    BY <1>1, <1>2, <1>3, ReplyKinds DEF Complete
  <2>1. n + 1 \in 1..(n + 1) /\ \A i \in 1..n : i \in 1..(n + 1)
    BY <1>6
  <2>2. Wanted(s) /\ s # m
    BY <1>1, <1>2, <1>8, <2>1 DEF Wanted, Stored, n
  <2>3. s >= m /\ s <= upper /\ s \in Nat
    BY <1>1, <1>2, <1>3, <2>2 DEF HistoryIInv, Complete, Wanted, Seqs, m
  <2>4. m # upper /\ s >= m + 1
    BY <1>4, <2>2, <2>3
  <2> QED BY <1>5, <2>4
<1> QED BY <1>9, <1>10, <1>13, <1>14, <1>15, <1>16 DEF HistoryIInv

LEMMA GotKeepsIInv == ASSUME HistoryIInv, Got PROVE HistoryIInv'
<1>1. step = "waiting" /\ purpose = "get" /\ reply.kind = "message" /\ CallerStep
  BY DEF Got, Answered
<1>2. life = "open" /\ ~Ended
  BY <1>1, BusyIsOpen
<1>3. CASE ~Valid(reply) /\ Fail("broken")
  BY <1>1, <1>3, FailKeepsIInv
<1>4. CASE Valid(reply) /\ Beyond(reply)
  <2>1. /\ step' = "exhausted" /\ reply' = Pending
        /\ UNCHANGED <<purpose, historyVars, delivered, life, got>>
    BY <1>4 DEF Got, GoTo
  <2>2. upper \in Nat /\ reply.seq \in Nat /\ reply.seq > upper
    BY <1>1, <1>4, ReplyKinds, MaxSeqIsPositive DEF HistoryIInv, InspectTypes, Beyond, Messages
  <2>3. harm = "none" => \A s \in Seqs : ~Wanted(s)
    <3> SUFFICES ASSUME harm = "none", NEW s \in Seqs, Wanted(s) PROVE FALSE
      OBVIOUS
    <3>1. s >= reply.seq /\ s <= upper /\ s \in Nat
      BY <1>1, <1>2 DEF HistoryIInv, Complete, Wanted, Seqs
    <3> QED BY <2>2, <3>1
  <2> QED BY <1>1, <1>2, <2>1, <2>3, MoveKeepsIInv
<1>5. CASE Valid(reply) /\ ~Beyond(reply)
  BY <1>5, RecordKeepsIInv DEF Got, GoTo
<1> QED BY <1>3, <1>4, <1>5 DEF Got

-----------------------------------------------------------------------------
(* What happens below: the stream changes, the adapter has trouble, the    *)
(* caller closes the session.                                              *)
LEMMA WorldKeepsIInv ==
  ASSUME HistoryIInv, OthersStay, UNCHANGED <<got, horizon>>, InspectTypes',
         stream' >= stream, kept' \subseteq kept,
         harm' = "none" => harm = "none" /\ stream' = stream,
         \/ life' = life
         \/ step = "idle" /\ life = "open" /\ life' = "closed"
  PROVE  HistoryIInv'
<1> USE DEF OthersStay, historyVars, askVars, fixedVars
<1>1. Protocol'
  BY DEF HistoryIInv, Protocol, Ended
<1>2. Progress'
  BY SameProgress DEF HistoryIInv
<1>3. Identity'
  <2>1. /\ stream \in Nat /\ stream' \in Nat /\ created \in Nat
        /\ created <= stream /\ stream <= stream'
    BY DEF HistoryIInv, InspectTypes, Identity
  <2>2. \A q \in created..stream : q \in created..stream'
    BY <2>1
  <2>3. reply.kind = "info" => reply.created \in Nat
    BY ReplyKinds DEF HistoryIInv, InspectTypes, Infos
  <2>4. reply.kind = "info" => reply.created <= stream'
    BY <2>1, <2>3 DEF HistoryIInv, Identity
  <2>5. created <= stream'
    BY <2>1
  <2> QED BY <2>2, <2>4, <2>5 DEF HistoryIInv, Identity, OneStream
<1>4. Honest'
  <2> SUFFICES ASSUME harm' = "none" PROVE Honest'
    BY DEF Honest
  <2>1. (reply.kind = "info" => Possible(reply)) => (reply'.kind = "info" => Possible(reply)')
    BY DEF Possible
  <2>2. (reply.kind = "message" => Valid(reply)) => (reply'.kind = "message" => Valid(reply)')
    BY DEF Valid
  <2>3. kept = {} => kept' = {}
    OBVIOUS
  <2>4. Stored(1, reply.seq)' = Stored(1, reply.seq) /\ Stored(1, Latest.seq)' = Stored(1, Latest.seq)
    BY DEF Stored, Latest
  <2> QED BY <2>1, <2>2, <2>3, <2>4 DEF HistoryIInv, Honest
<1>5. Complete'
  <2>1. \A s : Wanted(s)' => Wanted(s)
    BY SameWanted
  <2> QED BY <2>1 DEF HistoryIInv, Complete, Protocol, Ended
<1> QED BY <1>1, <1>2, <1>3, <1>4, <1>5 DEF HistoryIInv

LEMMA StreamKeepsIInv == ASSUME HistoryIInv, Publish \/ Remove \/ Replace PROVE HistoryIInv'
<1> USE DEF Changed, OthersStay, historyVars, askVars, fixedVars, sessionVars
<1>n. /\ MaxSeq \in Nat /\ last \in 0..MaxSeq /\ stream \in Nat \ {0} /\ changes \in Nat
      /\ retained \subseteq 1..last /\ kept \subseteq retained
  BY MaxSeqIsPositive DEF HistoryIInv, InspectTypes
<1>1. CASE Publish
  <2>1. last' \in 0..MaxSeq /\ changes' \in Nat /\ retained' \subseteq 1..last' /\ kept' \subseteq retained'
    BY <1>n, <1>1 DEF Publish
  <2>2. InspectTypes'
    BY <1>1, <2>1 DEF Publish, HistoryIInv, InspectTypes
  <2> QED BY <1>n, <1>1, <2>2, WorldKeepsIInv DEF Publish
<1>2. CASE Remove
  <2>g. PICK gone \in SUBSET retained \ {{}} : retained' = retained \ gone /\ kept' = kept \ gone
    BY <1>2 DEF Remove
  <2>c. changes' \in Nat /\ last' = last
    BY <1>n, <1>2 DEF Remove
  <2>1. /\ changes' \in Nat /\ retained' \subseteq 1..last'
        /\ kept' \subseteq retained' /\ kept' \subseteq kept
    BY <1>n, <2>g, <2>c
  <2>2. InspectTypes'
    BY <1>2, <2>1 DEF Remove, HistoryIInv, InspectTypes
  <2> QED BY <1>n, <1>2, <2>1, <2>2, WorldKeepsIInv DEF Remove
<1>3. CASE Replace
  <2>1. /\ last' \in 0..MaxSeq /\ changes' \in Nat /\ retained' \subseteq 1..last'
        /\ kept' \subseteq retained' /\ kept' \subseteq kept /\ stream' \in Nat \ {0}
        /\ stream' >= stream /\ harm' \in {"late", "early"}
    BY <1>n, <1>3 DEF Replace, Late
  <2>2. InspectTypes'
    BY <1>3, <2>1 DEF Replace, HistoryIInv, InspectTypes
  <2> QED BY <1>3, <2>1, <2>2, WorldKeepsIInv DEF Replace
<1> QED BY <1>1, <1>2, <1>3

LEMMA SessionKeepsIInv == ASSUME HistoryIInv, Adapter \/ Close PROVE HistoryIInv'
<1> USE DEF OthersStay, brokerVars, historyVars, askVars, fixedVars
<1>n. stream \in Nat
  BY DEF HistoryIInv, InspectTypes
<1>1. CASE Adapter
  <2>s. /\ sessionDone' \in BOOLEAN /\ failure' \in BOOLEAN
        /\ harm' \in {"none", "late", "early"} /\ told' \in {"no", "due", "yes"}
        /\ life' = life /\ got' = got
    BY <1>1 DEF Adapter, HistoryIInv, InspectTypes, SessionEnds, Suffer, Latch, Tell
  <2>1. InspectTypes'
    BY <1>1, <2>s DEF Adapter, HistoryIInv, InspectTypes
  <2>2. UNCHANGED <<got, life>> /\ (harm' = "none" => harm = "none")
    BY <1>1 DEF Adapter, SessionEnds, Suffer, Latch, Tell
  <2> QED BY <1>n, <1>1, <2>1, <2>2, WorldKeepsIInv DEF Adapter
<1>2. CASE Close
  <2>1. InspectTypes'
    BY <1>2 DEF Close, CloseReturns, HistoryIInv, InspectTypes
  <2> QED BY <1>n, <1>2, <2>1, WorldKeepsIInv DEF Close, CloseReturns
<1> QED BY <1>1, <1>2

-----------------------------------------------------------------------------
(* What the honest broker looks through holds all that is wanted, and      *)
(* nothing that was not asked for.                                         *)
LEMMA HonestGet ==
  ASSUME HistoryIInv, harm = "none", step = "waiting", purpose = "get"
  PROVE  /\ Asked \cap matching \subseteq 1..MaxSeq
         /\ \A s \in Seqs : Wanted(s) => s \in Asked \cap matching
         /\ \A s \in Asked \cap matching : s >= cursor /\ Stored(1, s) >= options.from
<1>1. life = "open" /\ ~Ended /\ ~boundary /\ created = 1 /\ stream = 1
  BY BusyIsOpen DEF HistoryIInv, Protocol, Honest
<1>2. /\ MaxSeq \in Nat /\ last \in 0..MaxSeq /\ retained \subseteq 1..last
      /\ kept \subseteq retained /\ cursor \in 0..MaxSeq
      /\ options.from \in Nat /\ options.start \in 0..MaxSeq
      /\ options.from # NoTime => options.start = 0
  BY MaxSeqIsPositive, SelectionsAreSelected DEF HistoryIInv, InspectTypes
<1>3. \A s \in retained : s \in Nat /\ s \in 1..MaxSeq
  BY <1>2
<1>4. Asked \cap matching \subseteq 1..MaxSeq
  BY <1>3 DEF Asked
<1>5. ASSUME NEW s \in Seqs, Wanted(s) PROVE s \in Asked \cap matching
  <2>1. s \in retained /\ s \in matching /\ s >= cursor /\ Stored(stream, s) >= options.from
    BY <1>1, <1>2, <1>5 DEF HistoryIInv, Complete, Wanted
  <2> QED BY <2>1 DEF Asked
<1>6. ASSUME NEW s \in Asked \cap matching PROVE s >= cursor /\ Stored(1, s) >= options.from
  <2>s. s \in Nat
    BY <1>4, <1>6
  <2>1. CASE first /\ options.from # NoTime
    <3>1. Stored(1, s) >= options.from
      BY <1>1, <2>1 DEF Asked
    <3>2. cursor = 0
      BY <1>2, <2>1 DEF HistoryIInv, Progress
    <3> QED BY <2>s, <3>1, <3>2
  <2>2. CASE ~(first /\ options.from # NoTime)
    <3>1. s >= cursor
      BY <2>2 DEF Asked
    <3>2. CASE first
      <4>1. options.from = 0
        BY <2>2, <3>2 DEF NoTime
      <4>2. Stored(1, s) \in Nat
        BY <2>s, StoredGrows
      <4> QED BY <3>1, <4>1, <4>2
    <3>3. CASE ~first
      <4>1. Latest.seq = cursor - 1 /\ Stored(1, Latest.seq) >= options.from
        BY <1>1, <3>3 DEF HistoryIInv, Progress, Honest
      <4>2. Latest.seq \in Nat
        <5>1. Len(delivered) \in 1..Len(delivered)
          BY <3>3, RecordsDelivered DEF HistoryIInv, InspectTypes, Progress
        <5> QED BY <5>1, RecordsDelivered DEF HistoryIInv, InspectTypes, Latest
      <4>3. Latest.seq <= s
        BY <1>2, <2>s, <3>1, <4>1, <4>2
      <4>4. Stored(1, Latest.seq) <= Stored(1, s) /\ Stored(1, Latest.seq) \in Nat /\ Stored(1, s) \in Nat
        BY <2>s, <4>2, <4>3, StoredGrows
      <4> QED BY <1>2, <3>1, <4>1, <4>4
    <3> QED BY <3>2, <3>3
  <2> QED BY <2>1, <2>2
<1> QED BY <1>4, <1>5, <1>6

(* The true answer to an INFO is a possible one. *)
LEMMA TrueInfoIsPossible ==
  ASSUME HistoryIInv
  PROVE  /\ TrueInfo \in Infos /\ Possible(TrueInfo) /\ TrueInfo.created = stream
         /\ TrueInfo.last = last /\ (TrueInfo.messages = 0 => retained = {})
<1> DEFINE lo == IF retained # {} THEN Min(retained)
                 ELSE IF last = 0 THEN 0 ELSE (last + 1) % (MaxSeq + 1)
<1>1. /\ MaxSeq \in Nat \ {0} /\ last \in 0..MaxSeq /\ retained \subseteq 1..last /\ stream \in Nat
  BY MaxSeqIsPositive DEF HistoryIInv, InspectTypes
<1>2. TrueInfo = [kind |-> "info", created |-> stream, messages |-> Cardinality(retained),
                  first |-> lo, last |-> last]
  BY DEF TrueInfo, Info
<1>3. /\ Cardinality(retained) \in Nat /\ (Cardinality(retained) = 0 <=> retained = {})
      /\ retained # {} => Min(retained) \in 1..last /\ Cardinality(retained) - 1 <= last - Min(retained)
  BY <1>1, TrueRangeIsPossible
<1>4. CASE retained # {}
  <2>1. lo \in 1..last /\ Cardinality(retained) > 0
        /\ Cardinality(retained) - 1 <= last - lo
    BY <1>3, <1>4
  <2>2. lo \in 0..MaxSeq /\ lo # 0 /\ lo <= last
    BY <1>1, <2>1
  <2> HIDE DEF lo
  <2> QED BY <1>1, <1>2, <1>3, <1>4, <2>1, <2>2 DEF Infos, Possible
<1>5. CASE retained = {}
  <2>1. lo \in 0..MaxSeq /\ (lo # 0 => last # MaxSeq /\ lo = last + 1)
    <3>1. CASE last = 0
      BY <1>1, <1>5, <3>1
    <3>2. CASE last = MaxSeq /\ last # 0
      BY <1>1, <1>5, <3>2
    <3>3. CASE last # MaxSeq /\ last # 0
      <4>1. last + 1 \in Nat /\ last + 1 <= MaxSeq
        BY <1>1, <3>3
      <4> QED BY <1>5, <3>3, <4>1, NoWrap
    <3> QED BY <3>1, <3>2, <3>3
  <2>2. Cardinality(retained) = 0
    BY <1>3, <1>5
  <2> HIDE DEF lo
  <2> QED BY <1>1, <1>2, <1>5, <2>1, <2>2 DEF Infos, Possible
<1> QED BY <1>4, <1>5

(* The answer of the broker, true or not. *)
LEMMA AnswerKeepsIInv == ASSUME HistoryIInv, Answer PROVE HistoryIInv'
<1> DEFINE found == Asked \cap matching
<1>1. /\ step = "waiting" /\ reply = Pending
      /\ UNCHANGED <<retained, last, stream, changes, historyVars, step, purpose,
                     fixedVars, delivered, sessionDone, life, failure, told, got>>
      /\ IF purpose = "open" THEN kept' = retained /\ horizon' = last
                             ELSE UNCHANGED <<kept, horizon>>
  BY DEF Answer
<1> USE DEF historyVars, fixedVars
<1>2. \/ harm' = harm /\ purpose = "get" /\ reply' = TrueGet
      \/ harm' = harm /\ purpose # "get" /\ reply' = TrueInfo
      \/ harm' \in {"late", "early"} /\ reply' \in {Refusal, Lost}
      \/ harm' \in {"late", "early"} /\ purpose = "get" /\ reply' \in Lies
  BY DEF Answer, Late
<1>3. /\ TrueInfo \in Infos /\ Possible(TrueInfo) /\ TrueInfo.created = stream
      /\ TrueInfo.last = last /\ (TrueInfo.messages = 0 => retained = {})
  BY TrueInfoIsPossible
<1>n. /\ MaxSeq \in Nat /\ stream \in Nat /\ last \in 0..MaxSeq /\ retained \subseteq 1..last
      /\ created \in Nat /\ created <= stream /\ found \subseteq Nat /\ found \subseteq 1..MaxSeq
      /\ kept \subseteq retained /\ horizon \in 0..MaxSeq
  <2>1. /\ MaxSeq \in Nat /\ stream \in Nat /\ last \in 0..MaxSeq /\ retained \subseteq 1..last
        /\ created \in Nat /\ created <= stream
        /\ kept \subseteq retained /\ horizon \in 0..MaxSeq
    BY MaxSeqIsPositive DEF HistoryIInv, InspectTypes, Identity
  <2>2. found \subseteq retained
    BY DEF Asked
  <2> HIDE DEF found
  <2>3. retained \subseteq 1..MaxSeq /\ retained \subseteq Nat
    BY <2>1
  <2>4. found \subseteq 1..MaxSeq /\ found \subseteq Nat
    BY <2>2, <2>3
  <2> QED BY <2>1, <2>4
<1>4. found # {} => Min(found) \in found /\ \A s \in found : Min(found) <= s
  BY <1>n, SmallestIsMin
<1>5. /\ found = {} => TrueGet = Nothing
      /\ found # {} => TrueGet = Message(Min(found), TRUE, Stored(stream, Min(found)) >= options.from)
  BY DEF TrueGet
<1>6. TrueGet = Nothing \/ (TrueGet \in Messages /\ TrueGet.stream = stream)
  <2>1. found # {} => Min(found) \in 0..MaxSeq
    BY <1>n, <1>4
  <2>2. (Stored(stream, Min(found)) >= options.from) \in BOOLEAN
    OBVIOUS
  <2> HIDE DEF found
  <2>3. CASE found = {}
    BY <1>5, <2>3
  <2>4. CASE found # {}
    <3> DEFINE timely == Stored(stream, Min(found)) >= options.from
               least  == Min(found)
    <3>1. TrueGet = Message(least, TRUE, timely) /\ timely \in BOOLEAN /\ least \in 0..MaxSeq
      BY <1>5, <2>1, <2>2, <2>4
    <3> HIDE DEF timely, least
    <3> QED BY <1>n, <3>1 DEF Message, Messages
  <2> QED BY <2>3, <2>4
<1>7. \A r \in Lies : r \in Messages /\ r.stream = stream
  BY <1>n DEF Lies, Message, Messages
<1>8. /\ reply' \in Replies
      /\ reply'.kind = "message" \/ reply' = Nothing => purpose = "get"
      /\ reply'.kind = "message" => reply'.stream = stream
      /\ reply'.kind = "info" => reply' = TrueInfo /\ purpose # "get"
      /\ harm' \in {"none", "late", "early"}
      /\ harm' = "none" => harm = "none" /\ reply' \notin {Lost, Refusal}
      /\ harm' = "none" /\ purpose = "get" => reply' = TrueGet
  BY <1>2, <1>3, <1>6, <1>7, ReplyKinds DEF HistoryIInv, InspectTypes, Replies
<1>9. InspectTypes'
  BY <1>1, <1>8, <1>n DEF HistoryIInv, InspectTypes
<1>10. Protocol'
  BY <1>1, <1>8, ReplyKinds DEF HistoryIInv, Protocol, Ended
<1>11. Progress'
  BY <1>1, SameProgress DEF HistoryIInv
<1>12. Identity'
  <2>1. \A i \in 1..Len(delivered) : delivered[i].stream <= stream
    BY <1>n DEF HistoryIInv, Identity
  <2>2. reply'.kind = "message" => reply'.stream \in created..stream
    BY <1>8, <1>n
  <2>3. reply'.kind = "info" => reply'.created = stream /\ stream <= stream
    BY <1>3, <1>8, <1>n
  <2> QED BY <1>1, <2>1, <2>2, <2>3 DEF HistoryIInv, Identity, OneStream
<1>o. purpose = "open" => life = "opening"
  BY <1>1 DEF HistoryIInv, Protocol
<1>13. Honest'
  <2> SUFFICES ASSUME harm' = "none" PROVE Honest'
    BY DEF Honest
  <2>1. harm = "none" /\ stream = 1 /\ (~first => Stored(1, Latest.seq) >= options.from)
        /\ (life \in {"open", "closed"} => created = 1 /\ upper <= horizon)
    BY <1>8 DEF HistoryIInv, Honest
  <2>2. ASSUME reply'.kind = "info"
        PROVE  /\ reply'.created = 1 /\ Possible(reply)'
               /\ purpose = "open" => reply'.last = horizon' /\ (reply'.messages = 0 => kept' = {})
    <3>1. reply' = TrueInfo
      BY <1>8, <2>2
    <3>2. Possible(reply)'
      BY <1>3, <3>1 DEF Possible
    <3> QED BY <1>1, <1>3, <2>1, <3>1, <3>2
  <2>3. ASSUME reply'.kind = "message"
        PROVE  Valid(reply)' /\ Stored(1, reply.seq)' >= options.from
    <3>1. purpose = "get" /\ reply' = TrueGet /\ found # {}
      BY <1>5, <1>8, <2>3, ReplyKinds
    <3>2. /\ reply'.match = TRUE /\ reply'.seq = Min(found)
          /\ reply'.timely = (Stored(stream, Min(found)) >= options.from)
      BY <1>5, <3>1 DEF Message
    <3>3. Min(found) \in 1..MaxSeq /\ Min(found) >= cursor /\ Stored(1, Min(found)) >= options.from
      BY <1>1, <1>4, <2>1, <3>1, HonestGet
    <3>4. Min(found) # 0
      BY <3>3, <1>n
    <3> QED BY <1>1, <2>1, <3>2, <3>3, <3>4 DEF Valid, Stored
  <2>4. Stored(1, Latest.seq)' = Stored(1, Latest.seq)
    BY <1>1 DEF Stored, Latest
  <2> QED BY <1>1, <1>8, <1>o, <2>1, <2>2, <2>3, <2>4 DEF Honest
<1>14. Complete'
  <2> SUFFICES ASSUME harm' = "none", life' \in {"open", "closed"}, NEW s \in Seqs, Wanted(s)'
               PROVE  /\ got # "exhausted"
                      /\ ~Ended => /\ ~boundary /\ s >= cursor /\ purpose # "end"
                                   /\ reply' # Nothing
                                   /\ reply'.kind = "message" => s >= reply'.seq
    BY <1>1 DEF Complete, Ended
  <2>1. harm = "none" /\ life \in {"open", "closed"} /\ kept' = kept
    BY <1>1, <1>8, <1>o
  <2>2. Wanted(s)
    BY <1>1, <2>1, SameWanted
  <2>3. ASSUME reply'.kind = "message" \/ reply' = Nothing
        PROVE  reply' # Nothing /\ s >= reply'.seq
    <3>1. purpose = "get" /\ reply' = TrueGet
      BY <1>8, <2>3
    <3>2. s \in found /\ s \in Nat
      BY <1>1, <1>n, <2>1, <2>2, <3>1, HonestGet
    <3>3. reply'.kind = "message" /\ reply'.seq = Min(found)
      BY <1>5, <3>1, <3>2 DEF Message
    <3>4. Min(found) \in Nat /\ Min(found) <= s
      BY <1>4, <1>n, <3>2
    <3> QED BY <3>2, <3>3, <3>4, ReplyKinds
  <2> QED BY <2>1, <2>2, <2>3 DEF HistoryIInv, Complete
<1> QED BY <1>9, <1>10, <1>11, <1>12, <1>13, <1>14 DEF HistoryIInv

-----------------------------------------------------------------------------
LEMMA HistoryInitIInv == HistoryInit => HistoryIInv
<1> SUFFICES ASSUME HistoryInit PROVE HistoryIInv
  OBVIOUS
<1> USE DEF HistoryInit, SessionInit
<1>n. MaxSeq \in Nat \ {0} /\ options \in Selections /\ options.start \in 0..MaxSeq
      /\ options.end \in 0..MaxSeq
  BY MaxSeqIsPositive, SelectionsAreSelected
<1>1. InspectTypes
  <2>1. reply \in Replies /\ got \in Results \ {"empty"} /\ delivered \in Seq(Records)
    BY DEF Replies, Results
  <2>2. upper \in 0..MaxSeq /\ cursor \in 0..MaxSeq /\ horizon \in 0..MaxSeq /\ created \in Nat
    BY <1>n
  <2>3. retained \subseteq 1..last /\ kept \subseteq retained /\ last \in 0..MaxSeq
        /\ stream \in Nat \ {0} /\ changes \in Nat
    OBVIOUS
  <2> QED BY <1>n, <2>1, <2>2, <2>3 DEF InspectTypes
<1>2. Protocol
  BY ReplyKinds DEF Protocol, Ended
<1>3. Len(delivered) = 0
  OBVIOUS
<1>4. Progress
  BY <1>n, <1>3 DEF Progress
<1>5. Identity
  BY <1>3, ReplyKinds DEF Identity, OneStream
<1>6. Honest
  <2>1. reply # Lost /\ reply # Refusal /\ reply.kind = "pending"
    BY ReplyKinds
  <2> QED BY <2>1 DEF Honest
<1>7. Complete
  BY DEF Complete
<1> QED BY <1>1, <1>2, <1>4, <1>5, <1>6, <1>7 DEF HistoryIInv

LEMMA HistoryNextIInv == HistoryIInv /\ [HistoryNext]_inspectVars => HistoryIInv'
<1> SUFFICES ASSUME HistoryIInv, [HistoryNext]_inspectVars PROVE HistoryIInv'
  OBVIOUS
<1>1. CASE Connect
  BY <1>1, ConnectKeepsIInv
<1>2. CASE Request
  BY <1>2, RequestKeepsIInv
<1>3. CASE RequestFails \/ Refused
  BY <1>3, FailuresKeepIInv
<1>4. CASE Opened
  BY <1>4, OpenedKeepsIInv
<1>5. CASE Next1
  BY <1>5, NextKeepsIInv
<1>6. CASE Got
  BY <1>6, GotKeepsIInv
<1>7. CASE GotNothing \/ Exhausted
  BY <1>7, ExhaustedKeepsIInv
<1>8. CASE End
  BY <1>8, EndKeepsIInv
<1>9. CASE Answer
  BY <1>9, AnswerKeepsIInv
<1>10. CASE Publish \/ Remove \/ Replace
  BY <1>10, StreamKeepsIInv
<1>11. CASE Close \/ Adapter
  BY <1>11, SessionKeepsIInv
<1>12. CASE UNCHANGED inspectVars
  <2>1. /\ OthersStay /\ UNCHANGED <<got, horizon, stream, kept, harm, life>>
    BY <1>12 DEF inspectVars, brokerVars, sessionVars, OthersStay
  <2>2. InspectTypes'
    BY <1>12 DEF inspectVars, brokerVars, sessionVars, historyVars, askVars, fixedVars,
                 HistoryIInv, InspectTypes
  <2>3. stream' >= stream
    BY <2>1 DEF HistoryIInv, InspectTypes
  <2> QED BY <2>1, <2>2, <2>3, WorldKeepsIInv
<1> QED BY <1>1, <1>2, <1>3, <1>4, <1>5, <1>6, <1>7, <1>8, <1>9, <1>10, <1>11, <1>12
        DEF HistoryNext, Caller

(* The inductive invariant of the inspection: the protocol of its          *)
(* requests, the cursor and the bounds, the identity of the stream, and    *)
(* what an honest broker has answered (response, OpenHistory, Next).       *)
THEOREM HistoryInvariant == HistorySpec => []HistoryIInv
<1>1. HistoryInit => HistoryIInv
  BY HistoryInitIInv
<1>2. HistoryIInv /\ [HistoryNext]_inspectVars => HistoryIInv'
  BY HistoryNextIInv
<1> QED BY <1>1, <1>2, PTL DEF HistorySpec

(* The fields of history keep to their ranges, the cursor never wraps to   *)
(* zero behind the largest sequence, and the boundary is what was          *)
(* delivered last (OpenHistory, record).                                   *)
THEOREM HistoryTypes == HistorySpec => []HistoryTypeOK
<1>1. HistoryIInv => HistoryTypeOK
  <2> SUFFICES ASSUME HistoryIInv PROVE HistoryTypeOK
    OBVIOUS
  <2>1. reply.kind \in {"pending", "lost", "error", "none", "info", "message"}
    BY ReplyKinds DEF HistoryIInv, InspectTypes, Replies
  <2>2. boundary /\ delivered # <<>> => delivered[Len(delivered)].seq = upper
    BY DEF HistoryIInv, Progress, Latest
  <2> QED BY <2>1, <2>2 DEF HistoryIInv, InspectTypes, HistoryTypeOK
<1> QED BY <1>1, HistoryInvariant, PTL

(* Whatever is asked for, and whatever becomes of the stream meanwhile,    *)
(* sequences come in order and within the bounds, of one stream, and an    *)
(* inspection that an honest broker lets end has missed nothing that was   *)
(* there all the while (OpenHistory, Next, record, exhausted).             *)
THEOREM HistoryIsFaithful == HistorySpec => []DeliveryIsFaithful
<1>1. HistoryIInv => DeliveryIsFaithful
  <2> SUFFICES ASSUME HistoryIInv PROVE DeliveryIsFaithful
    OBVIOUS
  <2>n. /\ MaxSeq \in Nat /\ horizon \in 0..MaxSeq /\ upper \in 0..MaxSeq
        /\ options.start \in 0..MaxSeq /\ options.end \in 0..MaxSeq
        /\ life \in {"opening", "open", "failed", "closed"}
        /\ kept \subseteq retained /\ retained \subseteq 1..last /\ last \in 0..MaxSeq
    BY MaxSeqIsPositive, SelectionsAreSelected DEF HistoryIInv, InspectTypes
  <2>1. DOMAIN delivered = 1..Len(delivered) /\ (delivered # <<>> <=> Len(delivered) > 0)
        /\ Len(delivered) \in Nat
    BY RecordsDelivered DEF HistoryIInv, InspectTypes
  <2>2. ASSUME NEW i \in DOMAIN delivered
        PROVE  /\ delivered[i].seq >= options.start
               /\ options.end > 0 => delivered[i].seq <= options.end
               /\ harm = "none" => delivered[i].seq <= horizon
    <3>1. delivered[i].seq \in options.start..upper /\ (options.end > 0 => upper <= options.end)
      BY <2>1 DEF HistoryIInv, Progress
    <3>2. harm = "none" => upper <= horizon
      <4>1. delivered # <<>>
        BY <2>1
      <4> QED BY <2>n, <4>1 DEF HistoryIInv, Protocol, Honest
    <3> QED BY <2>n, <3>1, <3>2
  <2>3. InOrder
    BY <2>1, <2>2 DEF InOrder, HistoryIInv, Progress
  <2>4. NothingKeptIsMissed
    <3> SUFFICES ASSUME got = "exhausted", harm = "none", NEW s \in kept \cap matching,
                        s >= options.start, s <= upper, Stored(created, s) >= options.from,
                        \A i \in DOMAIN delivered : delivered[i].seq # s
                 PROVE  FALSE
      BY DEF NothingKeptIsMissed
    <3>1. life \in {"open", "closed"}
      BY <2>n DEF HistoryIInv, Protocol
    <3>2. s \in Seqs /\ s \in options.start..upper
      BY <2>n DEF Seqs
    <3>3. Wanted(s)
      BY <2>1, <3>2 DEF Wanted
    <3> QED BY <3>1, <3>2, <3>3 DEF HistoryIInv, Complete
  <2>5. OneStream
    BY DEF HistoryIInv, Identity
  <2> QED BY <2>3, <2>4, <2>5 DEF DeliveryIsFaithful
<1> QED BY <1>1, HistoryInvariant, PTL

-----------------------------------------------------------------------------
(* The inspection as a session. *)
LEMMA FailIsAReturn ==
  ASSUME HistoryIInv, CallerStep, step # "idle",
         NEW r \in {"failed", "cancelled", "broken", "exhausted"}, Fail(r),
         purpose # "open" =>
           /\ r = "failed" => failure
           /\ r = "cancelled" => sessionDone
           /\ r = "broken" => harm # "none"
  PROVE  SessionNext
<1>1. UNCHANGED <<sessionDone, harm, failure, told>>
  BY CallerStays
<1>2. CASE purpose = "open"
  <2>1. life = "opening"
    BY <1>2 DEF HistoryIInv, Protocol
  <2> QED BY <1>1, <1>2, <2>1 DEF Fail, OpenReturns, SessionNext
<1>3. CASE purpose # "open"
  <2>1. life = "open"
    BY <1>3, BusyIsOpen
  <2> QED BY <1>1, <1>3, <2>1 DEF Fail, NextReturns, SessionNext
<1> QED BY <1>2, <1>3

LEMMA QuietIsAStutter ==
  ASSUME CallerStep, UNCHANGED <<life, got>>
  PROVE  UNCHANGED sessionVars
  BY CallerStays DEF sessionVars

(* An honest broker gives no reason to fail. *)
LEMMA HonestReply ==
  ASSUME HistoryIInv, harm = "none"
  PROVE  /\ reply \notin {Lost, Refusal} /\ stream = 1
         /\ reply.kind = "info" => Possible(reply) /\ reply.created = 1
         /\ reply.kind = "message" => Valid(reply)
         /\ life = "open" => created = 1
  BY DEF HistoryIInv, Honest

LEMMA CallerIsASession == ASSUME HistoryIInv, Caller PROVE [SessionNext]_sessionVars
<1>1. CASE Connect
  <2>1. step = "connect" /\ purpose = "open" /\ CallerStep
    BY <1>1 DEF Connect, HistoryIInv, Protocol
  <2>2. CASE Fail("failed")
    BY <2>1, <2>2, FailIsAReturn
  <2>3. CASE UNCHANGED <<life, got>>
    BY <2>1, <2>3, QuietIsAStutter
  <2> QED BY <1>1, <2>2, <2>3 DEF Connect
<1>2. CASE Request
  <2>1. CASE failure
    BY <1>2, <2>1, FailIsAReturn DEF Request
  <2>2. CASE ~failure
    BY <1>2, <2>2, QuietIsAStutter DEF Request
  <2> QED BY <2>1, <2>2
<1>3. CASE RequestFails
  <2>1. PICK r \in {"failed", "cancelled", "broken", "exhausted"} :
          /\ Fail(r) /\ r # "exhausted" /\ step = "waiting" /\ CallerStep
          /\ r = "failed" => failure
          /\ r = "cancelled" => sessionDone
          /\ r = "broken" => reply = Lost
    BY <1>3 DEF RequestFails
  <2> QED BY <2>1, HonestReply, FailIsAReturn
<1>4. CASE Refused
  BY <1>4, HonestReply, FailIsAReturn DEF Refused
<1>5. CASE Opened
  <2>1. step = "waiting" /\ purpose = "open" /\ reply.kind = "info" /\ CallerStep
    BY <1>5 DEF Opened, Answered
  <2>2. CASE Fail("failed")
    BY <2>1, <2>2, FailIsAReturn
  <2>3. CASE ~failure /\ life' = "open" /\ UNCHANGED got
    <3>1. life = "opening"
      BY <2>1 DEF HistoryIInv, Protocol
    <3> QED BY <2>1, <2>3, <3>1, CallerStays DEF OpenReturns, SessionNext
  <2> QED BY <1>5, <2>2, <2>3 DEF Opened
<1>6. CASE Next1
  BY <1>6, QuietIsAStutter DEF Next1
<1>7. CASE Got
  <2>1. step = "waiting" /\ purpose = "get" /\ reply.kind = "message" /\ CallerStep
    BY <1>7 DEF Got, Answered
  <2>2. CASE ~Valid(reply) /\ Fail("broken")
    BY <2>1, <2>2, HonestReply, FailIsAReturn
  <2>3. CASE UNCHANGED <<life, got>>
    BY <2>1, <2>3, QuietIsAStutter
  <2>4. CASE got' = "message" /\ UNCHANGED life
    BY <2>1, <2>4, BusyIsOpen, CallerStays DEF NextReturns, SessionNext
  <2> QED BY <1>7, <2>2, <2>3, <2>4 DEF Got
<1>8. CASE GotNothing
  BY <1>8, QuietIsAStutter DEF GotNothing
<1>9. CASE Exhausted
  <2>1. CASE sessionDone
    BY <1>9, <2>1, FailIsAReturn DEF Exhausted
  <2>2. CASE ~sessionDone
    BY <1>9, <2>2, QuietIsAStutter DEF Exhausted
  <2> QED BY <2>1, <2>2
<1>10. CASE End
  <2>1. step = "waiting" /\ purpose = "end" /\ reply.kind = "info" /\ CallerStep
    BY <1>10 DEF End, Answered
  <2>2. PICK r \in {"failed", "cancelled", "broken", "exhausted"} :
          /\ Fail(r)
          /\ r = "failed" => failure
          /\ r = "cancelled" => sessionDone
          /\ r = "broken" => ~Possible(reply) \/ Replaced
    BY <1>10 DEF End
  <2>3. life = "open"
    BY <2>1, BusyIsOpen
  <2>4. harm = "none" => Possible(reply) /\ ~Replaced
    BY <2>1, <2>3, HonestReply DEF Replaced
  <2> QED BY <2>1, <2>2, <2>4, FailIsAReturn
<1> QED BY <1>1, <1>2, <1>3, <1>4, <1>5, <1>6, <1>7, <1>8, <1>9, <1>10 DEF Caller

(* A broker that errs, or a stream that is replaced, is trouble below.     *)
LEMMA LateIsSuffering ==
  ASSUME Late, harm \in {"none", "late", "early"},
         UNCHANGED <<sessionDone, life, failure, told, got>>
  PROVE  SessionNext
  BY DEF Late, Suffer, SessionNext

LEMMA BelowIsASession ==
  ASSUME HistoryIInv, Answer \/ Publish \/ Remove \/ Replace \/ Close \/ Adapter
  PROVE  [SessionNext]_sessionVars
<1> USE DEF sessionVars
<1>h. harm \in {"none", "late", "early"}
  BY DEF HistoryIInv, InspectTypes
<1>1. CASE Answer
  <2>1. (UNCHANGED harm \/ Late) /\ UNCHANGED <<sessionDone, life, failure, told, got>>
    BY <1>1 DEF Answer
  <2> QED BY <1>h, <2>1, LateIsSuffering
<1>2. CASE Publish \/ Remove
  BY <1>2 DEF Publish, Remove
<1>3. CASE Replace
  BY <1>h, <1>3, LateIsSuffering DEF Replace
<1>4. CASE Close \/ Adapter
  BY <1>4 DEF Close, Adapter, SessionNext
<1> QED BY <1>1, <1>2, <1>3, <1>4

(* An inspection is a session: it opens, returns and closes as the         *)
(* observation expects, and fails for a reason only - the connection, the  *)
(* context, or a broker that errs (Session, history.Next).                 *)
THEOREM HistoryImplementsSession == HistorySpec => ImplementsSession
<1>1. HistoryInit => SessionInit
  BY DEF HistoryInit
<1>2. HistoryIInv /\ [HistoryNext]_inspectVars => [SessionNext]_sessionVars
  <2> SUFFICES ASSUME HistoryIInv, [HistoryNext]_inspectVars PROVE [SessionNext]_sessionVars
    OBVIOUS
  <2>1. CASE UNCHANGED inspectVars
    BY <2>1 DEF inspectVars, sessionVars
  <2> QED BY <2>1, CallerIsASession, BelowIsASession DEF HistoryNext
<1> QED BY <1>1, <1>2, HistoryInvariant, PTL DEF HistorySpec, ImplementsSession, SessionSpec
=============================================================================
