---------------------------- MODULE NatsHistory ----------------------------
(***************************************************************************)
(* The inspection of a retained stream (natsinspect/history.go): an INFO   *)
(* request fixes the upper bound, each Next asks for the first message at  *)
(* or after a cursor, and a second INFO guards the end.  There is one      *)
(* request at a time; between any two steps the stream may be appended to, *)
(* purged, expired or replaced, and the connection below (NatsSession, the *)
(* adapter that history embeds) may fail or be stopped.  The broker is     *)
(* external: it answers from what it retains, late, not at all, or, where  *)
(* Faults says so, with an answer it should not give.                      *)
(***************************************************************************)
EXTENDS Integers, FiniteSets, FiniteSetsExt, Sequences, NatsSession

CONSTANTS MaxSeq,     \* the largest sequence, ^uint64(0)
          Selections, \* what the command line may ask for, see Selected
          MaxChanges, \* bound: changes of the stream during an inspection
          BrokerFaults

Seqs == 1..MaxSeq
NoTime == 0

(* HistoryOptions.Validate: one inclusive start, an end not before it.     *)
Selected == {o \in [start : 0..MaxSeq, from : Nat, end : 0..MaxSeq] :
               /\ (o.start = 0) # (o.from = NoTime)
               /\ o.start > 0 /\ o.end > 0 => o.end >= o.start}

ASSUME HistoryAssumption ==
  /\ MaxSeq \in Nat \ {0} /\ MaxChanges \in Nat
  /\ Selections \subseteq Selected
  /\ BrokerFaults \subseteq {"lost", "error", "lies"}

VARIABLES
  retained,  \* sequences the stream retains
  last,      \* its last sequence
  stream,    \* its identity: a stream that is replaced is another one
  matching,  \* the sequences whose subject matches the pattern
  changes,   \* how often it has changed
  options,   \* HistoryOptions
  step,      \* where the caller of OpenHistory and Next is
  purpose,   \* of the request: "open", "get" or "end"
  reply,     \* the broker's answer, Pending before it
  created, upper, cursor, first, boundary,  \* the fields of history
  delivered, \* what Next returned, with the stream it came from
  horizon,   \* the last sequence when the first INFO was answered
  kept       \* what is retained ever since then

brokerVars  == <<retained, last, stream, changes, horizon, kept>>
historyVars == <<created, upper, cursor, first, boundary>>
askVars     == <<step, purpose, reply>>
fixedVars   == <<matching, options>>
inspectVars == <<sessionVars, brokerVars, historyVars, askVars, fixedVars, delivered>>

(* Storage time grows with the sequence, and a new stream is younger. *)
Stored(q, s) == q * (MaxSeq + 1) + s

(* Answers. *)
Pending == [kind |-> "pending"]
Lost    == [kind |-> "lost"]   \* no answer in five seconds
Refusal == [kind |-> "error"]  \* an API error, or nothing that parses
Nothing == [kind |-> "none"]   \* 404 / 10037
Info(q, n, lo, hi) ==
  [kind |-> "info", created |-> q, messages |-> n, first |-> lo, last |-> hi]
Message(s, match, timely) ==
  [kind |-> "message", stream |-> stream, seq |-> s, match |-> match, timely |-> timely]

HistoryInit ==
  /\ SessionInit
  /\ last \in 0..MaxSeq /\ retained \in SUBSET (1..last) /\ stream = 1
  /\ matching \in SUBSET Seqs
  /\ changes = 0 /\ horizon = 0 /\ kept = {}
  /\ options \in Selections
  /\ step = "connect" /\ purpose = "open" /\ reply = Pending
  /\ created = 0 /\ upper = 0 /\ cursor = options.start
  /\ first = TRUE /\ boundary = FALSE
  /\ delivered = <<>>

(* What ends an observation; it does not call Next again (run/nats.go).    *)
Ended == got \in {"exhausted", "cancelled", "failed", "broken"}

-----------------------------------------------------------------------------
(* The stream. *)
Running == ~Ended /\ life \in {"opening", "open"}
Changed == /\ Running /\ changes < MaxChanges /\ changes' = changes + 1
           /\ UNCHANGED horizon

OthersStay == UNCHANGED <<historyVars, askVars, fixedVars, delivered>>

Publish == /\ Changed /\ last < MaxSeq
           /\ last' = last + 1 /\ retained' = retained \cup {last + 1}
           /\ UNCHANGED <<stream, kept, sessionVars>> /\ OthersStay

(* A purge, a limit or a deletion. *)
Remove == /\ Changed
          /\ \E gone \in SUBSET retained \ {{}} :
               retained' = retained \ gone /\ kept' = kept \ gone
          /\ UNCHANGED <<last, stream, sessionVars>> /\ OthersStay

Late == harm' = IF harm = "early" THEN "early" ELSE "late"

Replace == /\ Changed
           /\ stream' = stream + 1 /\ last' = 0 /\ retained' = {} /\ kept' = {}
           /\ Late
           /\ UNCHANGED <<sessionDone, life, failure, told, got>> /\ OthersStay

(* What the broker says when it says the truth.  After the last possible   *)
(* sequence an empty stream has no first one.                              *)
TrueInfo == Info(stream, Cardinality(retained),
                 IF retained # {} THEN Min(retained)
                 ELSE IF last = 0 THEN 0 ELSE (last + 1) % (MaxSeq + 1),
                 last)

Asked == IF first /\ options.from # NoTime
           THEN {s \in retained : Stored(stream, s) >= options.from}
           ELSE {s \in retained : s >= cursor}

TrueGet == LET found == Asked \cap matching
           IN IF found = {} THEN Nothing
              ELSE Message(Min(found), TRUE, Stored(stream, Min(found)) >= options.from)

Lies == {Message(s, b, b) : s \in 0..MaxSeq, b \in BOOLEAN}

Answer ==
  /\ step = "waiting" /\ reply = Pending
  /\ \/ reply' = (IF purpose = "get" THEN TrueGet ELSE TrueInfo) /\ UNCHANGED harm
     \/ "error" \in BrokerFaults /\ reply' = Refusal /\ Late
     \/ "lost" \in BrokerFaults /\ reply' = Lost /\ Late
     \/ "lies" \in BrokerFaults /\ purpose = "get" /\ reply' \in Lies /\ Late
  /\ IF purpose = "open" THEN kept' = retained /\ horizon' = last
                         ELSE UNCHANGED <<kept, horizon>>
  /\ UNCHANGED <<retained, last, stream, changes, historyVars, step, purpose,
                 fixedVars, delivered, sessionDone, life, failure, told, got>>

-----------------------------------------------------------------------------
(* OpenHistory and Next. *)
GoTo(s) == step' = s
Ask(p)  == GoTo("request") /\ purpose' = p /\ reply' = Pending

(* What a step of the caller leaves alone. *)
CallerStep == UNCHANGED <<brokerVars, fixedVars, sessionDone, harm, failure, told>>

(* An error ends OpenHistory, which closes the connection, or Next. *)
Fail(result) ==
  /\ IF purpose = "open" THEN life' = "failed" /\ UNCHANGED got
                         ELSE got' = result /\ UNCHANGED life
  /\ GoTo("idle") /\ reply' = Pending
  /\ UNCHANGED <<purpose, historyVars, delivered>>

(* The connection and the version of the server it leads to. *)
Connect ==
  /\ step = "connect"
  /\ \/ Ask("open") /\ UNCHANGED <<historyVars, delivered, life, got>>
     \/ Fail("failed")
  /\ CallerStep

(* response: ask the connection for a failure, send, wait. *)
Request ==
  /\ step = "request"
  /\ IF failure THEN Fail("failed")
                ELSE /\ GoTo("waiting")
                     /\ UNCHANGED <<purpose, reply, historyVars, delivered, life, got>>
  /\ CallerStep

(* A request fails with the connection, with its context or on its own;    *)
(* what the broker refuses, or what does not parse, is an error at once.   *)
BugWaitsForever ==
  /\ step = "waiting"
  /\ failure \/ sessionDone
  /\ Fail(IF failure THEN "failed" ELSE "cancelled")
  /\ CallerStep
RequestFails ==
  /\ step = "waiting"
  /\ failure \/ sessionDone \/ reply = Lost
  /\ Fail(IF failure THEN "failed" ELSE IF sessionDone THEN "cancelled" ELSE "broken")
  /\ CallerStep

Refused == step = "waiting" /\ reply = Refusal /\ Fail("broken") /\ CallerStep

(* info: the range that is reported must be possible. *)
BugEmptyIsNew(i) ==
  IF i.messages > 0 THEN i.first # 0 /\ i.first <= i.last ELSE i.first \in {0, 1}
Possible(i) ==
  IF i.messages > 0
    THEN i.first # 0 /\ i.first <= i.last /\ i.messages - 1 <= i.last - i.first
    ELSE i.first # 0 => i.last # MaxSeq /\ i.first = i.last + 1

Answered(p, kind) == /\ step = "waiting" /\ purpose = p /\ reply.kind = kind

BugNoUpperBound == IF options.end > 0 THEN options.end ELSE MaxSeq
UpperBound == IF options.end > 0 /\ options.end < reply.last
                THEN options.end ELSE reply.last

Opened ==
  /\ Answered("open", "info")
  /\ IF ~Possible(reply) \/ failure \/ sessionDone
       THEN Fail("failed")
       ELSE /\ created' = reply.created /\ upper' = UpperBound
            /\ boundary' = (reply.messages = 0 \/ UpperBound = 0 \/ cursor > UpperBound)
            /\ life' = "open"
            /\ GoTo("idle") /\ reply' = Pending
            /\ UNCHANGED <<purpose, cursor, first, delivered, got>>
  /\ CallerStep

Next1 ==
  /\ step = "idle" /\ life = "open" /\ ~Ended
  /\ IF boundary THEN GoTo("exhausted") /\ purpose' = "end" /\ UNCHANGED reply
                 ELSE Ask("get")
  /\ UNCHANGED <<historyVars, delivered, life, got>>
  /\ CallerStep

(* record: a message that was not asked for is an error. *)
Valid(m) == m.match /\ m.timely /\ m.seq # 0 /\ m.seq >= cursor

BugBoundaryEarly(s) == /\ boundary' = (s + 1 >= upper)
                       /\ cursor' = IF s + 1 >= upper THEN cursor ELSE s + 1
Advance(s) == /\ boundary' = (s = upper)
              /\ cursor' = IF s = upper THEN cursor ELSE (s + 1) % (MaxSeq + 1)

Beyond(m) == m.seq > upper

Got ==
  /\ Answered("get", "message")
  /\ \/ ~Valid(reply) /\ Fail("broken")
     \/ /\ Valid(reply) /\ Beyond(reply)
        /\ GoTo("exhausted") /\ reply' = Pending
        /\ UNCHANGED <<purpose, historyVars, delivered, life, got>>
     \/ /\ Valid(reply) /\ ~Beyond(reply)
        /\ Advance(reply.seq)
        /\ first' = FALSE
        /\ delivered' = Append(delivered, [stream |-> reply.stream, seq |-> reply.seq])
        /\ got' = "message"
        /\ GoTo("idle") /\ reply' = Pending
        /\ UNCHANGED <<purpose, created, upper, life>>
  /\ CallerStep

GotNothing ==
  /\ Answered("get", "none")
  /\ GoTo("exhausted") /\ reply' = Pending
  /\ UNCHANGED <<purpose, historyVars, delivered, life, got>>
  /\ CallerStep

(* exhausted: the context, the identity of the stream, the connection and  *)
(* the context again.                                                      *)
Exhausted ==
  /\ step = "exhausted"
  /\ IF sessionDone
       THEN Fail("cancelled")
       ELSE Ask("end") /\ UNCHANGED <<historyVars, delivered, life, got>>
  /\ CallerStep

Replaced == reply.created # created

End ==
  /\ Answered("end", "info")
  /\ Fail(IF ~Possible(reply) \/ Replaced THEN "broken"
          ELSE IF failure THEN "failed"
          ELSE IF sessionDone THEN "cancelled" ELSE "exhausted")
  /\ CallerStep

Caller == Connect \/ Request \/ RequestFails \/ Refused \/ Opened \/ Next1 \/ Got
          \/ GotNothing \/ Exhausted \/ End

(* Close comes between two calls of Next. *)
Close == /\ step = "idle" /\ CloseReturns
         /\ UNCHANGED <<brokerVars, historyVars, askVars, fixedVars, delivered>>

(* The adapter below, whose trouble may come at any time. *)
Adapter == /\ Running
           /\ SessionEnds \/ Suffer \/ Latch \/ Tell
           /\ UNCHANGED <<brokerVars, historyVars, askVars, fixedVars, delivered>>

HistoryNext == Caller \/ Answer \/ Publish \/ Remove \/ Replace \/ Close \/ Adapter

HistorySpec == HistoryInit /\ [][HistoryNext]_inspectVars

(* The caller asks until the end, and a request is answered or times out.  *)
HistoryFairness == WF_inspectVars(Caller) /\ WF_inspectVars(Answer)

FairHistorySpec == HistorySpec /\ HistoryFairness

-----------------------------------------------------------------------------
HistoryTypeOK ==
  /\ retained \subseteq 1..last /\ kept \subseteq retained
  /\ {last, upper, cursor, horizon} \subseteq 0..MaxSeq
  /\ life \in {"opening", "open", "failed", "closed"}
  /\ step \in {"connect", "request", "waiting", "exhausted", "idle"}
  /\ purpose \in {"open", "get", "end"}
  /\ reply.kind \in {"pending", "lost", "error", "none", "info", "message"}
  /\ got \in Results \ {"empty"}
  /\ {first, boundary, sessionDone, failure} \subseteq BOOLEAN
  /\ boundary /\ delivered # <<>> => delivered[Len(delivered)].seq = upper

(* Whatever the broker answers, sequences strictly increase and stay       *)
(* within the bounds; and while it says the truth nothing is delivered     *)
(* that was published after the first INFO (the upper bound of OpenHistory *)
(* and the cursor of Next).                                                *)
InOrder ==
  /\ \A i, j \in DOMAIN delivered : i < j => delivered[i].seq < delivered[j].seq
  /\ \A i \in DOMAIN delivered :
       /\ delivered[i].seq >= options.start
       /\ options.end > 0 => delivered[i].seq <= options.end
       /\ harm = "none" => delivered[i].seq <= horizon

(* What the selection names and the stream has retained all the while has  *)
(* been delivered when an honest broker lets the range be exhausted.       *)
NothingKeptIsMissed ==
  got = "exhausted" /\ harm = "none" =>
    \A s \in kept \cap matching :
      /\ s >= options.start /\ s <= upper /\ Stored(created, s) >= options.from
      => \E i \in DOMAIN delivered : delivered[i].seq = s

(* Exhaustion is reported only of one stream: a record of a stream that    *)
(* has replaced it makes the end of the inspection a failure (exhausted).  *)
OneStream ==
  got = "exhausted" => \A i \in DOMAIN delivered : delivered[i].stream = created

(* What is delivered, in short (Next). *)
DeliveryIsFaithful == InOrder /\ NothingKeptIsMissed /\ OneStream

(* An inspection is a session as the observation expects it: it fails for  *)
(* a reason only, which an honest broker, whatever happens to the stream,  *)
(* does not give (info, record).                                           *)
ImplementsSession == SessionSpec

(* The inspection comes to an end, at the largest sequence too. *)
InspectionEnds == (life = "open") ~> (Ended \/ life = "closed")
=============================================================================
