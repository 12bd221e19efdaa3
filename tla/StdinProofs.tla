----------------------------- MODULE StdinProofs -----------------------------
(***************************************************************************)
(* Proofs about nesdit as a filter (StdinStream), for all texts, all jobs  *)
(* and all queries, however the text arrives: its types, that the answers  *)
(* are on stdout in the order of the documents, and that the status says   *)
(* whether all of them are.                                                *)
(***************************************************************************)
EXTENDS StdinStream, FiniteSetTheorems, SequenceTheorems, WellFoundedInduction, TLAPS

(* The documents that the reader has handed on; those that have been dealt *)
(* with; those of them that have an answer.                                *)
WholeText == fmt \in {"json", "toml"}
Taken == {p \in DocEnds : IF WholeText THEN docs = 1
                          ELSE p <= pos \/ (pos = Len(stream) /\ buf = <<>>)}
Busy    == {"where", "query", "frame", "body"}
Settled == {p \in Taken : pc \in Busy => \E q \in Taken : p < q}
Served  == {p \in Settled : Reply(p) # None}

(* Before the format is known nothing has happened. *)
Fresh ==
  /\ pc = "detect" => fmt = "none"
  /\ fmt = "none" => /\ pos = 0 /\ buf = <<>> /\ docs = 0 /\ stdout = <<>> /\ broken = 0
                 /\ ~hadError /\ pc \in {"detect", "done"} /\ code # 0
  /\ closed => arrived = Len(stream)

(* What is in the buffer are the last lines that were read, since the last *)
(* separator; every document is counted.                                   *)
Running == fmt # "none" /\ pc # "done"
Reading ==
  Running =>
    /\ fmt # "yaml" => buf = <<>>
    /\ WholeText => docs \in 0..1 /\ pos = IF docs = 1 THEN Len(stream) ELSE 0
    /\ ~WholeText => docs + Len(buf) <= pos
    /\ \A i \in 1..Len(buf) : /\ buf[i] = stream[pos - Len(buf) + i]
                              /\ buf[i] # Sep /\ buf[i].form # "long"
    /\ fmt = "yaml" => pos = Len(buf) \/ stream[pos - Len(buf)] = Sep
                       \/ (pos = Len(stream) /\ buf = <<>>)

(* The document that is dealt with is the last that was taken. *)
Current ==
  /\ pc \in Busy => \E p \in Taken : Input(p) = val /\ \A q \in Taken : q <= p
  /\ pc \in Busy => val \in Values
  /\ pc \in {"query", "frame", "body"} => ApplyWhere(val, Options) # "fails"
  /\ pc = "query" => ApplyWhere(val, Options) = "match"
  /\ pc \in {"frame", "body"} =>
       /\ answer \in Values
       /\ IF ApplyWhere(val, Options) = "skip"
          THEN via = "pass" /\ answer = val
          ELSE via = "main" /\ answer = RunQuery(Query, val, Options)

(* What was dealt with did not stop the run, and an error is remembered.   *)
Account ==
  Running =>
    /\ \A p \in Settled : ~Stops(p)
    /\ broken > 0 => Options["keepGoing"]
    /\ hadError <=> fmt # "json" /\ (broken > 0 \/ Settled # Served)

(* stdout holds the answers to what was dealt with. *)
Matching ==
  Running /\ broken = 0 =>
    /\ InOrder(Written, Replies(Served))
    /\ Cardinality(Bodies(stdout)) = Cardinality(Served)

StdinIInv == /\ StdinTypeOK /\ Fresh /\ Reading /\ Current /\ Account /\ Matching
             /\ pc = "done" => AnswersInOrder /\ StatusIsTrue
-----------------------------------------------------------------------------
(* What the lines of a text are, and what they decode to. *)
LEMMA MarksHaveNoValue ==
  /\ None \notin Values
  /\ \A l \in Docs : l.value \in Values /\ l.value # None
  /\ Sep.value = None /\ Plus.value = None /\ Eol.value = None /\ Torn.value = None
  /\ Sep.form = "sep" /\ Blank.form = "blank" /\ Sep # Blank
  /\ \A v \in Values : Bytes(v, "compact") \in Docs /\ Bytes(v, "compact").value = v
  BY DocumentAssumption DEF Docs, Sep, Plus, Eol, Torn, Blank, Mark, Bytes

LEMMA OnesDecode ==
  ASSUME NEW t, NEW last
  PROVE  One(t, last) \in Values \cup {None}
<1>1. CASE \E l \in Docs : t = <<l>>
  <2>1. PICK l \in Docs : t = <<l>>
    BY <1>1
  <2>2. t[1] = l /\ l.value \in Values
    BY <2>1, MarksHaveNoValue
  <2> QED BY <1>1, <2>2 DEF One
<1>2. CASE ~\E l \in Docs : t = <<l>>
  BY <1>2, StreamAssumption DEF One
<1> QED BY <1>1, <1>2

LEMMA BlocksDecode ==
  ASSUME NEW t, IsBlock(t)
  PROVE  Last(t).value \in Values
<1>1. t \in Seq(Docs) /\ Len(t) \in 1..Len(t)
  BY DEF IsBlock
<1>2. t[Len(t)] \in Docs
  BY <1>1
<1> QED BY <1>2, MarksHaveNoValue DEF Last

LEMMA TextsDecode ==
  ASSUME NEW s, NEW g
  PROVE  /\ DecodeText(s) \in Values \cup {None}
         /\ DecodeJSON(s) \in Values \cup {None}
         /\ DecodeYAML(s, g) \in Values \cup {None}
         /\ DecodeTOML(s, g) \in Values \cup {None}
<1>1. ASSUME NEW t PROVE DecodeText(t) \in Values \cup {None}
  BY OnesDecode DEF DecodeText
<1>2. DecodeJSON(s) \in Values \cup {None}
  BY <1>1 DEF DecodeJSON
<1>3. DecodeYAML(s, g) \in Values \cup {None}
  BY OnesDecode, BlocksDecode, StreamAssumption DEF DecodeYAML
<1>4. DecodeTOML(s, g) \in Values \cup {None}
  BY BlocksDecode, StreamAssumption DEF DecodeTOML
<1> QED BY <1>1, <1>2, <1>3, <1>4

LEMMA InputsDecode ==
  ASSUME NEW f \in Formats, NEW g, NEW t
  PROVE  ValueOf(f, g, t) \in Values \cup {None}
  BY TextsDecode DEF ValueOf, Formats

LEMMA FormatsAreDetected ==
  ASSUME NEW t, NEW f
  PROVE  DetectBytes(t, f) \in Formats \cup {"none"}
  BY DEF DetectBytes, Formats

LEMMA QueriesAnswer ==
  ASSUME job \in Jobs, NEW v \in Values
  PROVE  /\ RunQuery(Query, v, Options) \in Values \cup {None}
         /\ ApplyWhere(v, Options) \in {"match", "skip", "fails"}
         /\ ~Options["where"] => ApplyWhere(v, Options) = "match"
  BY StdinAssumption, DocumentAssumption DEF RunQuery, ApplyWhere, Queries

LEMMA JobsAreTyped ==
  ASSUME job \in Jobs
  PROVE  /\ Options["keepGoing"] \in BOOLEAN /\ Options["where"] \in BOOLEAN
         /\ job.named \in Formats \cup {"auto"} /\ job.out \in Formats \cup {"same"}
         /\ \A s \in Streams[job.text][job.piped] : s \in Seq(Lines)
<1>1. /\ job.named \in {"auto", job.text} \/ {job.named, job.text} \subseteq {"json", "jsonl"}
      /\ job.text \in Formats /\ job.out \in Formats \cup {"same"} /\ job.opts \in FlagSets
      /\ Streams[job.text][job.piped] \subseteq Seq(LinesOf(job.text))
  BY StdinAssumption
<1>2. job.named \in Formats \cup {"auto"}
  BY <1>1 DEF Formats
<1>3. Seq(LinesOf(job.text)) \subseteq Seq(Lines)
  <2>1. LinesOf(job.text) \subseteq Lines
    BY DEF LinesOf
  <2> QED BY <2>1, SeqMonotonic, Zenon
<1> QED BY <1>1, <1>2, <1>3 DEF Options, FlagSets, Flags

-----------------------------------------------------------------------------
(* Ranks in finite sets of positions.                                      *)
LEMMA RanksStay ==
  ASSUME NEW S, NEW T, NEW p, \A q : q <= p => (q \in S <=> q \in T)
  PROVE  Rank(S, p) = Rank(T, p)
<1>1. {q \in S : q <= p} = {q \in T : q <= p}
  OBVIOUS
<1> QED BY <1>1 DEF Rank

LEMMA RankOfLast ==
  ASSUME NEW S, NEW c, \A q \in S : q <= c
  PROVE  Rank(S, c) = Cardinality(S)
<1>1. {q \in S : q <= c} = S
  OBVIOUS
<1> QED BY <1>1 DEF Rank

(* What is added at the end of both sides is matched with each other.      *)
Grows(f, f1, c) == /\ DOMAIN f \subseteq Int /\ IsFiniteSet(DOMAIN f) /\ c \in Int
                   /\ DOMAIN f1 = DOMAIN f \cup {c}
                   /\ \A x \in DOMAIN f : x < c /\ f1[x] = f[x]

LEMMA InOrderGrows ==
  ASSUME NEW f, NEW f1, NEW c, Grows(f, f1, c), NEW g, NEW g1, NEW d, Grows(g, g1, d),
         f1[c] = g1[d], InOrder(f, g), Cardinality(DOMAIN f) = Cardinality(DOMAIN g)
  PROVE  InOrder(f1, g1) /\ Cardinality(DOMAIN f1) = Cardinality(DOMAIN g1)
<1> DEFINE S == DOMAIN f
           T == DOMAIN g
           F == S \cup {c}
           G == T \cup {d}
<1>1. /\ S \subseteq Int /\ IsFiniteSet(S) /\ c \in Int /\ \A x \in S : x < c
      /\ T \subseteq Int /\ IsFiniteSet(T) /\ d \in Int /\ \A y \in T : y < d
      /\ \A x \in S : f1[x] = f[x]
      /\ \A y \in T : g1[y] = g[y]
      /\ Cardinality(S) = Cardinality(T)
      /\ \A x \in S : \E y \in T : Rank(T, y) = Rank(S, x) /\ f[x] = g[y]
  BY DEF Grows, InOrder
<1>0. DOMAIN f1 = F /\ DOMAIN g1 = G
  BY DEF Grows
<1> HIDE DEF S, T
<1>2. c \notin S /\ d \notin T
  BY <1>1
<1>3. Cardinality(S \cup {c}) = Cardinality(T \cup {d})
  <2>1. Cardinality(S \cup {c}) = Cardinality(S) + 1
    BY <1>1, <1>2, FS_AddElement
  <2>2. Cardinality(T \cup {d}) = Cardinality(T) + 1
    BY <1>1, <1>2, FS_AddElement
  <2> QED BY <1>1, <2>1, <2>2
<1>4. Rank(S \cup {c}, c) = Cardinality(S \cup {c}) /\ Rank(T \cup {d}, d) = Cardinality(T \cup {d})
  <2>1. \A x \in S \cup {c} : x <= c
    BY <1>1
  <2>2. \A y \in T \cup {d} : y <= d
    BY <1>1
  <2> QED BY <2>1, <2>2, RankOfLast
<1>5. ASSUME NEW x \in S PROVE Rank(S \cup {c}, x) = Rank(S, x)
  <2>1. \A q : q <= x => (q \in S \cup {c} <=> q \in S)
    BY <1>1
  <2> QED BY <2>1, RanksStay
<1>6. ASSUME NEW y \in T PROVE Rank(T \cup {d}, y) = Rank(T, y)
  <2>1. \A q : q <= y => (q \in T \cup {d} <=> q \in T)
    BY <1>1
  <2> QED BY <2>1, RanksStay
<1>7. ASSUME NEW x \in S
      PROVE  \E y \in T \cup {d} : Rank(T \cup {d}, y) = Rank(S \cup {c}, x) /\ f1[x] = g1[y]
  <2>1. PICK y \in T : Rank(T, y) = Rank(S, x) /\ f[x] = g[y]
    BY <1>1
  <2> QED BY <2>1, <1>1, <1>5, <1>6
<1>8. \E y \in T \cup {d} : Rank(T \cup {d}, y) = Rank(S \cup {c}, c) /\ f1[c] = g1[y]
  BY <1>3, <1>4
<1>9. \A x \in S \cup {c} : \E y \in T \cup {d} :
        Rank(T \cup {d}, y) = Rank(S \cup {c}, x) /\ f1[x] = g1[y]
  BY <1>7, <1>8
<1> HIDE DEF F, G
<1>10. \A x \in F : \E y \in G : Rank(G, y) = Rank(F, x) /\ f1[x] = g1[y]
  BY <1>9 DEF F, G
<1>11. Cardinality(F) = Cardinality(G)
  BY <1>3 DEF F, G
<1> QED BY <1>0, <1>10, <1>11, Zenon DEF InOrder

-----------------------------------------------------------------------------
(* Where documents end. *)
LEMMA EndsArePositions ==
  ASSUME NEW f \in Formats, NEW s \in Seq(Lines)
  PROVE  Ends(f, s) \subseteq 1..Len(s) + 1
  BY DEF Ends, Formats

LEMMA DocEndsArePositions ==
  ASSUME StdinTypeOK, fmt # "none"
  PROVE  /\ DocEnds \subseteq 1..Len(stream) + 1 /\ DocEnds \subseteq Int
         /\ Len(stream) \in Nat /\ stream \in Seq(Lines) /\ pos \in 0..Len(stream)
         /\ Taken \subseteq DocEnds /\ Settled \subseteq Taken /\ Served \subseteq Settled
<1>1. stream \in Seq(Lines) /\ fmt \in Formats
  BY JobsAreTyped DEF StdinTypeOK
<1>2. DocEnds \subseteq 1..Len(stream) + 1
  BY <1>1, EndsArePositions DEF DocEnds
<1>3. Len(stream) \in Nat
  BY <1>1, LenProperties
<1>8. arrived \in 0..Len(stream) /\ pos \in 0..arrived
  BY DEF StdinTypeOK
<1>9. pos \in 0..Len(stream)
  BY <1>3, <1>8
<1>4. Taken \subseteq DocEnds
  BY DEF Taken
<1>5. Settled \subseteq Taken
  BY DEF Settled
<1>6. Served \subseteq Settled
  BY DEF Served
<1>7. DocEnds \subseteq Int
  <2> DEFINE n == Len(stream)
  <2> HIDE DEF n
  <2>1. n \in Nat /\ DocEnds \subseteq 1..n + 1
    BY <1>2, <1>3 DEF n
  <2> QED BY <2>1
<1> QED BY <1>1, <1>2, <1>3, <1>4, <1>5, <1>6, <1>7, <1>9

(* Documents are taken, and dealt with, in their order. *)
LEMMA SettledInOrder ==
  ASSUME StdinTypeOK, fmt # "none", NEW p, NEW q \in DocEnds, q < p
  PROVE  /\ p \in Taken => q \in Taken
         /\ p \in Settled => q \in Settled
<1>1. ASSUME p \in Taken PROVE q \in Taken
  <2>1. p \in DocEnds /\ p \in Int /\ q \in Int
    BY <1>1, DocEndsArePositions
  <2>2. pos \in Int
    BY DocEndsArePositions
  <2> QED BY <1>1, <2>1, <2>2 DEF Taken
<1>2. ASSUME p \in Settled PROVE q \in Settled
  BY <1>1, <1>2 DEF Settled
<1> QED BY <1>1, <1>2

(* While nothing has stopped the run, what was served is the first of what *)
(* is due.                                                                 *)
LEMMA ServedIsDue ==
  ASSUME StdinTypeOK, fmt # "none", \A p \in Settled : ~Stops(p)
  PROVE  /\ Served \subseteq Due
         /\ \A p \in Served : Rank(Due, p) = Rank(Served, p)
<1>1. Served \subseteq Due
  BY SettledInOrder, DocEndsArePositions DEF Served, Due
<1>2. ASSUME NEW p \in Served, NEW q, q <= p
      PROVE  q \in Served <=> q \in Due
  <2>1. ASSUME q \in Due PROVE q \in Served
    <3>1. q \in DocEnds /\ q \in Int /\ p \in Int /\ p \in Settled
      BY <2>1, DocEndsArePositions DEF Due, Served
    <3>2. q = p \/ q < p
      BY <1>2, <3>1
    <3>3. q \in Settled
      BY <3>1, <3>2, SettledInOrder
    <3> QED BY <2>1, <3>3 DEF Due, Served
  <2> QED BY <1>1, <2>1
<1> QED BY <1>1, <1>2, RanksStay

LEMMA MatchedInOrder ==
  ASSUME StdinTypeOK, Running, Account, Matching, broken = 0
  PROVE  InOrder(Written, Replies(Due))
<1>1. /\ Served \subseteq Due
      /\ \A p \in Served : Rank(Due, p) = Rank(Served, p)
  BY ServedIsDue DEF Account, Running
<1>2. DOMAIN Replies(Due) = Due /\ DOMAIN Replies(Served) = Served
  BY DEF Replies
<1>3. \A p \in Served : Replies(Due)[p] = Replies(Served)[p]
  BY <1>1 DEF Replies
<1>4. InOrder(Written, Replies(Served))
  BY DEF Matching
<1> QED BY <1>1, <1>2, <1>3, <1>4 DEF InOrder

-----------------------------------------------------------------------------
(* What no step but Detect changes: the documents and their answers. *)
LEMMA SameText ==
  ASSUME UNCHANGED <<job, stream, fmt>>
  PROVE  /\ DocEnds' = DocEnds /\ Due' = Due /\ Options' = Options
         /\ \A p : Input(p)' = Input(p) /\ Reply(p)' = Reply(p) /\ (Stops(p)' <=> Stops(p))
<1>1. Options' = Options /\ OutFmt' = OutFmt /\ DocEnds' = DocEnds
  BY DEF Options, OutFmt, DocEnds
<1>2. \A p : Input(p)' = Input(p)
  BY DEF Input
<1>3. \A p : Reply(p)' = Reply(p)
  BY <1>1 DEF Reply, Input, AnswerTo
<1>4. \A p : Stops(p)' <=> Stops(p)
  BY <1>1 DEF Stops, Halts, Input, AnswerTo
<1> QED BY <1>1, <1>2, <1>3, <1>4 DEF Due

LEMMA SameTaken ==
  ASSUME UNCHANGED <<job, stream, fmt, pos, buf, docs>>
  PROVE  Taken' = Taken
  BY SameText DEF Taken, WholeText

(* What is dealt with when something is being dealt with, and when not.    *)
LEMMA SettledButOne ==
  ASSUME NEW T \in SUBSET Int, NEW c \in T, \A q \in T : q <= c
  PROVE  /\ {p \in T : \E q \in T : p < q} = T \ {c}
         /\ T = (T \ {c}) \cup {c} /\ \A q \in T \ {c} : q < c
<1>1. c \in Int /\ \A q \in T : q \in Int
  OBVIOUS
<1>2. \A q \in T \ {c} : q < c
  BY <1>1
<1>3. \A p \in T : (\E q \in T : p < q) <=> p # c
  BY <1>1, <1>2
<1> QED BY <1>2, <1>3

(* A step that deals with no document and writes none.                     *)
LEMMA NothingSettled ==
  ASSUME StdinTypeOK, Running, Account, Matching, UNCHANGED <<job, stream, fmt, broken, hadError>>,
         Settled' = Settled, Written' = Written
  PROVE  Account' /\ Matching'
<1>1. Served' = Served /\ Options' = Options
  BY SameText DEF Served
<1>2. \A p \in Settled' : ~Stops(p)'
  BY SameText DEF Account
<1>3. Account'
  BY <1>1, <1>2 DEF Account
<1>4. Replies(Served)' = Replies(Served)
  BY <1>1, SameText DEF Replies
<1>5. DOMAIN Written = Bodies(stdout) /\ DOMAIN Written' = Bodies(stdout')
  BY DEF Written
<1> QED BY <1>1, <1>3, <1>4, <1>5 DEF Matching

(* A document has been answered and its answer is written.                 *)
LEMMA AnswerWritten ==
  ASSUME StdinTypeOK, Running, Account, Matching, UNCHANGED <<job, stream, fmt, broken, hadError>>,
         NEW c \in DocEnds, \A q \in Settled : q < c, Settled' = Settled \cup {c},
         ~Stops(c), Reply(c) # None,
         NEW l, l.value = Reply(c), stdout' = Append(stdout, l)
  PROVE  Account' /\ Matching'
<1>1. Options' = Options /\ Served' = Served \cup {c} /\ c \notin Served /\ c \notin Settled
  <2>1. \A p : Reply(p)' = Reply(p)
    BY SameText
  <2>2. c \notin Settled
    BY DocEndsArePositions DEF Running
  <2> QED BY <2>1, <2>2, SameText DEF Served
<1>2. \A p \in Settled' : ~Stops(p)'
  BY SameText DEF Account
<1>3. (Settled' # Served') <=> Settled # Served
  BY <1>1, DocEndsArePositions DEF Running
<1>4. Account'
  BY <1>1, <1>2, <1>3 DEF Account, Running
<1>5. /\ DOMAIN stdout = 1..Len(stdout) /\ DOMAIN stdout' = 1..Len(stdout) + 1 /\ Len(stdout) \in Nat
      /\ stdout'[Len(stdout) + 1] = l /\ \A i \in DOMAIN stdout : stdout'[i] = stdout[i]
  BY DEF StdinTypeOK
<1>6. Bodies(stdout') = Bodies(stdout) \cup {Len(stdout) + 1} /\ Bodies(stdout) \subseteq 1..Len(stdout)
  BY <1>5 DEF Bodies
<1>7. Served \subseteq 1..Len(stream) + 1 /\ Len(stream) + 1 \in Nat /\ c \in Int /\ \A q \in Served : q < c
  BY DocEndsArePositions DEF Running
<1>8. IsFiniteSet(Bodies(stdout)) /\ IsFiniteSet(Served)
  <2>1. IsFiniteSet(1..Len(stdout)) /\ IsFiniteSet(1..Len(stream) + 1)
    BY <1>5, <1>7, FS_Interval
  <2> QED BY <2>1, <1>6, <1>7, FS_Subset
<1>9. Grows(Written, Written', Len(stdout) + 1)
  <2>1. DOMAIN Written = Bodies(stdout) /\ DOMAIN Written' = Bodies(stdout) \cup {Len(stdout) + 1}
    BY <1>6 DEF Written
  <2>2. \A i \in Bodies(stdout) : i < Len(stdout) + 1 /\ Written'[i] = Written[i]
    BY <1>5, <1>6 DEF Written
  <2>3. Bodies(stdout) \subseteq Int /\ Len(stdout) + 1 \in Int
    BY <1>5, <1>6
  <2> QED BY <1>8, <2>1, <2>2, <2>3 DEF Grows
<1>10. Grows(Replies(Served), Replies(Served)', c)
  <2>1. DOMAIN Replies(Served) = Served /\ DOMAIN Replies(Served)' = Served \cup {c}
    BY <1>1 DEF Replies
  <2>2. \A q \in Served : Replies(Served)'[q] = Replies(Served)[q]
    BY <1>1, SameText DEF Replies
  <2>3. Served \subseteq Int
    BY <1>7
  <2> DEFINE f == Replies(Served)
             f1 == Replies(Served)'
  <2> HIDE DEF f, f1
  <2>4. DOMAIN f = Served /\ DOMAIN f1 = Served \cup {c} /\ \A q \in Served : f1[q] = f[q]
    BY <2>1, <2>2 DEF f, f1
  <2>5. Grows(f, f1, c)
    BY <1>7, <1>8, <2>3, <2>4 DEF Grows
  <2> QED BY <2>5 DEF f, f1
<1> SUFFICES ASSUME Running', broken' = 0 PROVE Matching'
  BY <1>4 DEF Matching
<1>11. InOrder(Written, Replies(Served)) /\ Cardinality(DOMAIN Written) = Cardinality(DOMAIN Replies(Served))
  BY DEF Matching, Written, Replies
<1>12. Written'[Len(stdout) + 1] = Replies(Served)'[c]
  <2>1. Written'[Len(stdout) + 1] = l.value
    BY <1>5, <1>6 DEF Written
  <2>2. Replies(Served)'[c] = Reply(c)
    BY <1>1, SameText DEF Replies
  <2> QED BY <2>1, <2>2
<1>13. /\ InOrder(Written', Replies(Served)')
       /\ Cardinality(DOMAIN Written') = Cardinality(DOMAIN (Replies(Served)'))
  BY <1>9, <1>10, <1>11, <1>12, InOrderGrows
<1>14. DOMAIN Written' = Bodies(stdout') /\ DOMAIN (Replies(Served)') = Served'
  BY DEF Written, Replies
<1> QED BY <1>13, <1>14, Zenon DEF Matching

(* A document fails under --keep-going.                                    *)
LEMMA FailedDocument ==
  ASSUME StdinTypeOK, Running, Account, Matching, UNCHANGED <<job, stream, fmt>>,
         Options["keepGoing"], hadError' = (fmt # "json"),
         NEW c \in DocEnds, \A q \in Settled : q < c, Settled' = Settled \cup {c}, ~Stops(c),
         \/ UNCHANGED <<stdout, broken>> /\ Reply(c) = None
         \/ broken' = broken + 1
  PROVE  Account' /\ Matching'
<1>1. broken \in Nat /\ broken' \in Nat
  BY StdinAssumption DEF StdinTypeOK
<1>2. Options' = Options /\ \A p \in Settled' : ~Stops(p)'
  BY SameText DEF Account
<1>3. c \notin Served /\ c \notin Settled
  BY DocEndsArePositions DEF Running, Served
<1>4. broken' > 0 \/ Settled' # Served'
  <2>1. CASE broken' = broken + 1
    BY <1>1, <2>1
  <2>2. CASE Reply(c) = None
    <3>1. c \in Settled' /\ c \notin Served'
      BY <2>2, SameText DEF Served
    <3> QED BY <3>1
  <2> QED BY <2>1, <2>2
<1>5. Account'
  BY <1>2, <1>4 DEF Account, Running
<1> SUFFICES ASSUME Running', broken' = 0 PROVE Matching'
  BY <1>5 DEF Matching
<1>6. UNCHANGED <<stdout, broken>> /\ Reply(c) = None /\ broken = 0
  BY <1>1
<1>7. Served' = Served
  <2>1. \A p : Reply(p)' = Reply(p)
    BY SameText
  <2> QED BY <1>6, <2>1 DEF Served
<1>8. Written' = Written /\ Bodies(stdout') = Bodies(stdout) /\ Replies(Served)' = Replies(Served)
  BY <1>6, <1>7, SameText DEF Written, Replies
<1> QED BY <1>5, <1>6, <1>7, <1>8 DEF Matching

(* A write fails under --keep-going after the document was dealt with.     *)
LEMMA BrokenWrite ==
  ASSUME StdinTypeOK, Running, Account, Matching, UNCHANGED <<job, stream, fmt>>,
         Options["keepGoing"], hadError' = (fmt # "json"), broken' = broken + 1, Settled' = Settled
  PROVE  Account' /\ Matching'
<1>1. broken' > 0
  BY StdinAssumption DEF StdinTypeOK
<1>2. Options' = Options /\ \A p \in Settled' : ~Stops(p)'
  BY SameText DEF Account
<1>3. Account'
  BY <1>1, <1>2 DEF Account
<1>4. Matching'
  BY <1>1 DEF Matching
<1> QED BY <1>3, <1>4

-----------------------------------------------------------------------------
(* The ways a run ends. *)
LEMMA AllIsWritten ==
  ASSUME StdinTypeOK, Running, Account, Matching, UNCHANGED <<job, stream, fmt, stdout, broken>>,
         Due \subseteq Settled
  PROVE  AnswersInOrder' /\ Due = Served
<1>1. Due = Served
  BY ServedIsDue DEF Account, Running, Served, Due
<1>2. Written' = Written /\ Replies(Due)' = Replies(Due) /\ Bodies(stdout)' = Bodies(stdout)
  BY SameText DEF Written, Replies
<1>3. Cardinality(Due)' = Cardinality(Due)
  BY SameText
<1>4. broken = 0 => InOrder(Written, Replies(Due)) /\ Cardinality(Bodies(stdout)) = Cardinality(Due)
  BY <1>1 DEF Matching
<1> QED BY <1>1, <1>2, <1>3, <1>4 DEF AnswersInOrder

(* at a document that stops it,                                            *)
LEMMA RunHalts ==
  ASSUME StdinTypeOK, Running, Account, Matching, UNCHANGED <<job, stream, fmt, stdout, broken>>,
         code' = 1 \/ (fmt = "json" /\ Options["keepGoing"]),
         NEW h \in DocEnds, Stops(h), \A q \in DocEnds : q < h => q \in Settled
  PROVE  (AnswersInOrder /\ StatusIsTrue)'
<1>1. Due \subseteq Settled
  <2> SUFFICES ASSUME NEW p \in Due PROVE p \in Settled
    OBVIOUS
  <2>1. p \in DocEnds /\ ~Stops(p) /\ ~(h < p)
    BY DEF Due
  <2>2. p \in Int /\ h \in Int /\ p # h
    BY <2>1, DocEndsArePositions DEF Running
  <2>3. p < h
    BY <2>1, <2>2
  <2> QED BY <2>1, <2>3
<1>2. h \in DocEnds' /\ Stops(h)' /\ Options' = Options
  BY SameText
<1>3. AnswersInOrder'
  BY <1>1, AllIsWritten
<1>4. StatusIsTrue'
  BY <1>2 DEF StatusIsTrue
<1> QED BY <1>3, <1>4

(* with an answer that cannot be written,                                  *)
LEMMA OutputIsLost ==
  ASSUME StdinTypeOK, broken' = broken + 1, code' = 1
  PROVE  (AnswersInOrder /\ StatusIsTrue)'
<1>1. broken' # 0
  BY StdinAssumption DEF StdinTypeOK
<1> QED BY <1>1 DEF AnswersInOrder, StatusIsTrue

(* and when it stays where it ended.                                       *)
LEMMA EndStays ==
  ASSUME UNCHANGED <<job, stream, fmt, stdout, broken, pc, code>>, AnswersInOrder, StatusIsTrue
  PROVE  (AnswersInOrder /\ StatusIsTrue)'
<1>1. Written' = Written /\ Replies(Due)' = Replies(Due) /\ Bodies(stdout)' = Bodies(stdout)
  BY SameText DEF Written, Replies
<1>2. AnswersInOrder'
  BY <1>1, SameText DEF AnswersInOrder
<1>3. StatusIsTrue'
  BY SameText DEF StatusIsTrue
<1> QED BY <1>2, <1>3

-----------------------------------------------------------------------------
(* The reader hands on one document after the other. *)
LEMMA DocumentTaken ==
  ASSUME StdinTypeOK, Running, Account, Matching, pc = "read",
         UNCHANGED <<job, stream, fmt, stdout, broken, hadError>>,
         NEW c \in DocEnds, \A q \in Taken : q < c, \A q \in DocEnds : q < c => q \in Taken,
         NEW v \in Values \cup {None}, Input(c) = v, Decoded(v),
         v # None => Taken' = Taken \cup {c}
  PROVE  (Current /\ Account /\ Matching /\ (pc = "done" => AnswersInOrder /\ StatusIsTrue))'
<1>1. /\ Settled = Taken /\ c \in Int
      /\ v # None => Taken' \in SUBSET Int /\ \A q \in Taken' : q <= c
  <2>1. Settled = Taken
    BY DEF Settled, Busy
  <2>2. c \in Int /\ DocEnds \subseteq Int /\ Taken \subseteq DocEnds
    BY DocEndsArePositions DEF Running
  <2>3. ASSUME v # None PROVE Taken' \in SUBSET Int /\ \A q \in Taken' : q <= c
    <3>1. Taken' = Taken \cup {c}
      BY <2>3
    <3> QED BY <2>2, <3>1
  <2> QED BY <2>1, <2>2, <2>3
<1>2. CASE v = None
  <2>1. Stops(c)
    BY <1>2 DEF Stops, Halts
  <2>2. pc' = "done" /\ (code' = 1 \/ (fmt = "json" /\ Options["keepGoing"]))
    BY <1>2 DEF Decoded, BadDocument, Leave
  <2>3. (AnswersInOrder /\ StatusIsTrue)'
    BY <1>1, <2>1, <2>2, RunHalts
  <2>4. Current' /\ Account' /\ Matching'
    BY <2>2 DEF Current, Account, Matching, Running, Busy
  <2> QED BY <2>3, <2>4
<1>3. CASE v # None
  <2>1. v \in Values /\ val' = v /\ pc' = IF Options["where"] THEN "where" ELSE "query"
    BY <1>3 DEF Decoded, Goto
  <2>2. Options["where"] \in BOOLEAN /\ pc' \in Busy
    BY <2>1, JobsAreTyped DEF StdinTypeOK, Busy
  <2>3. Settled' = Taken
    <3>1. Settled' = {p \in Taken' : \E q \in Taken' : p < q}
      BY <2>2 DEF Settled, Busy
    <3>2. {p \in Taken' : \E q \in Taken' : p < q} = Taken' \ {c}
      BY <1>1, <1>3, SettledButOne
    <3>3. c \notin Taken
      BY <1>1
    <3> QED BY <1>3, <3>1, <3>2, <3>3
  <2>4. Account' /\ Matching'
    BY <1>1, <2>3, NothingSettled DEF Written
  <2>5. ~Options["where"] => ApplyWhere(v, Options) = "match"
    BY <2>1, QueriesAnswer DEF StdinTypeOK
  <2>6. Current'
    <3>1. Options' = Options /\ Input(c)' = v /\ c \in Taken'
      BY <1>3, SameText
    <3>2. pc' = "query" => ApplyWhere(val, Options)' = "match"
      BY <2>1, <2>5, <3>1 DEF ApplyWhere
    <3> QED BY <1>1, <1>3, <2>1, <3>1, <3>2 DEF Current
  <2> QED BY <2>1, <2>4, <2>6
<1> QED BY <1>2, <1>3

-----------------------------------------------------------------------------
(* What the text of the document that ends at a line is. *)
LEMMA GreatestIsMax ==
  ASSUME NEW S, NEW b \in S, S \subseteq Int, \A q \in S : q <= b
  PROVE  Max(S) = b
<1>1. \A x \in S : (\A y \in S : x >= y) => x = b
  OBVIOUS
<1>2. \A y \in S : b >= y
  OBVIOUS
<1> QED BY <1>1, <1>2 DEF Max

LEMMA LeastExists ==
  ASSUME NEW S, S \subseteq Nat, S # {}
  PROVE  \E x \in S : \A y \in S : x <= y
<1>1. PICK x \in S : \A y \in S : ~(<<y, x>> \in OpToRel(<, Nat))
  BY NatLessThanWellFounded, WFMin
<1>2. OpToRel(<, Nat) = {p \in Nat \X Nat : p[1] < p[2]}
  BY DEF OpToRel
<1>3. \A y \in S : ~(y < x)
  BY <1>1, <1>2
<1> QED BY <1>3

LEMMA GreatestExists ==
  ASSUME NEW n \in Nat, NEW S, S \subseteq 0..n, S # {}
  PROVE  Max(S) \in S
<1> DEFINE R == {k \in 0..n : n - k \in S}
<1>1. R \subseteq Nat /\ R # {}
  <2>1. PICK x \in S : TRUE
    OBVIOUS
  <2>2. x \in 0..n
    BY <2>1
  <2>3. n - x \in 0..n /\ n - (n - x) = x
    BY <2>2
  <2>4. n - x \in R
    BY <2>1, <2>3
  <2>5. R \subseteq Nat
    OBVIOUS
  <2> HIDE DEF R
  <2> QED BY <2>4, <2>5
<1>2. PICK k \in R : \A j \in R : k <= j
  BY <1>1, LeastExists
<1>3. n - k \in S /\ S \subseteq Int
  OBVIOUS
<1>4. \A x \in S : x <= n - k
  <2> SUFFICES ASSUME NEW x \in S PROVE x <= n - k
    OBVIOUS
  <2>1. n - x \in R /\ x \in 0..n /\ k \in 0..n
    OBVIOUS
  <2>2. k <= n - x
    BY <1>2, <2>1
  <2> QED BY <2>1, <2>2
<1> QED BY <1>3, <1>4, GreatestIsMax

LEMMA LastSepIs ==
  ASSUME NEW s, NEW p \in Nat, NEW b \in 0..p - 1, b = 0 \/ s[b] = Sep,
         \A q \in b + 1..p - 1 : s[q] # Sep
  PROVE  LastSep(s, p) = b
<1> DEFINE S == {0} \cup {q \in 1..p - 1 : s[q] = Sep}
<1>1. b \in S /\ S \subseteq Int /\ \A q \in S : q <= b
  OBVIOUS
<1>2. Max(S) = b
  BY <1>1, GreatestIsMax
<1> QED BY <1>2 DEF LastSep

LEMMA JSONLText ==
  ASSUME NEW g, NEW s, NEW p
  PROVE  ValueAt("jsonl", g, s, p) = IF s[p].form = "long" THEN None ELSE DecodeText(<<s[p]>>)
<1>1. TextAt("jsonl", s, p) = <<s[p]>>
  BY DEF TextAt
<1>2. (\E i \in DOMAIN <<s[p]>> : <<s[p]>>[i].form = "long") <=> s[p].form = "long"
  OBVIOUS
<1> QED BY <1>1, <1>2 DEF ValueAt, ValueOf, HasLong

LEMMA YamlText ==
  ASSUME StdinTypeOK, Running, Reading, fmt = "yaml", buf # <<>>
  PROVE  ValueAt("yaml", job.text, stream, pos + 1) = DecodeYAML(buf, job.text)
<1>1. stream \in Seq(Lines) /\ buf \in Seq(Lines) /\ Len(buf) \in Nat \ {0} /\ Len(stream) \in Nat
  <2>1. stream \in Seq(Lines) /\ buf \in Seq(Lines \ {Sep})
    BY JobsAreTyped DEF StdinTypeOK
  <2>2. buf \in Seq(Lines)
    BY <2>1, SeqMonotonic, Zenon
  <2> QED BY <2>1, <2>2, EmptySeq
<1> DEFINE b == pos - Len(buf)
<1>2. pos \in 0..Len(stream)
  BY DocEndsArePositions DEF Running
<1>3. /\ docs + Len(buf) <= pos /\ (b = 0 \/ stream[b] = Sep)
      /\ \A i \in 1..Len(buf) : buf[i] = stream[b + i] /\ buf[i] # Sep /\ buf[i].form # "long"
  BY DEF Reading, WholeText
<1>4. docs \in Nat
  BY <1>1 DEF StdinTypeOK
<1>5. b \in 0..pos /\ pos \in Nat /\ pos <= Len(stream)
  BY <1>1, <1>2, <1>3, <1>4
<1>6. \A q \in b + 1..pos : stream[q] # Sep
  <2> SUFFICES ASSUME NEW q \in b + 1..pos PROVE stream[q] # Sep
    OBVIOUS
  <2>1. q - b \in 1..Len(buf) /\ b + (q - b) = q
    BY <1>1, <1>5
  <2> QED BY <1>3, <2>1
<1>7. LastSep(stream, pos + 1) = b
  <2>1. pos + 1 \in Nat /\ b \in 0..(pos + 1) - 1 /\ (pos + 1) - 1 = pos
    BY <1>5
  <2> QED BY <1>3, <1>6, <2>1, LastSepIs
<1>8. SubSeq(stream, b + 1, pos) = buf
  <2> HIDE DEF b
  <2>0. Len(buf) = pos - b
    BY <1>1, <1>2 DEF b
  <2>1. b + 1 \in 1..Len(stream) + 1 /\ pos \in 0..Len(stream)
    BY <1>1, <1>2, <1>5, <2>0
  <2>2. /\ SubSeq(stream, b + 1, pos) \in Seq(Lines)
        /\ Len(SubSeq(stream, b + 1, pos)) = Len(buf)
        /\ \A i \in 1..Len(buf) : SubSeq(stream, b + 1, pos)[i] = stream[b + i]
    BY <1>1, <1>5, <2>0, <2>1
  <2> QED BY <1>1, <1>3, <2>2, SeqEqual
<1>9. TextAt("yaml", stream, pos + 1) = buf
  <2>1. (pos + 1) - 1 = pos
    BY <1>5
  <2> QED BY <1>7, <1>8, <2>1 DEF TextAt
<1>10. ~\E i \in DOMAIN buf : buf[i].form = "long"
  BY <1>1, <1>3
<1> QED BY <1>9, <1>10 DEF ValueAt, ValueOf, HasLong

(* A long line makes its document one that does not decode. *)
LEMMA LongLineHalts ==
  ASSUME StdinTypeOK, Running, fmt = "yaml", pos + 1 \in 1..Len(stream), stream[pos + 1].form = "long"
  PROVE  \E h \in DocEnds : Stops(h) /\ \A q \in DocEnds : q < h => q <= pos
<1>1. /\ stream \in Seq(Lines) /\ Len(stream) \in Nat /\ pos \in 0..Len(stream)
      /\ DocEnds \subseteq Int
  BY DocEndsArePositions DEF Running
<1>2. pos \in Nat /\ pos + 1 <= Len(stream) /\ stream[pos + 1] # Sep
  BY <1>1, MarksHaveNoValue
<1> DEFINE n == Len(stream)
           E == {p \in pos + 2..n + 1 : p = n + 1 \/ stream[p] = Sep}
<1>3. PICK h \in E : \A q \in E : h <= q
  <2>1. E \subseteq Nat /\ n + 1 \in E
    BY <1>1, <1>2
  <2> HIDE DEF E
  <2> QED BY <2>1, LeastExists
<1>4. h \in pos + 2..n + 1 /\ (h = n + 1 \/ stream[h] = Sep)
  OBVIOUS
<1>5. \A q \in pos + 1..h - 1 : stream[q] # Sep
  <2> SUFFICES ASSUME NEW q \in pos + 1..h - 1, stream[q] = Sep PROVE FALSE
    OBVIOUS
  <2>1. q # pos + 1
    BY <1>2
  <2>2. q \in E /\ q < h /\ h \in Int /\ q \in Int
    BY <1>1, <1>2, <1>4, <2>1
  <2> QED BY <1>3, <2>2
<1>6. h \in DocEnds
  <2>1. h \in 2..n + 1 /\ h - 1 \in pos + 1..h - 1
    BY <1>1, <1>2, <1>4
  <2>2. stream[h - 1] # Sep
    BY <1>5, <2>1
  <2>3. DocEnds = {p \in 2..n + 1 : stream[p - 1] # Sep /\ (p = n + 1 \/ stream[p] = Sep)}
    BY DEF DocEnds, Ends
  <2> QED BY <1>4, <2>1, <2>2, <2>3
<1>7. \A q \in DocEnds : q < h => q <= pos
  <2> SUFFICES ASSUME NEW q \in DocEnds, q < h, ~(q <= pos) PROVE FALSE
    OBVIOUS
  <2>1. q \in 2..n + 1 /\ (q = n + 1 \/ stream[q] = Sep)
    BY DEF DocEnds, Ends
  <2>2. q # pos + 1
    BY <1>1, <1>2, <2>1
  <2>3. q \in E
    BY <1>1, <1>2, <2>1, <2>2
  <2> QED BY <1>1, <1>3, <1>4, <2>1, <2>3
<1>8. Stops(h)
  <2> DEFINE L == LastSep(stream, h)
             t == TextAt("yaml", stream, h)
  <2>1. L \in 0..pos
    <3> DEFINE S == {0} \cup {q \in 1..h - 1 : stream[q] = Sep}
    <3>1. S \subseteq 0..pos /\ S # {}
      BY <1>1, <1>2, <1>4, <1>5
    <3>2. Max(S) \in S
      BY <1>2, <3>1, GreatestExists
    <3> QED BY <3>1, <3>2 DEF LastSep
  <2> HIDE DEF L
  <2>2. t = SubSeq(stream, L + 1, h - 1)
    BY DEF TextAt, L
  <2>3. /\ DOMAIN t = 1..h - 1 - L
        /\ \A i \in 1..h - 1 - L : t[i] = stream[L + i]
    BY <1>1, <1>2, <1>4, <2>1, <2>2
  <2>4. pos + 1 - L \in 1..h - 1 - L /\ L + (pos + 1 - L) = pos + 1
    BY <1>2, <1>4, <2>1
  <2>5. \E i \in DOMAIN t : t[i].form = "long"
    BY <2>3, <2>4
  <2>6. Input(h) = None
    BY <2>5 DEF Input, ValueAt, ValueOf, HasLong
  <2> QED BY <2>6 DEF Stops, Halts
<1> QED BY <1>6, <1>7, <1>8

-----------------------------------------------------------------------------
(* The steps of the reader. *)
Quiet == UNCHANGED <<job, stream, arrived, closed, fmt, answer, via, started, hadError, stdout, broken>>

LEMMA ReaderState ==
  ASSUME StdinTypeOK, Running
  PROVE  /\ stream \in Seq(Lines) /\ Len(stream) \in Nat /\ pos \in 0..Len(stream)
         /\ arrived \in 0..Len(stream) /\ pos \in 0..arrived /\ DocEnds \subseteq Int
         /\ docs \in 0..Len(stream) + 1 /\ buf \in Seq(Lines \ {Sep}) /\ Len(buf) \in Nat
         /\ code = -1 /\ fmt \in Formats /\ DocEnds \subseteq 1..Len(stream) + 1
<1>1. code = -1 /\ fmt \in Formats
  BY DEF StdinTypeOK, Running
<1>2. buf \in Seq(Lines \ {Sep}) /\ Len(buf) \in Nat
  BY DEF StdinTypeOK
<1>3. arrived \in 0..Len(stream) /\ pos \in 0..arrived /\ docs \in 0..Len(stream) + 1
  BY DEF StdinTypeOK
<1> QED BY <1>1, <1>2, <1>3, DocEndsArePositions DEF Running

LEMMA TypesOfReading ==
  ASSUME StdinTypeOK, Running, Fresh, Quiet, pos' \in 0..arrived, docs' \in 0..Len(stream) + 1,
         buf' \in Seq(Lines \ {Sep}), val' \in Values \cup {None},
         pc' \in Steps \ {"detect"}, code' \in {-1, 0, 1}, pc' = "done" <=> code' # -1
  PROVE  StdinTypeOK' /\ Fresh'
<1>1. /\ job' \in Jobs /\ stream' \in Streams[job'.text][job'.piped]
      /\ arrived' \in 0..Len(stream') /\ closed' \in BOOLEAN
  BY DEF StdinTypeOK, Quiet
<1>2. /\ fmt' \in Formats \cup {"none"} /\ pos' \in 0..arrived' /\ docs' \in 0..Len(stream') + 1
  BY DEF StdinTypeOK, Quiet
<1>3. /\ answer' \in Values \cup {None} /\ via' \in {"main", "pass"} /\ started' \in BOOLEAN
      /\ hadError' \in BOOLEAN /\ broken' \in 0..MaxBroken
  BY DEF StdinTypeOK, Quiet
<1>4. stdout' \in Seq(Docs \cup {Sep, Plus, Eol, Torn})
  BY DEF StdinTypeOK, Quiet
<1>5. StdinTypeOK'
  BY <1>1, <1>2, <1>3, <1>4 DEF StdinTypeOK
<1> QED BY <1>5 DEF Fresh, Quiet, Running

LEMMA DecodedTypes ==
  ASSUME StdinTypeOK, Running, Fresh, Quiet, pos' \in 0..arrived, docs <= Len(stream),
         NEW v \in Values \cup {None}, Decoded(v)
  PROVE  StdinTypeOK' /\ Fresh'
<1>1. buf' = <<>> /\ val' = v /\ buf' \in Seq(Lines \ {Sep})
  BY EmptySeq DEF Decoded
<1>2. CASE v = None
  <2>1. UNCHANGED docs /\ pc' = "done" /\ code' \in {0, 1}
    BY <1>2 DEF Decoded, BadDocument, Leave
  <2>2. pc' \in Steps \ {"detect"} /\ code' \in {-1, 0, 1} /\ (pc' = "done" <=> code' # -1)
    BY <2>1 DEF Steps
  <2> QED BY <1>1, <2>1, <2>2, ReaderState, TypesOfReading
<1>3. CASE v # None
  <2>1. docs' = docs + 1 /\ pc' \in {"where", "query"} /\ UNCHANGED code
    BY <1>3 DEF Decoded, Goto
  <2>2. pc' \in Steps \ {"detect"} /\ code' \in {-1, 0, 1} /\ (pc' = "done" <=> code' # -1)
    BY <2>1, ReaderState DEF Steps
  <2>3. docs' \in 0..Len(stream) + 1
    BY <2>1, ReaderState
  <2> QED BY <1>1, <2>2, <2>3, TypesOfReading
<1> QED BY <1>2, <1>3

LEMMA WholeTextIsRead ==
  ASSUME StdinIInv, ReadWhole, Quiet
  PROVE  StdinIInv'
<1>1. /\ StdinTypeOK /\ Reading /\ Account /\ Matching /\ Fresh
      /\ pc = "read" /\ fmt \in {"json", "toml"} /\ closed /\ docs = 0 /\ pos' = Len(stream)
  BY DEF StdinIInv, ReadWhole
<1>2. Running /\ arrived = Len(stream)
  BY <1>1 DEF Running, Fresh
<1> DEFINE v == IF fmt = "json" THEN DecodeJSON(stream) ELSE DecodeTOML(stream, job.text)
           c == Len(stream) + 1
<1>3. Decoded(v) /\ v \in Values \cup {None}
  BY TextsDecode DEF ReadWhole
<1>4. DocEnds = {c} /\ Taken = {} /\ c \in Int
  BY <1>1, <1>2, ReaderState DEF DocEnds, Ends, Taken, WholeText
<1>5. Input(c) = v
  BY <1>1 DEF Input, ValueAt, ValueOf, TextAt
<1>6. v # None => Taken' = {c}
  <2>1. ASSUME v # None PROVE docs' = 1
    BY <1>1, <1>3, <2>1 DEF Decoded
  <2> QED BY <1>1, <1>4, <2>1, SameText DEF Taken, WholeText, Quiet
<1> HIDE DEF v, c
<1>7. StdinTypeOK' /\ Fresh'
  BY <1>1, <1>2, <1>3, ReaderState, DecodedTypes
<1>8. (Current /\ Account /\ Matching /\ (pc = "done" => AnswersInOrder /\ StatusIsTrue))'
  BY <1>1, <1>2, <1>3, <1>4, <1>5, <1>6, DocumentTaken DEF Quiet
<1>9. Reading'
  <2> SUFFICES ASSUME Running' PROVE Reading'
    BY DEF Reading
  <2>1. v # None /\ docs' = 1 /\ buf' = <<>>
    BY <1>1, <1>3 DEF Decoded, BadDocument, Leave, Running
  <2> QED BY <1>1, <2>1 DEF Reading, WholeText, Quiet
<1> QED BY <1>7, <1>8, <1>9 DEF StdinIInv

LEMMA LineIsRead ==
  ASSUME StdinIInv, ReadLine, Quiet
  PROVE  StdinIInv'
<1> DEFINE l == stream[pos + 1]
           c == pos + 1
           n == Len(stream)
<1>1. /\ StdinTypeOK /\ Reading /\ Account /\ Matching /\ Fresh
      /\ pc = "read" /\ fmt \in {"jsonl", "yaml"} /\ pos < arrived /\ pos' = pos + 1 /\ Running
  BY DEF StdinIInv, ReadLine, Running
<1>2. /\ pos \in Nat /\ n \in Nat /\ c \in 1..n /\ c \in 0..arrived /\ pos' = c
      /\ docs \in Nat /\ docs + Len(buf) <= pos /\ docs <= n /\ Len(buf) \in Nat
      /\ stream \in Seq(Lines) /\ l \in Lines
  <2>1. docs + Len(buf) <= pos
    BY <1>1 DEF Reading, WholeText
  <2>2. /\ pos \in Nat /\ n \in Nat /\ c \in 1..n /\ c \in 0..arrived
        /\ docs \in Nat /\ Len(buf) \in Nat /\ stream \in Seq(Lines)
    BY <1>1, ReaderState
  <2>3. l \in Lines
    BY <2>2
  <2> QED BY <1>1, <2>1, <2>2, <2>3
<1>3. Taken = {p \in DocEnds : p <= pos} /\ Settled = Taken
  BY <1>1, <1>2, ReaderState DEF Taken, WholeText, Settled, Busy
<1>4. /\ fmt = "jsonl" => DocEnds = {p \in 1..n : stream[p] # Blank}
      /\ fmt = "yaml"  => DocEnds = {p \in 2..n + 1 : stream[p - 1] # Sep /\ (p = n + 1 \/ stream[p] = Sep)}
  BY DEF DocEnds, Ends
<1>5. /\ \A q \in Taken : q < c
      /\ \A q \in DocEnds : q < c => q \in Taken
  BY <1>2, <1>3, ReaderState, <1>1
<1>6. /\ fmt = "jsonl" => buf = <<>>
      /\ fmt = "yaml" => (buf # <<>> <=> pos >= 1 /\ stream[pos] # Sep)
  <2>1. fmt # "yaml" => buf = <<>>
    BY <1>1 DEF Reading
  <2>2. ASSUME fmt = "yaml", buf # <<>> PROVE pos >= 1 /\ stream[pos] # Sep
    <3>1. Len(buf) \in 1..Len(buf)
      BY <1>2, <2>2, EmptySeq, <1>1, ReaderState
    <3>2. buf[Len(buf)] = stream[pos - Len(buf) + Len(buf)] /\ buf[Len(buf)] # Sep
      BY <1>1, <3>1 DEF Reading
    <3>3. pos - Len(buf) + Len(buf) = pos /\ pos >= 1
      BY <1>2, <3>1
    <3> QED BY <3>2, <3>3
  <2>3. ASSUME fmt = "yaml", buf = <<>>, pos >= 1, stream[pos] # Sep PROVE FALSE
    <3>1. Len(buf) = 0
      BY <2>3
    <3>2. pos = Len(buf) \/ stream[pos - Len(buf)] = Sep \/ pos = n
      BY <1>1, <2>3 DEF Reading
    <3> QED BY <1>2, <2>3, <3>1, <3>2
  <2> QED BY <2>1, <2>2, <2>3
<1>7. CASE l.form = "long" /\ Leave(1) /\ UNCHANGED <<buf, val, docs>>
  <2>1. PICK h \in DocEnds : Stops(h) /\ \A q \in DocEnds : q < h => q \in Taken
    <3>1. CASE fmt = "yaml"
      <4>1. PICK h \in DocEnds : Stops(h) /\ \A q \in DocEnds : q < h => q <= pos
        BY <1>1, <1>2, <1>7, <3>1, LongLineHalts
      <4> QED BY <4>1, <1>3
    <3>2. CASE fmt = "jsonl"
      <4>1. c \in DocEnds
        BY <1>2, <1>4, <1>7, <3>2, MarksHaveNoValue
      <4>2. Input(c) = None
        BY <1>7, <3>2, JSONLText DEF Input
      <4> QED BY <1>5, <4>1, <4>2 DEF Stops, Halts
    <3> QED BY <1>1, <3>1, <3>2
  <2>2. code' = 1 /\ pc' = "done"
    BY <1>7 DEF Leave
  <2>3. (AnswersInOrder /\ StatusIsTrue)'
    BY <1>1, <1>3, <2>1, <2>2, RunHalts DEF Quiet
  <2>4. StdinTypeOK' /\ Fresh'
    <3>1. pc' \in Steps \ {"detect"} /\ code' \in {-1, 0, 1} /\ (pc' = "done" <=> code' # -1)
      BY <2>2 DEF Steps
    <3>2. docs' \in 0..n + 1 /\ buf' \in Seq(Lines \ {Sep}) /\ val' \in Values \cup {None}
      BY <1>1, <1>7 DEF StdinTypeOK
    <3> QED BY <1>1, <1>2, <3>1, <3>2, TypesOfReading
  <2> QED BY <2>2, <2>3, <2>4 DEF StdinIInv, Reading, Current, Account, Matching, Running, Busy
<1>8. ASSUME NEW v, Decoded(v), v \in Values \cup {None}, c \in DocEnds, Input(c) = v,
             v # None => Taken' = Taken \cup {c}
      PROVE  StdinIInv'
  <2>1. StdinTypeOK' /\ Fresh'
    BY <1>1, <1>2, <1>8, DecodedTypes
  <2>2. (Current /\ Account /\ Matching /\ (pc = "done" => AnswersInOrder /\ StatusIsTrue))'
    BY <1>1, <1>5, <1>8, DocumentTaken DEF Quiet
  <2>3. Reading'
    <3> SUFFICES ASSUME Running' PROVE Reading'
      BY DEF Reading
    <3>1. v # None /\ docs' = docs + 1 /\ buf' = <<>> /\ Len(buf') = 0
      BY <1>8 DEF Decoded, BadDocument, Leave, Running
    <3>2. docs' + Len(buf') <= pos'
      <4>1. fmt = "yaml" => Len(buf) > 0 \/ docs + 1 <= pos + 1
        BY <1>2
      <4> QED BY <1>2, <3>1
    <3>3. fmt' = "yaml" => stream'[pos' - Len(buf')] = Sep \/ pos' = Len(stream')
      <4>1. ASSUME fmt = "yaml", c # n PROVE stream[c] = Sep
        BY <1>2, <1>4, <1>8, <4>1
      <4> QED BY <1>2, <3>1, <4>1 DEF Quiet
    <3> QED BY <1>1, <3>1, <3>2, <3>3 DEF Reading, WholeText, Quiet
  <2> QED BY <2>1, <2>2, <2>3 DEF StdinIInv
<1>9. CASE fmt = "jsonl" /\ l.form # "long" /\ l # Blank /\ Decoded(DecodeText(<<l>>))
  <2>1. c \in DocEnds
    BY <1>2, <1>4, <1>9
  <2>2. Input(c) = DecodeText(<<l>>)
    BY <1>9, JSONLText DEF Input
  <2>3. Taken' = Taken \cup {c}
    BY <1>2, <1>3, <1>4, <1>9, <2>1, SameText DEF Taken, WholeText, Quiet
  <2> QED BY <1>8, <1>9, <2>1, <2>2, <2>3, TextsDecode
<1>10. CASE fmt = "yaml" /\ EndsDocument(l, buf) /\ Decoded(DecodeYAML(buf, job.text))
  <2>1. l = Sep /\ buf # <<>> /\ pos >= 1 /\ stream[pos] # Sep
    BY <1>6, <1>10 DEF EndsDocument
  <2>2. c \in DocEnds
    BY <1>2, <1>4, <1>10, <2>1
  <2>3. Input(c) = DecodeYAML(buf, job.text)
    BY <1>1, <1>10, <2>1, YamlText DEF Input
  <2>4. Taken' = Taken \cup {c}
    BY <1>2, <1>3, <1>4, <1>10, <2>1, <2>2, SameText DEF Taken, WholeText, Quiet
  <2> QED BY <1>8, <1>10, <2>2, <2>3, <2>4, TextsDecode
<1>11. CASE /\ IF fmt = "jsonl" THEN l = Blank ELSE l.form # "long" /\ ~EndsDocument(l, buf)
            /\ buf' = IF fmt = "jsonl" \/ l = Sep THEN buf ELSE Append(buf, l)
            /\ UNCHANGED <<val, docs>> /\ Goto("read")
  <2>1. pc' = "read" /\ UNCHANGED code
    BY <1>11 DEF Goto
  <2>2. buf' \in Seq(Lines \ {Sep}) /\ Len(buf') \in Nat /\ Len(buf') <= Len(buf) + 1
    <3>1. buf \in Seq(Lines \ {Sep})
      BY <1>1 DEF StdinTypeOK
    <3>2. CASE fmt = "jsonl" \/ l = Sep
      BY <1>2, <1>11, <3>1, <3>2
    <3>3. CASE ~(fmt = "jsonl" \/ l = Sep)
      <4>1. buf' = Append(buf, l) /\ l \in Lines \ {Sep}
        BY <1>2, <1>11, <3>3
      <4> QED BY <1>2, <3>1, <4>1, AppendProperties
    <3> QED BY <3>2, <3>3
  <2>3. StdinTypeOK' /\ Fresh'
    <3>1. pc' \in Steps \ {"detect"} /\ code' \in {-1, 0, 1} /\ (pc' = "done" <=> code' # -1)
      BY <1>1, <2>1, ReaderState DEF Steps
    <3>2. docs' \in 0..n + 1 /\ val' \in Values \cup {None}
      BY <1>1, <1>11 DEF StdinTypeOK
    <3> QED BY <1>1, <1>2, <2>2, <3>1, <3>2, TypesOfReading
  <2>4. Taken' = Taken
    <3>1. DocEnds' = DocEnds /\ stream' = stream /\ fmt' = fmt
      BY SameText DEF Quiet
    <3>2. CASE fmt = "jsonl"
      BY <1>2, <1>3, <1>4, <1>11, <3>1, <3>2 DEF Taken, WholeText
    <3>3. CASE fmt = "yaml"
      <4>1. c \notin DocEnds
        BY <1>2, <1>4, <1>6, <1>11, <3>3 DEF EndsDocument
      <4>2. ASSUME c = n, buf' = <<>> PROVE n + 1 \notin DocEnds
        <5>1. stream[n] = Sep
          <6>1. l = Sep \/ buf' = Append(buf, l)
            BY <1>11, <3>3
          <6>2. ASSUME l # Sep PROVE Append(buf, l) # <<>>
            <7>1. l \in Lines \ {Sep} /\ buf \in Seq(Lines \ {Sep})
              BY <1>1, <1>2, <6>2 DEF StdinTypeOK
            <7> QED BY <7>1, AppendProperties
          <6> QED BY <4>2, <6>1, <6>2
        <5>2. (n + 1) - 1 = n
          BY <1>2
        <5> QED BY <1>4, <3>3, <5>1, <5>2
      <4>3. \A p \in DocEnds : p <= c => p <= pos
        BY <1>1, <1>2, <4>1, ReaderState
      <4>4. \A p \in DocEnds : c = n /\ buf' = <<>> => p <= pos
        BY <1>1, <1>2, <4>2, <4>3, ReaderState
      <4> QED BY <1>1, <1>2, <1>3, <3>1, <3>3, <4>3, <4>4, ReaderState DEF Taken, WholeText
    <3> QED BY <1>1, <3>2, <3>3
  <2>5. Settled' = Settled
    BY <1>3, <2>1, <2>4 DEF Settled, Busy
  <2>6. Account' /\ Matching'
    BY <1>1, <2>5, NothingSettled DEF Quiet, Written
  <2>7. Reading'
    <3>1. CASE fmt = "jsonl"
      <4>1. buf' = <<>> /\ Len(buf') = 0 /\ docs' = docs
        BY <1>6, <1>11, <3>1
      <4> QED BY <1>2, <3>1, <4>1 DEF Reading, WholeText, Quiet
    <3>2. CASE fmt = "yaml" /\ l = Sep
      <4>1. buf = <<>> /\ buf' = <<>> /\ Len(buf') = 0 /\ Len(buf) = 0 /\ docs' = docs
        BY <1>11, <3>2 DEF EndsDocument
      <4>2. stream'[pos' - Len(buf')] = Sep
        BY <1>2, <3>2, <4>1 DEF Quiet
      <4> QED BY <1>2, <3>2, <4>1, <4>2 DEF Reading, WholeText, Quiet
    <3>3. CASE fmt = "yaml" /\ l # Sep
      <4>1. /\ docs' = docs /\ buf' = Append(buf, l) /\ l.form # "long" /\ stream' = stream
            /\ fmt' = fmt
        BY <1>11, <3>3 DEF Quiet
      <4>2. /\ Len(buf') = Len(buf) + 1 /\ buf'[Len(buf) + 1] = l
            /\ \A i \in 1..Len(buf) : buf'[i] = buf[i]
        BY <1>1, <1>2, <4>1 DEF StdinTypeOK
      <4>3. pos' - Len(buf') = pos - Len(buf)
        BY <1>2, <4>2
      <4>4. \A i \in 1..Len(buf) : /\ buf[i] = stream[pos - Len(buf) + i]
                                   /\ buf[i] # Sep /\ buf[i].form # "long"
        BY <1>1 DEF Reading
      <4>5. pos - Len(buf) + (Len(buf) + 1) = c
        BY <1>2
      <4>6. \A i \in 1..Len(buf') : /\ buf'[i] = stream'[pos' - Len(buf') + i]
                                    /\ buf'[i] # Sep /\ buf'[i].form # "long"
        <5> SUFFICES ASSUME NEW i \in 1..Len(buf) + 1
                     PROVE  /\ buf'[i] = stream[pos - Len(buf) + i]
                            /\ buf'[i] # Sep /\ buf'[i].form # "long"
          BY <4>1, <4>2, <4>3
        <5>1. CASE i = Len(buf) + 1
          BY <3>3, <4>1, <4>2, <4>5, <5>1
        <5>2. CASE i \in 1..Len(buf)
          BY <4>2, <4>4, <5>2
        <5> QED BY <1>2, <5>1, <5>2
      <4>7. pos' = Len(buf') \/ stream'[pos' - Len(buf')] = Sep
        <5>1. pos = Len(buf) \/ stream[pos - Len(buf)] = Sep
          <6>1. pos = Len(buf) \/ stream[pos - Len(buf)] = Sep \/ pos = n
            BY <1>1, <3>3 DEF Reading
          <6> QED BY <1>2, <6>1
        <5> QED BY <1>2, <4>1, <4>2, <4>3, <5>1
      <4>8. docs' + Len(buf') <= pos'
        BY <1>2, <4>1, <4>2
      <4> QED BY <3>3, <4>1, <4>6, <4>7, <4>8 DEF Reading, WholeText
    <3> QED BY <1>1, <3>1, <3>2, <3>3
  <2> QED BY <2>1, <2>3, <2>6, <2>7 DEF StdinIInv, Current, Busy
<1> QED BY <1>7, <1>9, <1>10, <1>11 DEF ReadLine

LEMMA LastIsRead ==
  ASSUME StdinIInv, ReadLast, Quiet
  PROVE  StdinIInv'
<1> DEFINE n == Len(stream)
           c == pos + 1
           v == DecodeYAML(buf, job.text)
<1>1. /\ StdinTypeOK /\ Reading /\ Account /\ Matching /\ Fresh
      /\ pc = "read" /\ fmt = "yaml" /\ closed /\ pos = n /\ buf # <<>> /\ Decoded(v) /\ pos' = pos /\ Running
  BY DEF StdinIInv, ReadLast, AtEnd, Running
<1>2. /\ n \in Nat /\ pos \in 0..arrived /\ c \in Int /\ docs \in Nat /\ docs + Len(buf) <= n
      /\ Len(buf) \in Nat \ {0} /\ docs + 1 <= n /\ n >= 1 /\ DocEnds \subseteq Int
  <2>1. docs + Len(buf) <= pos
    BY <1>1 DEF Reading, WholeText
  <2>2. Len(buf) \in Nat \ {0}
    BY <1>1, EmptySeq, ReaderState
  <2>3. n \in Nat /\ pos \in 0..arrived /\ docs \in Nat /\ DocEnds \subseteq Int
    BY <1>1, ReaderState
  <2> QED BY <1>1, <2>1, <2>2, <2>3
<1>3. stream[n] # Sep
  <2>1. Len(buf) \in 1..Len(buf)
    BY <1>2
  <2>2. buf[Len(buf)] = stream[pos - Len(buf) + Len(buf)] /\ buf[Len(buf)] # Sep
    BY <1>1, <2>1 DEF Reading
  <2>3. pos - Len(buf) + Len(buf) = n
    BY <1>1, <1>2
  <2> QED BY <2>2, <2>3
<1>4. /\ DocEnds = {p \in 2..n + 1 : stream[p - 1] # Sep /\ (p = n + 1 \/ stream[p] = Sep)}
      /\ c = n + 1 /\ c - 1 = n
  BY <1>1, <1>2 DEF DocEnds, Ends
<1>5. c \in DocEnds /\ \A q \in DocEnds : q <= n \/ q = c
  BY <1>2, <1>3, <1>4
<1>6. Taken = {p \in DocEnds : p <= n}
  BY <1>1 DEF Taken, WholeText
<1>7. Taken' = Taken \cup {c}
  <2>1. buf' = <<>> /\ pos' = n
    BY <1>1 DEF Decoded
  <2>2. DocEnds' = DocEnds /\ fmt' = fmt /\ stream' = stream
    BY SameText DEF Quiet
  <2>3. Taken' = DocEnds
    BY <1>1, <2>1, <2>2 DEF Taken, WholeText
  <2> QED BY <1>5, <1>6, <2>3
<1>8. Input(c) = v /\ v \in Values \cup {None}
  BY <1>1, YamlText, TextsDecode DEF Input
<1>9. /\ \A q \in Taken : q < c
      /\ \A q \in DocEnds : q < c => q \in Taken
  BY <1>2, <1>4, <1>5, <1>6
<1> HIDE DEF v, c
<1>10. (Current /\ Account /\ Matching /\ (pc = "done" => AnswersInOrder /\ StatusIsTrue))'
  BY <1>1, <1>5, <1>7, <1>8, <1>9, DocumentTaken DEF Quiet
<1>11. StdinTypeOK' /\ Fresh'
  <2>1. docs <= Len(stream) /\ pos' \in 0..arrived
    BY <1>1, <1>2
  <2> QED BY <1>1, <1>8, <2>1, DecodedTypes
<1>12. Reading'
  <2> SUFFICES ASSUME Running' PROVE Reading'
    BY DEF Reading
  <2>1. v # None /\ docs' = docs + 1 /\ buf' = <<>> /\ Len(buf') = 0
    BY <1>1, <1>8 DEF Decoded, BadDocument, Leave, Running
  <2> QED BY <1>1, <1>2, <2>1 DEF Reading, WholeText, Quiet
<1> QED BY <1>10, <1>11, <1>12 DEF StdinIInv

LEMMA TextEnds ==
  ASSUME StdinIInv, Finish, Quiet
  PROVE  StdinIInv'
<1>1. /\ StdinTypeOK /\ Account /\ Matching /\ Fresh /\ Running
      /\ pc = "read" /\ pos = Len(stream) /\ buf = <<>> /\ (WholeText => docs = 1)
      /\ pc' = "done" /\ code' = (IF hadError THEN 1 ELSE 0) /\ UNCHANGED <<pos, buf, val, docs>>
  <2>1. /\ StdinTypeOK /\ Account /\ Matching /\ Fresh /\ fmt # "none"
        /\ pc = "read" /\ pos = Len(stream) /\ buf = <<>> /\ UNCHANGED <<pos, buf, val, docs>>
    <3>1. fmt # "none"
      BY DEF StdinIInv, Fresh, Finish
    <3>2. StdinTypeOK /\ Account /\ Matching /\ Fresh
      BY DEF StdinIInv
    <3>3. pc = "read" /\ pos = Len(stream) /\ buf = <<>> /\ UNCHANGED <<pos, buf, val, docs>>
      BY DEF Finish, AtEnd
    <3> QED BY <3>1, <3>2, <3>3
  <2>2. (WholeText => docs = 1) /\ Leave(IF hadError THEN 1 ELSE 0)
    BY DEF Finish, WholeText
  <2> QED BY <2>1, <2>2, Zenon DEF Leave, Running
<1>2. Settled = DocEnds
  BY <1>1 DEF Settled, Taken, Busy
<1>3. StdinTypeOK' /\ Fresh'
  <2>1. pc' \in Steps \ {"detect"} /\ code' \in {-1, 0, 1} /\ (pc' = "done" <=> code' # -1)
    BY <1>1 DEF Steps
  <2>2. /\ pos' \in 0..arrived /\ docs' \in 0..Len(stream) + 1
        /\ buf' \in Seq(Lines \ {Sep}) /\ val' \in Values \cup {None}
    BY <1>1 DEF StdinTypeOK
  <2> QED BY <1>1, <2>1, <2>2, TypesOfReading
<1>4. AnswersInOrder'
  <2>1. Due \subseteq Settled
    BY <1>2 DEF Due
  <2> QED BY <1>1, <2>1, AllIsWritten DEF Quiet
<1>5. StatusIsTrue'
  <2>1. /\ \A p \in DocEnds : ~Stops(p)
        /\ broken > 0 => Options["keepGoing"]
        /\ hadError <=> fmt # "json" /\ (broken > 0 \/ Settled # Served)
    BY <1>1, <1>2 DEF Account
  <2>2. broken \in Nat /\ hadError \in BOOLEAN /\ Options["keepGoing"] \in BOOLEAN
    BY <1>1, JobsAreTyped, StdinAssumption DEF StdinTypeOK
  <2>3. Settled # Served <=> \E p \in DocEnds : Reply(p) = None
    BY <1>2 DEF Served
  <2>4. ASSUME fmt = "json", ~Options["keepGoing"]
        PROVE  broken = 0 /\ \A p \in DocEnds : Reply(p) # None
    <3>1. broken = 0
      BY <2>1, <2>2, <2>4
    <3>2. \A p \in DocEnds : Reply(p) # None
      BY <2>1, <2>4 DEF Stops, Halts, Reply
    <3> QED BY <3>1, <3>2
  <2>5. ASSUME ~(fmt = "json" /\ Options["keepGoing"])
        PROVE  ~hadError <=> broken = 0 /\ \A p \in DocEnds : Reply(p) # None
    BY <2>1, <2>2, <2>3, <2>4, <2>5
  <2>6. code' = 0 <=> ~hadError
    BY <1>1, <2>2
  <2>7. /\ DocEnds' = DocEnds /\ Options' = Options /\ fmt' = fmt /\ broken' = broken
        /\ \A p : Reply(p)' = Reply(p) /\ (Stops(p)' <=> Stops(p))
    BY SameText DEF Quiet
  <2>8. ASSUME ~(fmt = "json" /\ Options["keepGoing"])
        PROVE  code' = 0 <=> /\ fmt' # "none" /\ broken' = 0
                             /\ \A p \in DocEnds' : ~Stops(p)' /\ Reply(p)' # None
    BY <1>1, <2>1, <2>5, <2>6, <2>7, <2>8 DEF Running
  <2> QED BY <2>7, <2>8 DEF StatusIsTrue
<1> QED BY <1>1, <1>3, <1>4, <1>5 DEF StdinIInv, Reading, Current, Account, Matching, Running, Busy

LEMMA TextIsRead ==
  ASSUME StdinIInv, Read
  PROVE  StdinIInv'
<1>1. Quiet
  BY DEF Read, Quiet, world, writer, output
<1> QED BY <1>1, WholeTextIsRead, LineIsRead, LastIsRead, TextEnds DEF Read

-----------------------------------------------------------------------------
(* The steps that query and write. *)
LEMMA TypesOfWriting ==
  ASSUME StdinTypeOK, Running, Fresh, Reading, UNCHANGED <<world, reader>>,
         answer' \in Values \cup {None}, via' \in {"main", "pass"}, started' \in BOOLEAN,
         hadError' \in BOOLEAN, broken' \in 0..MaxBroken,
         stdout' \in Seq(Docs \cup {Sep, Plus, Eol, Torn}),
         pc' \in Steps \ {"detect"}, code' \in {-1, 0, 1}, pc' = "done" <=> code' # -1
  PROVE  StdinTypeOK' /\ Fresh' /\ Reading'
<1>1. /\ job' \in Jobs /\ stream' \in Streams[job'.text][job'.piped]
      /\ arrived' \in 0..Len(stream') /\ closed' \in BOOLEAN
  BY DEF StdinTypeOK, world
<1>2. /\ fmt' \in Formats \cup {"none"} /\ pos' \in 0..arrived' /\ docs' \in 0..Len(stream') + 1
      /\ buf' \in Seq(Lines \ {Sep}) /\ val' \in Values \cup {None}
  BY DEF StdinTypeOK, world, reader
<1>3. StdinTypeOK'
  BY <1>1, <1>2 DEF StdinTypeOK
<1>4. Fresh'
  BY DEF Fresh, world, reader, Running
<1>5. Reading'
  BY DEF Reading, WholeText, world, reader, Running
<1> QED BY <1>3, <1>4, <1>5

LEMMA DocFailsTypes ==
  ASSUME StdinTypeOK, Running, DocFails
  PROVE  /\ hadError' \in BOOLEAN /\ pc' \in {"read", "done"}
         /\ pc' \in Steps \ {"detect"} /\ code' \in {-1, 0, 1} /\ (pc' = "done" <=> code' # -1)
<1>1. code = -1 /\ hadError \in BOOLEAN
  BY ReaderState DEF StdinTypeOK
<1>2. CASE hadError' = (fmt # "json") /\ Goto("read")
  BY <1>1, <1>2 DEF Goto, Steps
<1>3. CASE Leave(1) /\ UNCHANGED hadError
  BY <1>1, <1>3 DEF Leave, Steps
<1> QED BY <1>2, <1>3 DEF DocFails

(* The document that is dealt with, and what it is answered. *)
LEMMA OneIsCurrent ==
  ASSUME StdinIInv, pc \in Busy
  PROVE  \E c \in DocEnds :
           /\ c \in Taken /\ Input(c) = val /\ Settled = Taken \ {c} /\ Taken = Settled \cup {c}
           /\ \A q \in Taken : q <= c
           /\ \A q \in Settled : q < c
           /\ \A q \in DocEnds : q < c => q \in Settled
<1>1. StdinTypeOK /\ Running
  BY DEF StdinIInv, Running, Fresh, Busy
<1>2. PICK c \in Taken : Input(c) = val /\ \A q \in Taken : q <= c
  BY DEF StdinIInv, Current
<1>3. Taken \subseteq DocEnds /\ DocEnds \subseteq Int
  BY <1>1, DocEndsArePositions DEF Running
<1>4. Settled = {p \in Taken : \E q \in Taken : p < q}
  BY DEF Settled
<1>5. {p \in Taken : \E q \in Taken : p < q} = Taken \ {c}
  BY <1>2, <1>3, SettledButOne
<1>6. Settled = Taken \ {c} /\ Taken = Settled \cup {c} /\ \A q \in Settled : q < c
  BY <1>2, <1>3, <1>4, <1>5
<1>7. ASSUME NEW q \in DocEnds, q < c PROVE q \in Settled
  <2>1. q \in Taken /\ q # c
    BY <1>1, <1>3, <1>7, SettledInOrder DEF Running
  <2> QED BY <1>6, <2>1
<1> QED BY <1>2, <1>3, <1>6, <1>7

(* A step between two in which the document is dealt with.                 *)
LEMMA StillBusy ==
  ASSUME StdinIInv, pc \in Busy, pc' \in Busy, UNCHANGED <<world, reader, broken, hadError>>,
         Written' = Written
  PROVE  Account' /\ Matching' /\ Taken' = Taken
<1>1. UNCHANGED <<job, stream, fmt, pos, buf, docs>>
  BY DEF world, reader
<1>2. Taken' = Taken
  BY <1>1, SameTaken
<1>3. Settled' = Settled
  BY <1>2 DEF Settled
<1>4. StdinTypeOK /\ Running /\ Account /\ Matching
  BY DEF StdinIInv, Running, Fresh, Busy
<1> QED BY <1>1, <1>2, <1>3, <1>4, NothingSettled

(* The document cannot be answered. *)
LEMMA DocumentFails ==
  ASSUME StdinIInv, pc \in Busy, DocFails, UNCHANGED <<world, reader, output>>,
         ApplyWhere(val, Options) # "fails", NEW c \in DocEnds, Reply(c) = None,
         Input(c) = val, Taken = Settled \cup {c}, \A q \in Settled : q < c,
         \A q \in DocEnds : q < c => q \in Settled
  PROVE  (Account /\ Matching /\ (pc = "done" => AnswersInOrder /\ StatusIsTrue))'
<1>1. /\ StdinTypeOK /\ Running /\ Account /\ Matching /\ val \in Values
      /\ UNCHANGED <<job, stream, fmt, stdout, broken>>
  BY DEF StdinIInv, Running, Fresh, Busy, Current, world, reader, output
<1>2. val # None /\ (Stops(c) <=> ~Options["keepGoing"])
  BY <1>1, MarksHaveNoValue DEF Stops, Halts, Reply
<1>3. CASE Options["keepGoing"] /\ hadError' = (fmt # "json") /\ Goto("read")
  <2>1. pc' = "read" /\ Running'
    BY <1>1, <1>3 DEF Goto, Running
  <2>2. Taken' = Taken
    BY SameTaken DEF world, reader
  <2>3. Settled' = Settled \cup {c}
    BY <2>1, <2>2 DEF Settled, Busy
  <2>4. Account' /\ Matching'
    BY <1>1, <1>2, <1>3, <2>3, FailedDocument
  <2> QED BY <2>1, <2>4
<1>4. CASE ~Options["keepGoing"] /\ Leave(1)
  <2>1. (AnswersInOrder /\ StatusIsTrue)'
    BY <1>1, <1>2, <1>4, RunHalts DEF Leave
  <2> QED BY <1>4, <2>1 DEF Leave, Account, Matching, Running
<1>5. CASE fmt = "json" /\ Options["keepGoing"] /\ Leave(1)
  <2>1. DocEnds = {Len(stream) + 1}
    BY <1>5 DEF DocEnds, Ends
  <2>2. Due \subseteq Settled
    BY <2>1 DEF Due
  <2>3. AnswersInOrder'
    BY <1>1, <2>2, AllIsWritten
  <2>4. StatusIsTrue'
    BY <1>1, <1>5, SameText DEF StatusIsTrue
  <2> QED BY <1>5, <2>3, <2>4 DEF Leave, Account, Matching, Running
<1> QED BY <1>3, <1>4, <1>5 DEF DocFails

(* Its answer cannot be written. *)
LEMMA AnswerIsLost ==
  ASSUME StdinIInv, pc \in {"frame", "body", "eol"}, DocFails, UNCHANGED <<world, reader>>,
         broken' = broken + 1
  PROVE  (Account /\ Matching /\ (pc = "done" => AnswersInOrder /\ StatusIsTrue))'
<1>1. /\ StdinTypeOK /\ Running /\ Account /\ Matching /\ Current
      /\ UNCHANGED <<job, stream, fmt>>
  BY DEF StdinIInv, Running, Fresh, world, reader
<1>2. CASE Options["keepGoing"] /\ hadError' = (fmt # "json") /\ Goto("read")
  <2>1. pc' = "read"
    BY <1>2 DEF Goto
  <2>2. Settled' = Taken
    <3>1. Taken' = Taken
      BY SameTaken DEF world, reader
    <3> QED BY <2>1, <3>1 DEF Settled, Busy
  <2>3. CASE pc = "eol"
    <3>1. Settled' = Settled
      BY <2>2, <2>3 DEF Settled, Busy
    <3> QED BY <1>1, <1>2, <2>1, <3>1, BrokenWrite
  <2>4. CASE pc \in {"frame", "body"}
    <3>1. pc \in Busy
      BY <2>4 DEF Busy
    <3>2. PICK c \in DocEnds : /\ Input(c) = val /\ Taken = Settled \cup {c}
                               /\ \A q \in Settled : q < c
      BY <3>1, OneIsCurrent
    <3>3. val # None /\ ApplyWhere(val, Options) # "fails"
      BY <1>1, <2>4, MarksHaveNoValue DEF Current, Busy
    <3>4. ~Stops(c)
      BY <1>2, <3>2, <3>3 DEF Stops, Halts
    <3> QED BY <1>1, <1>2, <2>1, <2>2, <3>2, <3>4, FailedDocument
  <2> QED BY <2>3, <2>4
<1>3. CASE Leave(1)
  <2>1. (AnswersInOrder /\ StatusIsTrue)'
    BY <1>1, <1>3, OutputIsLost DEF Leave
  <2> QED BY <1>3, <2>1 DEF Leave, Account, Matching, Running
<1> QED BY <1>2, <1>3 DEF DocFails

LEMMA WhereIsApplied ==
  ASSUME StdinIInv, Select
  PROVE  StdinIInv'
<1>1. /\ StdinTypeOK /\ Fresh /\ Reading /\ Current /\ Account /\ Matching /\ Running
      /\ pc = "where" /\ pc \in Busy /\ val \in Values /\ code = -1
      /\ UNCHANGED <<world, reader, started, hadError, output>>
      /\ UNCHANGED <<job, stream, fmt, stdout, broken, val>>
  <2>1. StdinTypeOK /\ Fresh /\ Reading /\ Current /\ Account /\ Matching /\ pc = "where"
    BY DEF StdinIInv, Select
  <2>2. Running /\ pc \in Busy /\ val \in Values
    BY <2>1 DEF Running, Fresh, Busy, Current
  <2> QED BY <2>1, <2>2, ReaderState DEF Select, world, reader, output
<1>2. /\ answer \in Values \cup {None} /\ via \in {"main", "pass"} /\ started \in BOOLEAN
      /\ hadError \in BOOLEAN /\ broken \in 0..MaxBroken
      /\ stdout \in Seq(Docs \cup {Sep, Plus, Eol, Torn})
  BY <1>1 DEF StdinTypeOK
<1>3. Options' = Options /\ Written' = Written
  BY <1>1 DEF Options, Written
<1>4. PICK c \in DocEnds : /\ c \in Taken /\ Input(c) = val /\ \A q \in Taken : q <= c
                           /\ \A q \in DocEnds : q < c => q \in Settled
  BY <1>1, OneIsCurrent
<1>5. CASE ApplyWhere(val, Options) = "fails" /\ Leave(1) /\ UNCHANGED <<answer, via>>
  <2>1. StdinTypeOK' /\ Fresh' /\ Reading'
    <3>1. pc' = "done" /\ code' = 1
      BY <1>5 DEF Leave
    <3>2. pc' \in Steps \ {"detect"} /\ code' \in {-1, 0, 1} /\ (pc' = "done" <=> code' # -1)
      BY <3>1 DEF Steps
    <3> QED BY <1>1, <1>2, <1>5, <3>2, TypesOfWriting DEF output
  <2>2. Stops(c)
    BY <1>4, <1>5 DEF Stops, Halts
  <2>3. (AnswersInOrder /\ StatusIsTrue)'
    BY <1>1, <1>4, <1>5, <2>2, RunHalts DEF Leave
  <2> QED BY <1>5, <2>1, <2>3 DEF StdinIInv, Leave, Current, Account, Matching, Running, Busy
<1>6. ASSUME UNCHANGED code, answer' \in Values \cup {None}, via' \in {"main", "pass"},
             ApplyWhere(val, Options) # "fails",
             \/ pc' = "query" /\ ApplyWhere(val, Options) = "match"
             \/ pc' = "frame" /\ ApplyWhere(val, Options) = "skip" /\ answer' = val /\ via' = "pass"
      PROVE  StdinIInv'
  <2>1. StdinTypeOK' /\ Fresh' /\ Reading'
    <3>1. pc' \in Steps \ {"detect"} /\ code' \in {-1, 0, 1} /\ (pc' = "done" <=> code' # -1)
      BY <1>1, <1>6 DEF Steps
    <3> QED BY <1>1, <1>2, <1>6, <3>1, TypesOfWriting DEF output
  <2>2. pc' \in Busy
    BY <1>6 DEF Busy
  <2>3. Account' /\ Matching' /\ Taken' = Taken
    BY <1>1, <1>3, <2>2, StillBusy
  <2>4. Input(c)' = val'
    BY <1>1, <1>4, SameText
  <2>5. ApplyWhere(val, Options)' = ApplyWhere(val, Options)
    BY <1>1, <1>3
  <2>6. Current'
    BY <1>1, <1>3, <1>4, <1>6, <2>3, <2>4, <2>5 DEF Current
  <2> QED BY <1>6, <2>1, <2>3, <2>6 DEF StdinIInv
<1>7. CASE ApplyWhere(val, Options) = "skip" /\ answer' = val /\ via' = "pass" /\ Goto("frame")
  BY <1>1, <1>6, <1>7 DEF Goto
<1>8. CASE ApplyWhere(val, Options) = "match" /\ Goto("query") /\ UNCHANGED <<answer, via>>
  BY <1>1, <1>2, <1>6, <1>8 DEF Goto
<1>9. ApplyWhere(val, Options) \in {"match", "skip", "fails"}
  BY <1>1, QueriesAnswer DEF StdinTypeOK
<1> QED BY <1>5, <1>7, <1>8, <1>9 DEF Select

LEMMA QueryIsRun ==
  ASSUME StdinIInv, Ask
  PROVE  StdinIInv'
<1>1. /\ StdinTypeOK /\ Fresh /\ Reading /\ Current /\ Account /\ Matching /\ Running
      /\ pc = "query" /\ pc \in Busy /\ val \in Values /\ code = -1
      /\ ApplyWhere(val, Options) = "match"
      /\ UNCHANGED <<world, reader, started, output>>
      /\ UNCHANGED <<job, stream, fmt, stdout, broken, val>>
      /\ answer' = RunQuery(Query, val, Options) /\ via' = "main"
  <2>1. StdinTypeOK /\ Fresh /\ Reading /\ Current /\ Account /\ Matching /\ pc = "query"
    BY DEF StdinIInv, Ask
  <2>2. Running /\ pc \in Busy /\ val \in Values /\ ApplyWhere(val, Options) = "match"
    BY <2>1 DEF Running, Fresh, Busy, Current
  <2> QED BY <2>1, <2>2, ReaderState DEF Ask, world, reader, output
<1>2. /\ answer' \in Values \cup {None} /\ started \in BOOLEAN
      /\ hadError \in BOOLEAN /\ broken \in 0..MaxBroken
      /\ stdout \in Seq(Docs \cup {Sep, Plus, Eol, Torn})
  BY <1>1, QueriesAnswer DEF StdinTypeOK
<1>3. Options' = Options /\ Written' = Written /\ RunQuery(Query, val, Options)' = answer'
  BY <1>1 DEF Options, Written
<1>4. PICK c \in DocEnds : /\ c \in Taken /\ Input(c) = val /\ \A q \in Taken : q <= c
                           /\ Taken = Settled \cup {c} /\ \A q \in Settled : q < c
                           /\ \A q \in DocEnds : q < c => q \in Settled
  BY <1>1, OneIsCurrent
<1>5. CASE answer' = None /\ DocFails
  <2>1. Reply(c) = None
    <3>1. RunQuery(Query, val, Options) = None
      BY <1>1, <1>5
    <3> QED BY <1>1, <1>4, <3>1 DEF Reply, AnswerTo
  <2>2. (Account /\ Matching /\ (pc = "done" => AnswersInOrder /\ StatusIsTrue))'
    BY <1>1, <1>4, <1>5, <2>1, DocumentFails
  <2>3. StdinTypeOK' /\ Fresh' /\ Reading'
    BY <1>1, <1>2, <1>5, DocFailsTypes, TypesOfWriting DEF output
  <2>4. pc' \in {"read", "done"}
    BY <1>1, <1>5, DocFailsTypes
  <2> QED BY <2>2, <2>3, <2>4 DEF StdinIInv, Current, Busy
<1>6. CASE answer' # None /\ Goto("frame") /\ UNCHANGED hadError
  <2>1. pc' = "frame" /\ pc' \in Busy /\ UNCHANGED code
    BY <1>6 DEF Goto, Busy
  <2>2. StdinTypeOK' /\ Fresh' /\ Reading'
    <3>1. pc' \in Steps \ {"detect"} /\ code' \in {-1, 0, 1} /\ (pc' = "done" <=> code' # -1)
      BY <1>1, <2>1 DEF Steps
    <3> QED BY <1>1, <1>2, <1>6, <3>1, TypesOfWriting DEF output
  <2>3. Account' /\ Matching' /\ Taken' = Taken
    BY <1>1, <1>3, <1>6, <2>1, StillBusy
  <2>4. Input(c)' = val' /\ ApplyWhere(val, Options)' = "match"
    BY <1>1, <1>3, <1>4, SameText
  <2>5. Current'
    BY <1>1, <1>2, <1>3, <1>4, <1>6, <2>1, <2>3, <2>4 DEF Current
  <2> QED BY <2>1, <2>2, <2>3, <2>5 DEF StdinIInv
<1> QED BY <1>5, <1>6 DEF Ask

(* Framing has no value. *)
LEMMA FramesHaveNoBody ==
  ASSUME NEW l \in {Sep, Plus, Eol}, stdout \in Seq(Docs \cup {Sep, Plus, Eol, Torn}),
         stdout' = stdout \o <<l>>
  PROVE  Written' = Written /\ stdout' \in Seq(Docs \cup {Sep, Plus, Eol, Torn})
<1>1. /\ stdout' = Append(stdout, l) /\ Len(stdout) \in Nat
      /\ stdout' \in Seq(Docs \cup {Sep, Plus, Eol, Torn})
  OBVIOUS
<1>2. /\ DOMAIN stdout = 1..Len(stdout) /\ DOMAIN stdout' = 1..Len(stdout) + 1
      /\ stdout'[Len(stdout) + 1] = l /\ \A i \in DOMAIN stdout : stdout'[i] = stdout[i]
  BY <1>1
<1>3. l.value = None
  BY MarksHaveNoValue
<1>4. Bodies(stdout') = Bodies(stdout)
  BY <1>1, <1>2, <1>3 DEF Bodies
<1>5. \A i \in Bodies(stdout) : stdout'[i] = stdout[i]
  BY <1>2 DEF Bodies
<1> QED BY <1>1, <1>4, <1>5 DEF Written

LEMMA TornIsTyped ==
  ASSUME stdout \in Seq(Docs \cup {Sep, Plus, Eol, Torn}), stdout' \in {stdout, Append(stdout, Torn)}
  PROVE  stdout' \in Seq(Docs \cup {Sep, Plus, Eol, Torn})
  OBVIOUS

LEMMA FrameIsWritten ==
  ASSUME StdinIInv, Frame
  PROVE  StdinIInv'
<1>1. /\ StdinTypeOK /\ Fresh /\ Reading /\ Current /\ Account /\ Matching /\ Running
      /\ pc = "frame" /\ pc \in Busy /\ val \in Values /\ code = -1
      /\ UNCHANGED <<world, reader, answer, via>> /\ UNCHANGED <<job, stream, fmt, val>>
  <2>1. StdinTypeOK /\ Fresh /\ Reading /\ Current /\ Account /\ Matching /\ pc = "frame"
    BY DEF StdinIInv, Frame
  <2>2. Running /\ pc \in Busy /\ val \in Values
    BY <2>1 DEF Running, Fresh, Busy, Current
  <2> QED BY <2>1, <2>2, ReaderState DEF Frame, world, reader
<1>2. /\ answer' \in Values \cup {None} /\ via' \in {"main", "pass"} /\ started' \in BOOLEAN
      /\ hadError \in BOOLEAN /\ broken \in 0..MaxBroken
      /\ stdout \in Seq(Docs \cup {Sep, Plus, Eol, Torn})
  <2>1. started' \in BOOLEAN
    BY DEF Frame
  <2> QED BY <1>1, <2>1 DEF StdinTypeOK
<1>3. CASE stdout' = stdout \o Framing /\ Goto("body") /\ UNCHANGED <<broken, hadError>>
  <2>1. pc' = "body" /\ pc' \in Busy /\ UNCHANGED code
    BY <1>3 DEF Goto, Busy
  <2>2. Written' = Written /\ stdout' \in Seq(Docs \cup {Sep, Plus, Eol, Torn})
    <3>1. CASE Framing = <<>>
      <4>1. stdout' = stdout
        BY <1>2, <1>3, <3>1
      <4> QED BY <1>2, <4>1 DEF Written
    <3>2. CASE \E l \in {Sep, Plus, Eol} : Framing = <<l>>
      BY <1>2, <1>3, <3>2, FramesHaveNoBody
    <3> QED BY <3>1, <3>2 DEF Framing
  <2>3. StdinTypeOK' /\ Fresh' /\ Reading'
    <3>1. pc' \in Steps \ {"detect"} /\ code' \in {-1, 0, 1} /\ (pc' = "done" <=> code' # -1)
      BY <1>1, <2>1 DEF Steps
    <3> QED BY <1>1, <1>2, <1>3, <2>2, <3>1, TypesOfWriting
  <2>4. Account' /\ Matching' /\ Taken' = Taken
    BY <1>1, <1>3, <2>1, <2>2, StillBusy
  <2>5. PICK c \in DocEnds : c \in Taken /\ Input(c) = val /\ \A q \in Taken : q <= c
    BY <1>1, OneIsCurrent
  <2>6. /\ Input(c)' = val' /\ ApplyWhere(val, Options)' = ApplyWhere(val, Options)
        /\ RunQuery(Query, val, Options)' = RunQuery(Query, val, Options)
    BY <1>1, <2>5, SameText
  <2>7. Current'
    BY <1>1, <2>1, <2>4, <2>5, <2>6 DEF Current
  <2> QED BY <2>1, <2>3, <2>4, <2>7 DEF StdinIInv
<1>4. CASE /\ broken < MaxBroken /\ broken' = broken + 1
           /\ stdout' \in {stdout, Append(stdout, Torn)} /\ DocFails
  <2>1. StdinTypeOK' /\ Fresh' /\ Reading'
    <3>1. stdout' \in Seq(Docs \cup {Sep, Plus, Eol, Torn}) /\ broken' \in 0..MaxBroken
      BY <1>2, <1>4, TornIsTyped, StdinAssumption
    <3> QED BY <1>1, <1>2, <1>4, <3>1, DocFailsTypes, TypesOfWriting
  <2>2. (Account /\ Matching /\ (pc = "done" => AnswersInOrder /\ StatusIsTrue))'
    BY <1>1, <1>4, AnswerIsLost
  <2>3. pc' \in {"read", "done"}
    BY <1>1, <1>4, DocFailsTypes
  <2> QED BY <2>1, <2>2, <2>3 DEF StdinIInv, Current, Busy
<1> QED BY <1>3, <1>4 DEF Frame, Put

LEMMA BodyIsWritten ==
  ASSUME StdinIInv, Body
  PROVE  StdinIInv'
<1>1. /\ StdinTypeOK /\ Fresh /\ Reading /\ Current /\ Account /\ Matching /\ Running
      /\ pc = "body" /\ pc \in Busy /\ val \in Values /\ code = -1
      /\ answer \in Values /\ ApplyWhere(val, Options) # "fails"
      /\ UNCHANGED <<world, reader, answer, via, started>> /\ UNCHANGED <<job, stream, fmt, val>>
  <2>1. StdinTypeOK /\ Fresh /\ Reading /\ Current /\ Account /\ Matching /\ pc = "body"
    BY DEF StdinIInv, Body
  <2>2. /\ Running /\ pc \in Busy /\ val \in Values
        /\ answer \in Values /\ ApplyWhere(val, Options) # "fails"
    BY <2>1 DEF Running, Fresh, Busy, Current
  <2> QED BY <2>1, <2>2, ReaderState DEF Body, world, reader, writer
<1>2. /\ answer' \in Values \cup {None} /\ via' \in {"main", "pass"} /\ started' \in BOOLEAN
      /\ hadError \in BOOLEAN /\ broken \in 0..MaxBroken
      /\ stdout \in Seq(Docs \cup {Sep, Plus, Eol, Torn})
  BY <1>1 DEF StdinTypeOK
<1>3. PICK c \in DocEnds : /\ c \in Taken /\ Input(c) = val
                           /\ Taken = Settled \cup {c} /\ \A q \in Settled : q < c
                           /\ \A q \in DocEnds : q < c => q \in Settled
  BY <1>1, OneIsCurrent
<1>4. Reply(c) = IF answer \in Refused(WriterFmt) THEN None ELSE answer
  <2>1. IF ApplyWhere(val, Options) = "skip"
        THEN via = "pass" /\ answer = val
        ELSE via = "main" /\ answer = RunQuery(Query, val, Options)
    BY <1>1 DEF Current
  <2>2. CASE ApplyWhere(val, Options) = "skip"
    BY <1>3, <2>1, <2>2 DEF Reply, AnswerTo, WriterFmt
  <2>3. CASE ApplyWhere(val, Options) # "skip"
    BY <1>3, <2>1, <2>3 DEF Reply, AnswerTo, WriterFmt
  <2> QED BY <2>2, <2>3
<1>5. CASE answer \in Refused(WriterFmt) /\ DocFails /\ UNCHANGED output
  <2>1. (Account /\ Matching /\ (pc = "done" => AnswersInOrder /\ StatusIsTrue))'
    BY <1>1, <1>3, <1>4, <1>5, DocumentFails
  <2>2. StdinTypeOK' /\ Fresh' /\ Reading'
    BY <1>1, <1>2, <1>5, DocFailsTypes, TypesOfWriting DEF output
  <2>3. pc' \in {"read", "done"}
    BY <1>1, <1>5, DocFailsTypes
  <2> QED BY <2>1, <2>2, <2>3 DEF StdinIInv, Current, Busy
<1> DEFINE l == Bytes(answer, "compact")
<1>6. CASE /\ answer \notin Refused(WriterFmt) /\ stdout' = stdout \o <<l>>
           /\ Goto(IF IsJSON(WriterFmt) THEN "eol" ELSE "read") /\ UNCHANGED <<broken, hadError>>
  <2>1. pc' \in {"eol", "read"} /\ UNCHANGED code
    BY <1>6 DEF Goto
  <2>2. l \in Docs /\ l.value = answer /\ Reply(c) = answer /\ answer # None
    BY <1>1, <1>4, <1>6, MarksHaveNoValue
  <2>3. stdout' = Append(stdout, l) /\ stdout' \in Seq(Docs \cup {Sep, Plus, Eol, Torn})
    BY <1>2, <1>6, <2>2
  <2>4. StdinTypeOK' /\ Fresh' /\ Reading'
    <3>1. pc' \in Steps \ {"detect"} /\ code' \in {-1, 0, 1} /\ (pc' = "done" <=> code' # -1)
      BY <1>1, <2>1 DEF Steps
    <3> QED BY <1>1, <1>2, <1>6, <2>3, <3>1, TypesOfWriting
  <2>5. Settled' = Settled \cup {c}
    <3>1. Taken' = Taken
      BY SameTaken, <1>1 DEF reader
    <3> QED BY <1>3, <2>1, <3>1 DEF Settled, Busy
  <2>6. ~Stops(c)
    <3>1. val # None
      BY <1>1, MarksHaveNoValue
    <3> QED BY <1>1, <1>3, <2>2, <3>1 DEF Stops, Halts, Reply
  <2>7. Account' /\ Matching'
    <3> HIDE DEF l
    <3> QED BY <1>1, <1>3, <1>6, <2>2, <2>3, <2>5, <2>6, AnswerWritten
  <2> QED BY <2>1, <2>4, <2>7 DEF StdinIInv, Current, Busy
<1>7. CASE /\ broken < MaxBroken /\ broken' = broken + 1
           /\ stdout' \in {stdout, Append(stdout, Torn)} /\ DocFails
  <2>1. StdinTypeOK' /\ Fresh' /\ Reading'
    <3>1. stdout' \in Seq(Docs \cup {Sep, Plus, Eol, Torn}) /\ broken' \in 0..MaxBroken
      BY <1>2, <1>7, TornIsTyped, StdinAssumption
    <3> QED BY <1>1, <1>2, <1>7, <3>1, DocFailsTypes, TypesOfWriting
  <2>2. (Account /\ Matching /\ (pc = "done" => AnswersInOrder /\ StatusIsTrue))'
    BY <1>1, <1>7, AnswerIsLost
  <2>3. pc' \in {"read", "done"}
    BY <1>1, <1>7, DocFailsTypes
  <2> QED BY <2>1, <2>2, <2>3 DEF StdinIInv, Current, Busy
<1> QED BY <1>5, <1>6, <1>7 DEF Body, Put

LEMMA NewlineIsWritten ==
  ASSUME StdinIInv, Newline
  PROVE  StdinIInv'
<1>1. /\ StdinTypeOK /\ Fresh /\ Reading /\ Current /\ Account /\ Matching /\ Running
      /\ pc = "eol" /\ code = -1
      /\ UNCHANGED <<world, reader, answer, via, started>> /\ UNCHANGED <<job, stream, fmt>>
  <2>1. StdinTypeOK /\ Fresh /\ Reading /\ Current /\ Account /\ Matching /\ pc = "eol"
    BY DEF StdinIInv, Newline
  <2>2. Running
    BY <2>1 DEF Running, Fresh
  <2> QED BY <2>1, <2>2, ReaderState DEF Newline, world, reader, writer
<1>2. /\ answer' \in Values \cup {None} /\ via' \in {"main", "pass"} /\ started' \in BOOLEAN
      /\ hadError \in BOOLEAN /\ broken \in 0..MaxBroken
      /\ stdout \in Seq(Docs \cup {Sep, Plus, Eol, Torn})
  BY <1>1 DEF StdinTypeOK
<1>3. CASE stdout' = stdout \o <<Eol>> /\ Goto("read") /\ UNCHANGED <<broken, hadError>>
  <2>1. pc' = "read" /\ UNCHANGED code
    BY <1>3 DEF Goto
  <2>2. Written' = Written /\ stdout' \in Seq(Docs \cup {Sep, Plus, Eol, Torn})
    BY <1>2, <1>3, FramesHaveNoBody
  <2>3. StdinTypeOK' /\ Fresh' /\ Reading'
    <3>1. pc' \in Steps \ {"detect"} /\ code' \in {-1, 0, 1} /\ (pc' = "done" <=> code' # -1)
      BY <1>1, <2>1 DEF Steps
    <3> QED BY <1>1, <1>2, <1>3, <2>2, <3>1, TypesOfWriting
  <2>4. Settled' = Settled
    <3>1. Taken' = Taken
      BY SameTaken, <1>1 DEF reader
    <3> QED BY <1>1, <2>1, <3>1 DEF Settled, Busy
  <2>5. Account' /\ Matching'
    BY <1>1, <1>3, <2>2, <2>4, NothingSettled
  <2> QED BY <2>1, <2>3, <2>5 DEF StdinIInv, Current, Busy
<1>4. CASE /\ broken < MaxBroken /\ broken' = broken + 1
           /\ stdout' \in {stdout, Append(stdout, Torn)} /\ DocFails
  <2>1. StdinTypeOK' /\ Fresh' /\ Reading'
    <3>1. stdout' \in Seq(Docs \cup {Sep, Plus, Eol, Torn}) /\ broken' \in 0..MaxBroken
      BY <1>2, <1>4, TornIsTyped, StdinAssumption
    <3> QED BY <1>1, <1>2, <1>4, <3>1, DocFailsTypes, TypesOfWriting
  <2>2. (Account /\ Matching /\ (pc = "done" => AnswersInOrder /\ StatusIsTrue))'
    BY <1>1, <1>4, AnswerIsLost
  <2>3. pc' \in {"read", "done"}
    BY <1>1, <1>4, DocFailsTypes
  <2> QED BY <2>1, <2>2, <2>3 DEF StdinIInv, Current, Busy
<1> QED BY <1>3, <1>4 DEF Newline, Put

-----------------------------------------------------------------------------
(* The steps of the program upstream, and stuttering. *)
LEMMA ProgramWaits ==
  ASSUME StdinIInv, UNCHANGED <<job, stream, reader, writer, hadError, output, pc, code>>,
         StdinTypeOK', Fresh'
  PROVE  StdinIInv'
<1>1. /\ StdinTypeOK /\ Reading /\ Current /\ Account /\ Matching
      /\ UNCHANGED <<job, stream, fmt, pos, buf, val, docs, answer, via, hadError>>
      /\ UNCHANGED <<stdout, broken, pc, code>>
  BY DEF StdinIInv, reader, writer, output
<1>2. Taken' = Taken /\ Options' = Options /\ Written' = Written
  BY <1>1, SameTaken, SameText DEF Written
<1>3. Settled' = Settled
  BY <1>1, <1>2 DEF Settled
<1>4. Running' = Running
  BY <1>1 DEF Running
<1>5. Account' /\ Matching'
  <2>1. CASE Running
    BY <1>1, <1>2, <1>3, <2>1, NothingSettled
  <2>2. CASE ~Running
    BY <1>4, <2>2 DEF Account, Matching
  <2> QED BY <2>1, <2>2
<1>6. Reading'
  BY <1>1, <1>4 DEF Reading, WholeText
<1>7. Current'
  <2>1. /\ ApplyWhere(val, Options)' = ApplyWhere(val, Options)
        /\ RunQuery(Query, val, Options)' = RunQuery(Query, val, Options)
    BY <1>1, <1>2
  <2>2. ASSUME pc \in Busy
        PROVE  (\E p \in Taken : Input(p) = val /\ \A q \in Taken : q <= p)'
    <3>1. PICK p \in Taken : Input(p) = val /\ \A q \in Taken : q <= p
      BY <1>1, <2>2 DEF Current
    <3>2. Input(p)' = val'
      BY <1>1, <3>1, SameText
    <3> QED BY <1>2, <3>1, <3>2
  <2> QED BY <1>1, <2>1, <2>2 DEF Current
<1>8. (pc = "done" => AnswersInOrder /\ StatusIsTrue)'
  <2> SUFFICES ASSUME pc = "done" PROVE (AnswersInOrder /\ StatusIsTrue)'
    BY <1>1
  <2>1. AnswersInOrder /\ StatusIsTrue
    BY DEF StdinIInv
  <2> QED BY <1>1, <2>1, EndStays
<1> QED BY <1>5, <1>6, <1>7, <1>8 DEF StdinIInv

LEMMA TypesUpstream ==
  ASSUME StdinTypeOK, Fresh, UNCHANGED <<job, stream, reader, writer, hadError, output, pc, code>>,
         arrived' \in arrived..Len(stream), closed' \in BOOLEAN, closed' => arrived' = Len(stream)
  PROVE  StdinTypeOK' /\ Fresh'
<1>1. /\ job' \in Jobs /\ stream' \in Streams[job'.text][job'.piped] /\ stream' = stream
  BY DEF StdinTypeOK
<1>2. /\ stream \in Seq(Lines) /\ Len(stream) \in Nat /\ arrived \in 0..Len(stream) /\ pos \in 0..arrived
  BY JobsAreTyped DEF StdinTypeOK
<1>3. arrived' \in 0..Len(stream') /\ pos' \in 0..arrived'
  BY <1>1, <1>2 DEF reader
<1>4. /\ fmt' \in Formats \cup {"none"} /\ docs' \in 0..Len(stream') + 1
      /\ buf' \in Seq(Lines \ {Sep}) /\ val' \in Values \cup {None}
  BY <1>1 DEF StdinTypeOK, reader
<1>5. /\ answer' \in Values \cup {None} /\ via' \in {"main", "pass"} /\ started' \in BOOLEAN
      /\ hadError' \in BOOLEAN /\ broken' \in 0..MaxBroken
      /\ stdout' \in Seq(Docs \cup {Sep, Plus, Eol, Torn})
  BY DEF StdinTypeOK, writer, output
<1>6. pc' \in Steps /\ code' \in {-1, 0, 1} /\ (pc' = "done" <=> code' # -1)
  BY DEF StdinTypeOK
<1>7. StdinTypeOK'
  BY <1>1, <1>3, <1>4, <1>5, <1>6 DEF StdinTypeOK
<1>8. Fresh'
  BY <1>1 DEF Fresh, reader, output
<1> QED BY <1>7, <1>8

LEMMA TextArrives ==
  ASSUME StdinIInv, Arrive \/ Close
  PROVE  StdinIInv'
<1>1. /\ StdinTypeOK /\ Fresh
      /\ UNCHANGED <<job, stream, reader, writer, hadError, output, pc, code>>
  BY DEF StdinIInv, Arrive, Close
<1>2. Len(stream) \in Nat /\ arrived \in 0..Len(stream)
  BY <1>1, JobsAreTyped DEF StdinTypeOK
<1>3. CASE Arrive
  <2>1. arrived < Len(stream) /\ arrived' = arrived + 1 /\ closed' = closed
    BY <1>3 DEF Arrive
  <2>2. ~closed
    BY <1>1, <1>2, <2>1 DEF Fresh
  <2>3. arrived' \in arrived..Len(stream) /\ closed' \in BOOLEAN
    BY <1>1, <1>2, <2>1 DEF StdinTypeOK
  <2>4. StdinTypeOK' /\ Fresh'
    BY <1>1, <2>1, <2>2, <2>3, TypesUpstream
  <2> QED BY <1>1, <2>4, ProgramWaits
<1>4. CASE Close
  <2>1. arrived = Len(stream) /\ arrived' = arrived /\ closed' = TRUE
    BY <1>4 DEF Close
  <2>2. arrived' \in arrived..Len(stream)
    BY <1>2, <2>1
  <2>3. StdinTypeOK' /\ Fresh'
    BY <1>1, <2>1, <2>2, TypesUpstream
  <2> QED BY <1>1, <2>3, ProgramWaits
<1> QED BY <1>3, <1>4

LEMMA StutteringKeeps ==
  ASSUME StdinIInv, UNCHANGED vars
  PROVE  StdinIInv'
<1>1. /\ StdinTypeOK /\ Fresh /\ UNCHANGED <<arrived, closed>>
      /\ UNCHANGED <<job, stream, reader, writer, hadError, output, pc, code>>
  BY DEF StdinIInv, vars, world, reader, writer, output
<1>2. Len(stream) \in Nat /\ arrived \in 0..Len(stream) /\ closed \in BOOLEAN
  BY <1>1, JobsAreTyped DEF StdinTypeOK
<1>3. arrived' \in arrived..Len(stream) /\ closed' \in BOOLEAN /\ (closed' => arrived' = Len(stream))
  BY <1>1, <1>2 DEF Fresh
<1>4. StdinTypeOK' /\ Fresh'
  BY <1>1, <1>3, TypesUpstream
<1> QED BY <1>1, <1>4, ProgramWaits

-----------------------------------------------------------------------------
(* The format becomes known, before the first document. *)
LEMMA FormatIsFound ==
  ASSUME StdinIInv, Detect
  PROVE  StdinIInv'
<1>1. /\ StdinTypeOK /\ Fresh /\ pc = "detect" /\ fmt = "none" /\ pos = 0 /\ buf = <<>> /\ docs = 0
      /\ stdout = <<>> /\ broken = 0 /\ hadError = FALSE /\ code = -1
      /\ UNCHANGED <<job, stream, arrived, closed, pos, buf, val, docs, answer, via, started>>
      /\ UNCHANGED <<hadError, stdout, broken>>
  <2>1. StdinTypeOK /\ Fresh /\ pc = "detect"
    BY DEF StdinIInv, Detect
  <2>2. code = -1 /\ hadError \in BOOLEAN
    BY <2>1 DEF StdinTypeOK
  <2>3. fmt = "none" /\ pos = 0 /\ buf = <<>> /\ docs = 0 /\ stdout = <<>> /\ broken = 0 /\ ~hadError
    BY <2>1 DEF Fresh
  <2> QED BY <2>1, <2>2, <2>3 DEF Detect, world, writer, output
<1>2. fmt' \in Formats \cup {"none"}
  <2>1. job.named \in Formats \cup {"auto"}
    BY <1>1, JobsAreTyped DEF StdinTypeOK
  <2> QED BY <2>1, FormatsAreDetected DEF Detect
<1>3. IF fmt' = "none" THEN Leave(1) ELSE Goto("read")
  BY DEF Detect
<1>4. stream \in Seq(Lines) /\ Len(stream) \in Nat /\ arrived \in 0..Len(stream)
  BY <1>1, JobsAreTyped DEF StdinTypeOK
<1>5. StdinTypeOK'
  <2>1. /\ job' \in Jobs /\ stream' \in Streams[job'.text][job'.piped] /\ stream' = stream
        /\ arrived' \in 0..Len(stream') /\ closed' \in BOOLEAN
    BY <1>1 DEF StdinTypeOK
  <2>2. /\ pos' \in 0..arrived' /\ docs' \in 0..Len(stream') + 1
        /\ buf' \in Seq(Lines \ {Sep}) /\ val' \in Values \cup {None}
    BY <1>1 DEF StdinTypeOK
  <2>3. /\ answer' \in Values \cup {None} /\ via' \in {"main", "pass"} /\ started' \in BOOLEAN
        /\ hadError' \in BOOLEAN /\ broken' \in 0..MaxBroken
        /\ stdout' \in Seq(Docs \cup {Sep, Plus, Eol, Torn})
    BY <1>1 DEF StdinTypeOK
  <2>4. pc' \in Steps /\ code' \in {-1, 0, 1} /\ (pc' = "done" <=> code' # -1)
    BY <1>1, <1>3 DEF Leave, Goto, Steps
  <2> QED BY <1>2, <2>1, <2>2, <2>3, <2>4 DEF StdinTypeOK
<1>6. CASE fmt' = "none"
  <2>1. pc' = "done" /\ code' = 1
    BY <1>3, <1>6 DEF Leave
  <2>2. Fresh'
    BY <1>1, <1>6, <2>1 DEF Fresh
  <2>3. AnswersInOrder' /\ StatusIsTrue'
    BY <1>6, <2>1 DEF AnswersInOrder, StatusIsTrue
  <2> QED BY <1>5, <2>1, <2>2, <2>3 DEF StdinIInv, Reading, Current, Account, Matching, Running, Busy
<1>7. CASE fmt' # "none"
  <2>1. pc' = "read" /\ UNCHANGED code /\ fmt' \in Formats
    BY <1>2, <1>3, <1>7 DEF Goto
  <2>2. Fresh'
    BY <1>1, <1>7, <2>1 DEF Fresh
  <2>3. Reading'
    <3>1. Len(buf') = 0
      BY <1>1
    <3> QED BY <1>1, <3>1 DEF Reading, WholeText
  <2>4. Taken' = {} /\ Settled' = {} /\ Served' = {}
    <3>1. Ends(fmt', stream) \subseteq 1..Len(stream) + 1
      BY <1>4, <2>1, EndsArePositions
    <3>2. DocEnds' \subseteq 1..Len(stream) + 1
      BY <1>1, <3>1 DEF DocEnds
    <3>3. Len(stream) = 0 => DocEnds' = {} \/ fmt' \in {"json", "toml"}
      BY <1>1, <1>4, <2>1 DEF DocEnds, Ends, Formats
    <3>4. Taken' = {}
      <4> SUFFICES ASSUME NEW p \in Taken' PROVE FALSE
        OBVIOUS
      <4>1. p \in DocEnds' /\ p \in 1..Len(stream) + 1
        BY <3>2 DEF Taken
      <4>2. fmt' \notin {"json", "toml"} /\ (p <= 0 \/ Len(stream) = 0)
        BY <1>1 DEF Taken, WholeText
      <4> QED BY <1>4, <3>3, <4>1, <4>2
    <3>5. Settled' = {} /\ Served' = {}
      BY <3>4 DEF Settled, Served
    <3> QED BY <3>4, <3>5
  <2>5. Account'
    BY <1>1, <2>4 DEF Account
  <2>6. Matching'
    <3>1. Bodies(stdout') = {}
      BY <1>1 DEF Bodies
    <3>2. DOMAIN Written' = {}
      BY <3>1 DEF Written
    <3>3. InOrder(Written', Replies(Served)')
      BY <3>2 DEF InOrder
    <3> QED BY <2>4, <3>1, <3>3, Zenon DEF Matching
  <2> QED BY <1>5, <2>1, <2>2, <2>3, <2>5, <2>6 DEF StdinIInv, Current, Busy
<1> QED BY <1>6, <1>7

-----------------------------------------------------------------------------
(* StdinIInv is an invariant of nesdit as a filter, whatever comes in. *)
LEMMA StdinStarts ==
  ASSUME StdinInit
  PROVE  StdinIInv
<1>1. /\ job \in Jobs /\ stream \in Streams[job.text][job.piped]
      /\ stream \in Seq(Lines) /\ Len(stream) \in Nat /\ job.piped \in BOOLEAN
  BY StdinAssumption, JobsAreTyped DEF StdinInit
<1>2. arrived \in 0..Len(stream) /\ closed \in BOOLEAN /\ (closed => arrived = Len(stream))
  <2>1. arrived = (IF job.piped THEN 0 ELSE Len(stream)) /\ closed = ~job.piped
    BY DEF StdinInit
  <2>2. CASE job.piped
    <3>1. arrived = 0 /\ ~closed /\ closed \in BOOLEAN
      BY <2>1, <2>2, Zenon
    <3> QED BY <1>1, <3>1
  <2>3. CASE ~job.piped
    <3>1. arrived = Len(stream) /\ closed \in BOOLEAN
      BY <2>1, <2>3, Zenon
    <3> QED BY <1>1, <3>1
  <2> QED BY <1>1, <2>2, <2>3
<1>3. /\ fmt = "none" /\ pos = 0 /\ buf = <<>> /\ val = None /\ docs = 0
      /\ answer = None /\ via = "main" /\ started = FALSE /\ hadError = FALSE
      /\ stdout = <<>> /\ broken = 0 /\ pc = "detect" /\ code = -1
  BY DEF StdinInit
<1>4. pos \in 0..arrived /\ docs \in 0..Len(stream) + 1
  BY <1>1, <1>2, <1>3
<1>5. buf \in Seq(Lines \ {Sep}) /\ stdout \in Seq(Docs \cup {Sep, Plus, Eol, Torn})
  BY <1>3, EmptySeq
<1>6. pc \in Steps /\ broken \in 0..MaxBroken
  BY <1>3, StdinAssumption DEF Steps
<1>7. StdinTypeOK
  BY <1>1, <1>2, <1>3, <1>4, <1>5, <1>6 DEF StdinTypeOK
<1>8. Fresh
  BY <1>2, <1>3 DEF Fresh
<1> QED BY <1>3, <1>7, <1>8 DEF StdinIInv, Reading, Current, Account, Matching, Running, Busy

LEMMA StdinSteps ==
  ASSUME StdinIInv, [StdinNext]_vars
  PROVE  StdinIInv'
  BY FormatIsFound, TextIsRead, WhereIsApplied, QueryIsRun, FrameIsWritten, BodyIsWritten,
     NewlineIsWritten, TextArrives, StutteringKeeps DEF StdinNext, Nesdit

(* Every step of the filter, and every line that arrives, keeps StdinIInv. *)
THEOREM StdinInvariant == StdinSpec => []StdinIInv
  BY StdinStarts, StdinSteps, PTL DEF StdinSpec

(* Every variable of the filter has its type (runStdin). *)
THEOREM StdinTypes == StdinSpec => []StdinTypeOK
<1>1. StdinIInv => StdinTypeOK
  BY DEF StdinIInv
<1> QED BY <1>1, StdinInvariant, PTL

(* What is on stdout are the answers to the documents, in their order,     *)
(* none twice and none after the failure that stops the run, at every      *)
(* moment; and all of them at the end (runStdin).                          *)
THEOREM AnswersAreInOrder == StdinSpec => []AnswersInOrder
<1>1. StdinIInv => AnswersInOrder
  <2> SUFFICES ASSUME StdinIInv, fmt # "none", broken = 0, pc # "done"
               PROVE  AnswersInOrder
    BY DEF StdinIInv, AnswersInOrder
  <2>1. InOrder(Written, Replies(Due))
    BY MatchedInOrder DEF StdinIInv, Running
  <2> QED BY <2>1 DEF AnswersInOrder
<1> QED BY <1>1, StdinInvariant, PTL

(* Status 0 means that every document was answered and that stdout took    *)
(* all of it, and only then is it given (but for a JSON text under         *)
(* --keep-going).                                                          *)
THEOREM StatusesAreTrue == StdinSpec => []StatusIsTrue
<1>1. StdinIInv => StatusIsTrue
  BY DEF StdinIInv, StatusIsTrue
<1> QED BY <1>1, StdinInvariant, PTL

(* Both together: what stands on stdout when a run ends, and what its      *)
(* status says of it (runStdin).                                           *)
THEOREM StreamsAreHonest == StdinSpec => []StreamIsHonest
<1>1. AnswersInOrder /\ StatusIsTrue => StreamIsHonest
  BY DEF StreamIsHonest
<1> QED BY <1>1, AnswersAreInOrder, StatusesAreTrue, PTL
=============================================================================
