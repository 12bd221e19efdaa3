---------------------------- MODULE StdinStream ----------------------------
(***************************************************************************)
(* nesdit as a filter (run/stdin.go): documents come in on a pipe or from  *)
(* a file, one at a time; each is passed through, or queried and written,  *)
(* before the next is read.  What is on stdout stays there when a later    *)
(* document fails.                                                         *)
(***************************************************************************)
EXTENDS StreamText

CONSTANTS Jobs,     \* what the command line asks and the format of the text
          Streams,  \* Streams[f][p]: the texts in format f that may come in,
                    \* line by line if p
          Query,
          MaxBroken \* bound on the writes to stdout that fail

ASSUME StdinAssumption ==
  /\ \A j \in Jobs : /\ j.named \in {"auto", j.text} \/ {j.named, j.text} \subseteq {"json", "jsonl"}
                     /\ j.text \in Formats
                     /\ j.out \in Formats \cup {"same"} /\ j.opts \in FlagSets
                     /\ j.piped \in BOOLEAN /\ Streams[j.text][j.piped] \subseteq Seq(LinesOf(j.text))
  /\ Query \in Queries /\ MaxBroken \in Nat

VARIABLES
  job, stream,      \* one of Jobs; the whole text
  arrived, closed,  \* how many of its lines are in the pipe; is it closed?
  fmt,              \* the input format, "none" before it is known
  pos, buf,         \* the reader: lines taken, lines of the current document
  val, docs,        \* the document that was read last; docIndex
  answer, via,      \* what is to be written; by the "main" or the "pass" writer
  started,          \* firstWritten of the main TOML writer
  hadError,
  stdout, broken,   \* the lines written; the number of failed writes
  pc, code          \* the next step; the exit status, -1 before

world  == <<job, stream, arrived, closed>>
reader == <<fmt, pos, buf, val, docs>>
writer == <<answer, via, started>>
output == <<stdout, broken>>
vars   == <<world, reader, writer, hadError, output, pc, code>>

Options == job.opts
Steps   == {"detect", "read", "where", "query", "frame", "body", "eol", "done"}

StdinTypeOK ==
  /\ job \in Jobs /\ stream \in Streams[job.text][job.piped]
  /\ arrived \in 0..Len(stream) /\ closed \in BOOLEAN
  /\ fmt \in Formats \cup {"none"} /\ pos \in 0..arrived /\ buf \in Seq(Lines \ {Sep})
  /\ val \in Values \cup {None} /\ docs \in 0..Len(stream) + 1
  /\ answer \in Values \cup {None} /\ via \in {"main", "pass"} /\ started \in BOOLEAN
  /\ hadError \in BOOLEAN /\ broken \in 0..MaxBroken
  /\ stdout \in Seq(Docs \cup {Sep, Plus, Eol, Torn})
  /\ pc \in Steps /\ code \in {-1, 0, 1} /\ (pc = "done" <=> code # -1)

StdinInit ==
  /\ job \in Jobs /\ stream \in Streams[job.text][job.piped]
  /\ arrived = (IF job.piped THEN 0 ELSE Len(stream)) /\ closed = ~job.piped
  /\ fmt = "none" /\ pos = 0 /\ buf = <<>> /\ val = None /\ docs = 0
  /\ answer = None /\ via = "main" /\ started = FALSE /\ hadError = FALSE
  /\ stdout = <<>> /\ broken = 0 /\ pc = "detect" /\ code = -1

Goto(label) == pc' = label /\ UNCHANGED code
Leave(c)    == pc' = "done" /\ code' = c

(* The format of --format, or what the peek shows, which waits for 512     *)
(* bytes or the end of the text.                                           *)
BugDetectsAtTheEnd ==
  /\ pc = "detect" /\ closed
  /\ fmt' = IF job.named = "auto" THEN DetectBytes(Peek(stream), job.text) ELSE job.named
  /\ IF fmt' = "none" THEN Leave(1) ELSE Goto("read")
  /\ UNCHANGED <<world, pos, buf, val, docs, writer, hadError, output>>
Detect ==
  /\ pc = "detect"
  /\ job.named # "auto" \/ arrived >= PeekLines \/ closed
  /\ fmt' = IF job.named = "auto" THEN DetectBytes(Peek(SubSeq(stream, 1, arrived)), job.text)
                                  ELSE job.named
  /\ IF fmt' = "none" THEN Leave(1) ELSE Goto("read")
  /\ UNCHANGED <<world, pos, buf, val, docs, writer, hadError, output>>

AtEnd == closed /\ pos = Len(stream)

(* A document text is complete: decode it.  A reader that failed stops the *)
(* run whatever the flags, but for a JSON text under --keep-going.         *)
BadDocument == Leave(IF fmt = "json" /\ Options["keepGoing"] THEN 0 ELSE 1)
Decoded(v) ==
  /\ val' = v /\ buf' = <<>>
  /\ IF v = None THEN BadDocument /\ UNCHANGED docs
     ELSE docs' = docs + 1 /\ Goto(IF Options["where"] THEN "where" ELSE "query")

(* io.ReadAll of a JSON or TOML text, once.                                *)
BugReadsAgain ==
  /\ pc = "read" /\ fmt \in {"json", "toml"} /\ closed /\ docs <= Len(stream) + 1
  /\ pos' = Len(stream)
  /\ Decoded(IF fmt = "json" THEN DecodeJSON(stream) ELSE DecodeTOML(stream, job.text))
ReadWhole ==
  /\ pc = "read" /\ fmt \in {"json", "toml"} /\ closed /\ docs = 0
  /\ pos' = Len(stream)
  /\ Decoded(IF fmt = "json" THEN DecodeJSON(stream) ELSE DecodeTOML(stream, job.text))

(* One line of the scanner of a JSONL or YAML stream.                      *)
BugSepAlwaysEnds(l, b) == l = Sep
EndsDocument(l, b)     == l = Sep /\ b # <<>>

ReadLine ==
  LET l == stream[pos + 1]
  IN /\ pc = "read" /\ fmt \in {"jsonl", "yaml"} /\ pos < arrived
     /\ pos' = pos + 1
     /\ \/ l.form = "long" /\ Leave(1) /\ UNCHANGED <<buf, val, docs>>
        \/ fmt = "jsonl" /\ l.form # "long" /\ l # Blank /\ Decoded(DecodeText(<<l>>))
        \/ fmt = "yaml" /\ EndsDocument(l, buf) /\ Decoded(DecodeYAML(buf, job.text))
        \/ /\ IF fmt = "jsonl" THEN l = Blank ELSE l.form # "long" /\ ~EndsDocument(l, buf)
           /\ buf' = IF fmt = "jsonl" \/ l = Sep THEN buf ELSE Append(buf, l)
           /\ UNCHANGED <<val, docs>> /\ Goto("read")

(* The last document of a YAML stream has no separator after it.           *)
ReadLast ==
  /\ pc = "read" /\ fmt = "yaml" /\ AtEnd /\ buf # <<>>
  /\ Decoded(DecodeYAML(buf, job.text)) /\ UNCHANGED pos

Finish ==
  /\ pc = "read" /\ AtEnd /\ buf = <<>> /\ (fmt \in {"json", "toml"} => docs = 1)
  /\ Leave(IF hadError THEN 1 ELSE 0)
  /\ UNCHANGED <<pos, buf, val, docs>>

Read == /\ ReadWhole \/ ReadLine \/ ReadLast \/ Finish
        /\ UNCHANGED <<world, fmt, writer, hadError, output>>

(* This document failed.                                                   *)
DocFails ==
  IF Options["keepGoing"] /\ ~(fmt = "json" /\ via = "pass")
  THEN hadError' = (fmt # "json") /\ Goto("read")
  ELSE Leave(1) /\ UNCHANGED hadError

(* --where: a document that does not match is passed through in the input  *)
(* format; a predicate that fails stops the run whatever the flags.        *)
Select ==
  /\ pc = "where"
  /\ CASE ApplyWhere(val, Options) = "fails" -> Leave(1) /\ UNCHANGED <<answer, via>>
       [] ApplyWhere(val, Options) = "skip"  -> answer' = val /\ via' = "pass" /\ Goto("frame")
       [] ApplyWhere(val, Options) = "match" -> Goto("query") /\ UNCHANGED <<answer, via>>
  /\ UNCHANGED <<world, reader, started, hadError, output>>

Ask ==
  /\ pc = "query"
  /\ answer' = RunQuery(Query, val, Options) /\ via' = "main"
  /\ IF answer' = None THEN DocFails ELSE Goto("frame") /\ UNCHANGED hadError
  /\ UNCHANGED <<world, reader, started, output>>

OutFmt    == IF job.out = "same" THEN fmt ELSE job.out
WriterFmt == IF via = "pass" THEN fmt ELSE OutFmt
IsJSON(f) == f \in {"json", "jsonl"}

(* What the writer puts before a document: "---" in YAML; "+++" in TOML    *)
(* before all but the first, whether or not that one could be encoded.     *)
BugNoSeparator ==
  IF WriterFmt = "toml" /\ via = "main" /\ started THEN <<Plus>> ELSE <<>>
Framing ==
  IF WriterFmt = "yaml" THEN <<Sep>>
  ELSE IF WriterFmt = "toml" /\ via = "main" /\ started THEN <<Plus>> ELSE <<>>

(* A write to stdout, or its failure, possibly after some bytes.           *)
Put(lines, label) ==
  \/ stdout' = stdout \o lines /\ Goto(label) /\ UNCHANGED <<broken, hadError>>
  \/ /\ broken < MaxBroken /\ lines # <<>> /\ broken' = broken + 1
     /\ stdout' \in {stdout, Append(stdout, Torn)}
     /\ DocFails

Frame ==
  /\ pc = "frame" /\ Put(Framing, "body")
  /\ started' = (started \/ (WriterFmt = "toml" /\ via = "main" /\ pc' = "body"))
  /\ UNCHANGED <<world, reader, answer, via>>

Body ==
  /\ pc = "body"
  /\ IF answer \in Refused(WriterFmt) THEN DocFails /\ UNCHANGED output
     ELSE Put(<<Bytes(answer, "compact")>>, IF IsJSON(WriterFmt) THEN "eol" ELSE "read")
  /\ UNCHANGED <<world, reader, writer>>

Newline == pc = "eol" /\ Put(<<Eol>>, "read") /\ UNCHANGED <<world, reader, writer>>

(* The program upstream.                                                   *)
Arrive == arrived < Len(stream) /\ arrived' = arrived + 1
          /\ UNCHANGED <<job, stream, closed, reader, writer, hadError, output, pc, code>>
Close  == arrived = Len(stream) /\ ~closed /\ closed' = TRUE
          /\ UNCHANGED <<job, stream, arrived, reader, writer, hadError, output, pc, code>>

Nesdit    == Detect \/ Read \/ Select \/ Ask \/ Frame \/ Body \/ Newline
StdinNext == Nesdit \/ Arrive \/ Close
StdinSpec == StdinInit /\ [][StdinNext]_vars
-----------------------------------------------------------------------------
(* What a text is, said without the reader: where its documents end, which *)
(* is at a line or after the last one,                                     *)
Ends(f, s) ==
  CASE f = "jsonl" -> {p \in 1..Len(s) : s[p] # Blank}
    [] f = "yaml"  -> {p \in 2..Len(s) + 1 : s[p - 1] # Sep /\ (p = Len(s) + 1 \/ s[p] = Sep)}
    [] f \in {"json", "toml"} -> {Len(s) + 1}

(* the lines of the one that ends at p, and its value in a text of format  *)
(* g (None if it has none),                                                *)
LastSep(s, p) == Max({0} \cup {q \in 1..p - 1 : s[q] = Sep})
TextAt(f, s, p) ==
  CASE f = "jsonl" -> <<s[p]>>
    [] f = "yaml"  -> SubSeq(s, LastSep(s, p) + 1, p - 1)
    [] f \in {"json", "toml"} -> s
HasLong(t) == \E i \in DOMAIN t : t[i].form = "long"
ValueOf(f, g, t) ==
  CASE f = "json"  -> DecodeJSON(t)
    [] f = "toml"  -> DecodeTOML(t, g)
    [] f = "jsonl" -> IF HasLong(t) THEN None ELSE DecodeText(t)
    [] f = "yaml"  -> IF HasLong(t) THEN None ELSE DecodeYAML(t, g)
ValueAt(f, g, s, p) == ValueOf(f, g, TextAt(f, s, p))

(* the answer to each (None if it fails),                                  *)
AnswerTo(v) ==
  LET skip == ApplyWhere(v, Options) = "skip"
      w    == IF skip THEN v ELSE RunQuery(Query, v, Options)
  IN IF w \in Refused(IF skip THEN fmt ELSE OutFmt) THEN None ELSE w
Halts(v) ==
  v = None \/ ApplyWhere(v, Options) = "fails" \/ (AnswerTo(v) = None /\ ~Options["keepGoing"])

(* and what should come of it all.                                         *)
DocEnds   == Ends(fmt, stream)
Input(p)  == ValueAt(fmt, job.text, stream, p)
Reply(p)  == AnswerTo(Input(p))
Stops(p)  == Halts(Input(p))
Due       == {p \in DocEnds : /\ ~Stops(p) /\ Reply(p) # None
                              /\ \A q \in DocEnds : q < p => ~Stops(q)}
Replies(P) == [p \in P |-> Reply(p)]
Bodies(s)  == {i \in DOMAIN s : s[i].value # None}
Written    == [i \in Bodies(stdout) |-> stdout[i].value]

(* What stands at the positions of f is what stands at the first of g.     *)
Rank(S, x)    == Cardinality({y \in S : y <= x})
InOrder(f, g) == \A x \in DOMAIN f : \E y \in DOMAIN g :
                   Rank(DOMAIN g, y) = Rank(DOMAIN f, x) /\ f[x] = g[y]

(* As long as stdout takes what is written, it holds the answers to the    *)
(* documents in their order, none twice, none after the first failure      *)
(* without --keep-going, and all of them in the end: however the lines     *)
(* arrived and whichever documents failed before (runStdin).               *)
AnswersInOrder ==
  fmt # "none" /\ broken = 0 =>
    /\ InOrder(Written, Replies(Due))
    /\ pc = "done" => Cardinality(Bodies(stdout)) = Cardinality(Due)

(* Another nesdit at the end of the pipe reads from stdout the documents   *)
(* that were written, one by one, where one format is written that it can  *)
(* take as a stream: a document that failed in between joins no two.       *)
LinesOut ==
  LET joined(i) == IsJSON(OutFmt) /\ i < Len(stdout) /\ stdout[i] \in Docs /\ stdout[i + 1] # Eol
  IN SelectSeq([i \in DOMAIN stdout |-> IF joined(i) THEN Bad ELSE stdout[i]], LAMBDA l : l # Eol)
PipesOn ==
  fmt # "none" /\ broken = 0 /\ pc = "done" /\ OutFmt # "toml" /\ (Options["where"] => OutFmt = fmt) =>
    LET f == IF OutFmt = "json" THEN "jsonl" ELSE OutFmt
        s == LinesOut
    IN /\ InOrder([p \in Ends(f, s) |-> ValueAt(f, f, s, p)], Written)
       /\ Cardinality(Ends(f, s)) = Cardinality(Bodies(stdout))

(* Status 0 says that every document was read and answered and that all    *)
(* of it reached stdout, and only then is it given; a JSON text under      *)
(* --keep-going is the exception: it fails with status 0 (runStdinJSON).   *)
StatusIsTrue ==
  pc = "done" /\ ~(fmt = "json" /\ Options["keepGoing"]) =>
    (code = 0 <=> fmt # "none" /\ broken = 0 /\ \A p \in DocEnds : ~Stops(p) /\ Reply(p) # None)

(* What a run leaves on stdout and what its status says of it (runStdin).  *)
StreamIsHonest == AnswersInOrder /\ StatusIsTrue

(* nesdit waits for nothing but more text, and then every document that is *)
(* complete has been answered: a program that reads each answer before it  *)
(* sends the next document does not wait for ever.  A YAML document is     *)
(* complete with its separator, and detection waits for its 512 bytes.     *)
Ready ==
  Cardinality({p \in Ends(fmt, SubSeq(stream, 1, arrived)) : closed \/ p <= arrived})
Waits == pc # "done" /\ ~ENABLED Nesdit
AnswersAtOnce ==
  Waits => /\ ~closed
           /\ IF fmt = "none" THEN job.named = "auto" /\ arrived < PeekLines
                         ELSE pc = "read" /\ docs >= Ready
-----------------------------------------------------------------------------
(* docs/modes/stdin.md:28: "Multi-line JSON is handled correctly - no need *)
(* for --format json when auto-detecting".                                 *)
MultiLineDetected ==
  pc = "done" /\ job.named = "auto" /\ IsArray(stream, Docs) => docs = 1 /\ val = Whole

(* format/json/json.go:72: "Reject trailing content so callers get a clear *)
(* error rather than silently ignoring the tail."                          *)
TailIsRejected == code = 0 /\ fmt = "json" /\ ~Options["keepGoing"] => DecodeText(stream) # None
=============================================================================
