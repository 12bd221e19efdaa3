# A verification of nesdit

nesdit edits structured documents with jq queries: in place over a batch of
files, as a filter on stdin, as previews (`--check`, `--dry-run`), and as a
read-only observer of NATS messages, live or retained, and of single bodies
in Protobuf, MessagePack and other encodings. This directory holds
TLA+ models of it, the TLC configurations that check them, and theorems that
TLAPS proves about them. Paths below are relative to the repository's
`internal/` unless they start with `docs/` or `cmd/`.

`PROJECT.json` gives the source lines of every definition (`map`), the runs,
the mutants (a plausible bug for each property, which TLC finds), the findings
and the hazards.

## 1. The system

| Component | State | Operations | Interacts with |
|---|---|---|---|
| Stop owner `run/nats_stop.go`, `nats_signal_unix.go` | reason and code of the stop, finished, watchdog timer, a context to cancel, the exit hook | `request`, `normal`, `failure`, `incomplete`, `finish`, the timer callback, the watcher of the parent context, the signal handler | called by every other part of an observation; ends the process |
| NATS client adapter `natsinspect/client.go` | raw socket, library connection, failure latch, `closing`, pending messages | open (dial, handshake, subscribe, barrier), `Next`, `Err`, `Close`, callbacks | the client library; tells the stop owner of a failure |
| Native observation `run/nats.go`, `nats_output.go` | step of the loop, counters, event, exit status | prepare, open, ready, receive, render, emit, close, report | stop owner, session, query engine, stdout |
| History inspection `natsinspect/history.go`, `run/nats.go` | upper bound, cursor, boundary, envelope budget | open, `Next` (info, get by sequence), exhaustion | JetStream API; the same stop owner |
| Atomic writer `io/atomic.go` | a temporary file, the target, a backup | resolve link, back up, create, write, chmod, rename, remove | file system; called for each file of a batch |
| In-place batch `run/files.go` | results of all files, summary, exit status | deduplicate, process all, decide, write all, summarise | query engine, codecs, atomic writer |
| Previews and plain output `run/dryrun.go`, `run.go` | two texts | `runCheck`, `runDryRun`, `runOnce` | the same pipeline as the batch |
| Stdin streams `run/stdin.go`, `stream/stream.go` | reader buffer, writer framing, `hadError` | detect, read, select, query, frame, write | pipe upstream, stdout |
| Format detection `format/detect.go` | none | `detectBytes` on 512 bytes | stdin streams |
| Query engine `query/` | none | run, `--where`, missing paths, arguments | gojq, ordered maps |
| Ordered maps `omap/` | keys and values in order | set, delete, merge the order of an answer with that of its input | query engine, codecs |
| Codecs `format/{json,yaml,toml}` | none | decode with limits, encode | everything that reads a document |
| Command dispatch `run/run.go`, `options.go`, `exitcode.go` | the flags | conflicts, precedence, routing to a mode, exit status | everything |
| Edit mode `run/edit.go`, `diff/` | a temporary file, an editor process | edit, diff, build a query | the user's editor |
| Local and protobuf inspection `run/local_input.go`, `protobuf_input.go`, `binary_output.go` | one body, a staged output | decode, filter, project, write | stop owner, body views |
| Body views `msgpackview/`, `flatview/`, `protobufview/`, `textview/` | a budget of nodes and bytes | decode, project | observation, inspection |
| NATS security `run/nats_security.go` | none | validate credentials and TLS options | native observation |
| Logging `logx/`, display `display/`, test support, documentation generator | a writer and a mutex | one line per event | everything |

**How they interact.** A command line goes through dispatch to exactly one mode.
File modes and stdin run synchronously in one goroutine; what is hard there is
the order of reads and writes, partial failure, and crashes between system
calls. An observation has six goroutines: the main one, the closer of the
session, the dispatcher of the client library, the session timer, the signal
handler and the watchdog's callback. They share the stop owner (under a mutex
that several methods release half way) and the session (under another).

**What is hard, and what makes each part correct.**

- *Stop owner*: requests race with each other, with `finish` and with the
  watchdog. Correct when the first decision stands, only degrades from success
  to failure, is always followed by the cancellation of the context, and is
  what a forced exit reports.
- *Adapter*: the library reports trouble by callbacks, by return values and by
  status, before, during and after a deliberate close. Correct when a failure
  is told once, the adapter's own close is never taken for one, trouble before
  the stop is never lost, and the socket is always released.
- *Observation*: correct when the exit status means what the manual says of it,
  whatever happens between two steps of the loop; and when it ends.
- *History*: the stream is purged, limited and appended to while it is read.
  Correct when what is delivered is ordered, within the bounds and complete
  except for what was really lost, and exhaustion is not reported early.
- *Atomic writer*: killed at any system call, and three of its calls may fail
  unnoticed. Correct when no reader sees a partial file, an error means nothing
  has changed, and what is lost without an error is no more than the code says.
- *Batch*: strict mode writes nothing after an error, the summary and the exit
  status agree with the disk, a preview foretells the edit, a backup is the
  original also when a killed command is given again.
- *Stdin*: what was written stays there. Correct when stdout holds the answers
  in order and nothing else, the status says whether it is all, the output can
  be piped on, and nobody waits for input that is not needed.
- *Dispatch*: about sixty options, of which the checks ask whether they are
  given and the modes what their value is. Correct when a command line that is
  carried out asks for one thing, understood by one mode, and the process ends
  with the status that says what happened.
- *Inspection*: reads one body from a stdin that may never end, under a stop
  owner, with a read deadline that a callback sets on the shared stdin. Correct
  when the view is whole or the status says why not, and stdin is as it was.
- *Edit mode*: correct when the suggested query gives what was edited and no
  more, and the copy of the document never stays behind.
- *MessagePack view*: lengths that nobody vouches for, two budgets, and a way
  back. Correct when nothing is allocated that was not charged, the charges are
  those of the view that is handed out, and encode and decode are inverse.
- *Ordered maps, missing paths, diff, detection*: functions with many cases,
  correct with respect to a simple reference definition.

## 2. The modules

| Module | Models | Checked by |
|---|---|---|
| `StopDecision` | abstract: one verdict | refined by `NatsStop` |
| `NatsMain` | the name of the main goroutine | |
| `NatsStop` | `natsStop`, `natsProcess`, the watchdog, the parent context | `MCNatsStop.tla`; theorems in `NatsStopProofs` |
| `NatsSession` | abstract: what an observation may rely on in a session | refined by `NatsClient` and `NatsHistory`, used by `NatsObserve` |
| `NatsClient` | the adapter and its three goroutines; the library is external | `MCNatsClient.cfg`; theorems in `NatsClientProofs` |
| `NatsHistory` | the inspection of a retained stream; the broker and the stream are external | `MCNatsHistory.tla`; theorems in `NatsHistoryProofs` |
| `NatsObserve` | `runNATS`, `runNATSWithRenderer`, `Run` and `Execute`; composes `NatsStop` and `NatsSession` | `MCNatsObserve.tla`; theorems in `NatsObserveProofs` |
| `CommandLine` | pure: the options, what the checks refuse, the mode a command line is for | through `Command` |
| `Command` | `execute`, the checks, the routing, `runLocalInput`, `runProtobufInput`; composes `NatsStop` | `MCCommand.tla`; theorems in `CommandProofs` |
| `AtomicFile` | abstract: a file changes in one step, or not at all | refined by `AtomicWrite`, used by `Batch` |
| `AtomicWrite` | every system call of `WriteAtomic` and `WriteAtomicWithBackup`, several processes, kill and power cut | `MCAtomicWrite.tla`; theorems in `FileProofs` |
| `Document` | pure: decode, `--where`, query, missing paths, encode, as the four modes compose them | through `Batch` and `StdinStream` |
| `Batch` | `runFiles`; writes through `AtomicFile` | `MCBatch.tla`; theorems in `FileProofs` |
| `StreamText` | pure: lines, documents, separators, detection | through `StdinStream` |
| `StdinStream` | `runStdin`, `runStdinJSON`, the readers and writers | `MCStdin.tla`; theorems in `StdinProofs` |
| `Value` | pure: ordered documents, their way through gojq and back, the check for missing paths | through `Edit` |
| `EditSession` | `runEdit`: the temporary file, the editor, what is shown; which changes lie between two documents is a parameter (`Walk`) | through `Edit`; theorems in `FileProofs` |
| `Edit` | the diff that is put for `Walk`, the query it suggests, and what that query does | `MCEdit.tla` |
| `Msgpack` | `msgpackview.Decode`, one step for each value of a body | `MCMsgpack.tla`; theorems in `MsgpackProofs` |
| `MsgpackJSON` | reading, validating and encoding both kinds of JSON; extends `Msgpack` to the round trip | `MCMsgpack.tla` |

Every model keeps one action per statement group between two points where
another goroutine, process or failure may come in, and abstracts data to what
the properties tell apart: a document of a batch is a model value, one that is
edited a small tree; a file is the pair of a value and a layout; a message has
no content; a NATS failure no wording.

### Stop owner (`NatsStop`)

`owes[c]` is the rest of goroutine `c`'s call after it released the mutex:
`Request` is the locked part of `request`, `CancelCtx` the `s.cancel()` behind
it; `Incomplete` and `IncompleteRequest` are the two lock regions of
`incomplete`. The watchdog is a timer (`armed`, `due`) whose callback reads the
decision under the mutex (`TimerCheck`) and exits outside it (`TimerExit`); in
between, `finish` may run. `watch` is the `context.AfterFunc` on the parent.

### Sessions (`NatsClient`, `NatsHistory`)

In `NatsClient`, `Main` goes through the phases of `openConfigured`, `Next` and
`Close`; `Closer` waits for the context and closes the raw socket; `Dispatcher`
runs callbacks. `at[t]` is the next statement of goroutine `t` inside `Err`,
`fail` and `closeSocket`, which take and release the mutex. What the library
may do is written as the environment: connect or refuse, deliver, drop a slow
consumer, complain, disconnect, expire.

`NatsHistory` makes one request at a time: an INFO when it opens (`Info`,
`UpperBound`), a get by sequence for each `Next` (`Ask`, `Got`, `GotNothing`),
an INFO before the end is reported (`End`). Between a request and its answer
the stream may be appended to, purged, expired, or deleted and created again,
and the broker may lose the answer, refuse, or answer falsely. `Valid` and
`Possible` are what the code accepts as an answer. The largest sequence is
inside the model (`MaxSeq`), because the cursor overflows there
(`boundary` in the code and in the model).

### Observation (`NatsObserve`)

Extends the stop owner and the *abstract* session, so that the whole fits TLC;
`ImplementsSession` (runs `client` and `history`) is what justifies the
exchange. `hook` tells `Run` (a process with a watchdog that exits) from
`Execute` (a library call of a host, which installs none). `Decide` is the end
of the loop in the three steps of the code: it reads the reason without the
lock, then the caller's context, and then makes the request that they call for
(`decide`, `default`, `cancel` or `duration`); everybody else may come between.
`Prompt` says when an open or a `Next` is bound to come back: once the session is
over.

### Command (`CommandLine`, `Command`)

A command line is a function from the options that are given to a class of
value, and the arguments. `OptionsOK`, `DocumentOK`, `InteractionOK`,
`LocalOK`, `ProtobufOK` and `NatsOK` are the checks in the code's order of
questions (*given?* or *true?*); `Mode` is the routing. `Command` runs a command
line: the checks, the route, and for a single body every stage of
`runLocalInput` and `runProtobufInput`. `callback` and `timed` are the
`context.AfterFunc` of `protobufStdinDeadline` and the deadline that it may
have set on stdin. A reader or a writer that a host lends to `Execute` may return
the error of a context of its own (`Lent`); the code takes the error of any
context for a cancellation, and ends with 130 where nobody has interrupted it.
Document modes appear as what they touch and return; they
have modules of their own.

### Files (`AtomicWrite`, `Document`, `Batch`)

`AtomicWrite` has one action for each system call, of which each may fail or
be the last before a kill. Three failures are ignored by the code, and noted in
`ignored`: the `os.Stat` before the backup (the file counts as new, and there is
no backup), the `os.Stat` of the permissions (the new file gets 0644, which is
`fallback`), and the removal of a temporary file. The properties say what holds
whatever fails, and exactly what one of these three gives up. `diskDir` and `diskData` lag behind `dir` and
`data` and matter only to power cuts.
`Document` composes pure operators exactly as each mode does; the baselines
against which `--check`, `--dry-run` and `-i` compare are encoded by three
different functions in the code, and by three operators here. `Batch` walks the
phases of `runFiles`, the loop of `DeduplicatePaths` (`Collect`) first; `bare`
holds the files whose last write went without the backup it asked for, because
its `os.Stat` failed. The writes are those of `AtomicFile`, which
`WriteRefinesAtomicFile` proves `AtomicWrite` to implement.

### Streams (`StreamText`, `StdinStream`)

A text is a sequence of lines; a line is a whole document in some layout, a
separator, an empty line, something undecodable, or a line of an array that is
laid out over several. All mappings have the same key. None of the block
decoders looks for a key that is set twice: such lines are one document with the
last value in YAML and TOML (`IsBlock`), while in JSON a second document after
the first is an error. `DecodeYAML` and `DecodeTOML` take the format that the
text is written in, for what comes of a text that is read as another: lines of
TOML are a plain scalar in YAML (`Folded`), and JSON that is laid out over lines
is YAML, too. The state machine is the loop of `runStdin`: `Detect`,
`Read` (`ReadLine`, `ReadLast`, `ReadWhole`, `Finish`), `Select`, `Ask`,
`Frame`, `Body`, `Newline`; each write to stdout may fail, with or without some
bytes. `fmt` is `"none"` until the format is known. A text is there from the
beginning or arrives line by line (`job.piped`, `Arrive`, `Close`).

What should come of a text is said without the reader and without recursion:
`Ends` is the set of the lines at which its documents end, `ValueAt(f, g, s, p)`
the value of the one that ends at `p` if a text of format `g` is read as `f`, `Reply` and `Stops` what becomes of it,
`Due` the documents whose answers are due. `InOrder(f, g)` compares by rank what
stands at the positions of two sets: the answers on stdout, and those that are
due. `PipesOn` reads stdout again in the same way, as another nesdit would.

### Edit mode (`Value`, `EditSession`, `Edit`)

A value is a node with a kind, a literal, a tag, keys in their order and items.
`ToAny` is the way to gojq, which sorts keys and knows no tags, `FromAny` the
way back, which takes order and tags from the original. Numbers become Go's for
gojq and come back in the one spelling that `anyToValue` has for them
(`Respelled`, with the spellings in the constant `Spelling`): an untouched `1.0`
comes back as `1`. The diff compares spellings, so that an edit of `1` into
`1.0` is suggested as an assignment, which leaves `1`. `WalkDiff` is the
recursion of `walkDiff`, `walkMaps` and `walkSeqs`; `RunQuery` does what gojq
does with the assignments and deletions that `SynthesizeQuery` spells, and
`Suggested` runs the query as the suggested command would, the check for
missing paths included. The steps of `runEdit` are the actions of
`EditSession`, each of which may fail; the user may save anything of `Edits`,
leave the file, or break it. `EditSession` does not know what a document is:
the runs put `Edit`'s recursion for its constant `Walk`, and the theorems hold
for whatever stands there.

### MessagePack (`Msgpack`, `MsgpackJSON`)

A body is a sequence of items: the header of a value with its payload, and
possibly cut. The recursion of the walker is `stack`, one frame for each
container that is open; `decoded` and `view` are its budgets, `allocated` the
slots of the slices it made. `Give` is every value without values of its own,
`Enter` and `Close` the two ends of a container. `MsgpackJSON` adds the other
direction: `ActualView` (what `jsonScan` and `actualView` count), `Ordinary`
and `Rich` (what `targetCheck` counts and refuses), `Wire` (the encoder), and
then decodes what was encoded. `JSONLength` is the length of the text of a tree,
which `ReadJSON` compares with the limit of a body before anything else; a text
that is given may also be too long by its white space. The text of a number is data; `Number` says what
each text is as a number.

## 3. The runs

| Run | What it asks | Bounds |
|---|---|---|
| `stop_owner` | `ImplementsDecision`, `DecisionIsActedOn`, `SentenceHolds`, `StopEnds` | four goroutines: main, the watcher of the parent context, the session timer and the adapter's callback; every request in any order |
| `client` | `ImplementsSession`, `EndIsClean`, `CloseCompletes` | every fault; one pending message, so that the buffer overflows |
| `history` | `DeliveryIsFaithful`, `ImplementsSession`, `InspectionEnds` | three sequences, which are all there are, so that the cursor overflows; two changes of the stream; every fault of the broker; a start by sequence, by time, and a range |
| `observe` | `StatusIsHonest` | `--count 2` and a session that has three messages: one before the last, the last, and one too many; every mishap |
| `observe_ends` | `ObservationEnds` | one message, failing open and write; with a watchdog and without; a session that may keep Main waiting until the timer or a signal |
| `command` | `EndIsProper`, `Understood`, `CommandEnds` | one command line for each mode and source with every single option added, with one left out, with both, and pairs where options depend on each other; every stage of an inspection fails, is interrupted or blocks |
| `atomic_write` | `NeverTorn`, `NoLitter`, `ImplementsAtomicFile`, `OriginalIsSafe` | two writers, two files, two blocks: a file may be half one text, half another; backups, a link that is retargeted, kills, a power cut, and the calls whose failure is ignored; writers and files are interchangeable (symmetry) |
| `batch` | `BatchIsHonest`, `PreviewsHold` | up to three paths, two of them to one file; all combinations of six flags; three queries, one not idempotent; the command is given twice, the first time perhaps killed |
| `stdin` | `StreamIsHonest`, `PipesOn`, `AnswersAtOnce` | all texts of up to three lines over nine to eleven kinds of line, repeated keys included, five `--format`s, four `--output-format`s, three flags, one failing write; texts of up to four lines that arrive one by one |
| `edit` | `EditIsHonest`, `Reproduces`, `TouchesNoMore` | maps of up to two keys in both orders with scalars, tagged scalars, numbers that come back spelled differently, lists and maps in them, each edited into each; lists and scalars as documents; at most two changes before the query is another one |
| `msgpack` | `ChargesHold`, `ChargesAreExact`, `RoundTrips` | all bodies of up to three items of some twenty kinds and of five of a few, cut or not, with declared lengths of 0 to 3; trees of both profiles, as texts within the limit and beyond it; limits that are met exactly, and exceeded by one, by some of them |

Several properties are conjunctions of smaller ones that have a name and a
comment of their own next to the definition: `StopEnds` (`StopIsBounded`,
`StopIsHeard`), `EndIsClean` (`NotifiedOnce`, `SocketReleased`),
`DeliveryIsFaithful` (`InOrder`, `NothingKeptIsMissed`, `OneStream`),
`StatusIsHonest` (`CountLimits`, `SuccessIsEarned`, `TroubleIsReported`,
`CancelIsGenuine`, `FailureIsGenuine`), `ObservationEnds` (`StopBounded`,
`Returns`), `EndIsProper` (`StatusIsTrue`, `ToldOnceAndGuarded`,
`StdinIsRestored`), `OriginalIsSafe` (`OriginalSurvives`, `SparedByPowerCut`),
`BatchIsHonest` (`StrictIsClean`, `ExitIsHonest`, `SummaryIsTrue`,
`BackupHolds`), `PreviewsHold` (`PreviewsForetell`, `CheckAfterEdit`),
`StreamIsHonest` (`AnswersInOrder`, `StatusIsTrue`), `ChargesHold`
(`BudgetsHold`, `EachIsChargedOnce`), `TouchesNoMore` (`LeavesTheRest`,
`IsMinimal`), `RoundTrips` (`ViewsEncode`, `EncodersAgree`).

The bounds are small because each property is about an order of few steps: two
requests and a `finish`; one write between two; a failed document between two
that succeed; a container within a container. Where a boundary matters it is
inside the bound: a buffer of one, a count that is reached, a peek of two lines
in texts of four, the largest sequence, a budget that is spent to the last node.

## 4. Where the code and its documents disagree

`observe_truncated` is the run that must fail, and the finding of
`PROJECT.json`: `incomplete` reads the reason in one lock region and requests
the failure in another; the failure loses against a normal completion that
comes between, and the observation returns 0 with a truncated record on stdout.

Five more configurations state what the repository says of itself and are
refuted by TLC; they are kept here to be run by hand (`tlc -config <cfg>
<module>`):

| Configuration, property | Disagreement |
|---|---|
| `MCBatchSummary.cfg` (`MCBatch`), `SummaryLanded` | a strict batch that stops before its writes counts files as changed that it did not write (`run/files.go:118`); `run/files.go:18` says "The batch summary reflects what actually landed." |
| `MCStdinMultiLine.cfg` (`MCStdin`), `MultiLineDetected` | an array with one object a line is taken for JSON lines if it is longer than the peek (`format/detect.go:72`); `docs/modes/stdin.md:28` says "Multi-line JSON is handled correctly" |
| `MCStdinTail.cfg` (`MCStdin`), `TailIsRejected` | text after a JSON document is ignored if it begins with a closing bracket (`format/json/json.go:74`, against the comment above it) |
| `MCCommandPreview.cfg` (`MCCommand`), `NoFileIsWritten` | `-i --dry-run=false` is announced as a preview (`run/run.go:881`) and edits the files: the precedence rules look at whether an option was given (`run/run.go:894`), the routing at its value; `docs/modes/in-place.md:119` says "`--dry-run` wins. No file written." |
| `MCEditSuggestion.cfg` (`MCEdit`), `SuggestionRuns` | the suggested command never has `--create-missing` (`diff/diff.go:428`), so one that adds a key is refused when it is run; `docs/modes/edit.md:5` says "you can paste into a script" |

Other disagreements that modelling brought up. The models contain the
behaviour, and the properties are stated so that they hold with it:

- `Execute` whose caller cancels while the session is being opened may return 1:
  the failed open asks for its failure before the watcher of the parent context
  runs. `run/run.go:79` gives 130 for a cancellation.
- Nothing is synced before the rename, so a power cut afterwards may leave an
  empty file; `io/atomic.go:3-6` covers "power loss". `SparedByPowerCut` is
  about power cuts before the rename.
- A file with an unchanged value is rewritten in the encoder's layout, without
  a backup (`run/files.go:137-142`; `docs/modes/in-place.md:87` has a sibling
  saved "before each atomic write"), and `--check` returns 0 for it, where
  `docs/modes/check.md:9` says "byte-identical to the input".
- `--keep-going` returns 0 for a JSON document that failed (`run/stdin.go:311`);
  `docs/modes/stdin.md:183` says 1.
- `--format json` does not take JSON lines; `docs/modes/stdin.md:85` says it
  detects them.
- A YAML document that cannot be encoded leaves its `---` on stdout
  (`stream/stream.go:161`); `run/stdin.go:33` says it is not written.
- What `--where` passes through is laid out anew; `run/stdin.go:47-48` says
  "byte-identical to the input".
- A change of the whole document has no path: the suggestion is ` = v`, which
  is no query, and the fields of a document that is a list are spelled
  `[0] = ...`, which is no path (`diff/diff.go`). `Reproduces` is about
  documents that are maps.
- A string of digits is suggested as `--argjson x="12"`, which sets a number
  (`isNumericLiteral`, `diff/diff.go:366`).
- An edit that only changes the order of keys or a tag gives an empty query.
- An edit that only changes the spelling of a number gives a query that does not
  change it back; and the suggested query respells the numbers it does not
  mention (`omap/bridge.go:181`). `Reproduces` and `TouchesNoMore` are about the
  values of numbers.
- A failed `os.Stat` drops the backup that was asked for, or the permissions of
  the file, without an error (`io/atomic.go:124`, `io/atomic.go:53`).
- 130 is given for a context error of a stream that a host has lent
  (`run/local_input.go:162`), although nothing was interrupted.
- An editor that exits with an error makes nesdit exit 1
  (`run/edit.go:156`); `docs/modes/edit.md:60` says 0 with a warning.

`CHECK_DEADLOCK FALSE` is in every configuration because every modelled program
ends: a command exits, an observation returns, a body is decoded.

## 5. Fairness

- `FairStopSpec`: timers fire and goroutines that were started run to their
  next blocking point, which Go's scheduler gives. Nobody is forced to call the
  owner, and `Main` may be blocked for ever.
- `FairClientSpec`: the adapter's own goroutines run; the library's I/O, its
  callbacks and `Main` need not.
- `FairHistorySpec`: the caller goes on, and each request gets its answer or
  its timeout (`RequestFails` is what the code does after five seconds; `Answer`
  contains it as the answer `Lost`).
- `FairSpec` (observation): as for the stop owner, and `Main` does not block
  after `finish` (from there on it calls nothing that could). With an exit hook
  nothing is assumed of `Main` before: a write to stdout, a query or the
  library may block for ever, the watchdog is there for that, and `StopBounded`
  holds nevertheless. Without a hook (`Execute`, as a host calls it) nothing can
  interrupt a blocked call, so `Returns` assumes that writers return, and that
  the library does where the code makes sure of it: an open and a `Next` are only
  assumed to return when their context is done or a failure has been seen
  (`Prompt`). A `Next` without a message may block for ever, and it is the
  session timer that ends the observation: without the fairness of
  `SessionStops`, which passes the stop on to the session, TLC refutes `Returns`.
- `FairSpec` (command): the same, and without a hook stdin ends at last.
- `stdin` assumes nothing: `AnswersAtOnce` is an invariant of the states in
  which no step of nesdit is enabled, and says that then every complete document
  has been answered. A write to stdout that blocks is the reader's affair and
  not modelled.
- `batch`, `atomic_write`, `edit` and `msgpack` check safety only: nothing in
  these parts waits for another.

## 6. What is proved

Every safety property that the runs check is also a theorem of the
specification, for every value of the constants, but for the six that "Only
model-checked" names below; `tlapm` checks the proofs to the last leaf. Each has
the same shape: an inductive invariant `...IInv`, a conjunction of named parts;
lemmas that show that each action preserves it; and the properties as
consequences. TLC can check each `...IInv` as an invariant of the component's
run, which is how they were found.

| Module | For every | Theorems |
|---|---|---|
| `NatsStopProofs` | number of callers | `StopTypes`, `DecisionsAreActedOn`, `SentencesHold`, `StopRefinesDecision` |
| `NatsClientProofs` | capacity of the subscription, set of faults | `ClientTypes`, `ClientEndsCleanly`, `ClientImplementsSession` |
| `NatsHistoryProofs` | largest sequence, selections, number of changes of the stream | `HistoryTypes`, `HistoryIsFaithful`, `HistoryImplementsSession` |
| `NatsObserveProofs` | count, number of messages, callers, mishaps | `ObserveTypes`, `StatusesAreHonest`, `ObservationIsComposed`, `ObservationDecides` |
| `CommandProofs` | command line, callers, mishaps | `CommandTypes`, `EndsAreProper`, `LinesAreUnderstood`, `CommandIsComposed`, `CommandDecides` |
| `FileProofs` | number of writers and files | `AtomicTypes`, `FilesAreNeverTorn`, `NothingIsLeft`, `OriginalsAreSafe`, `WriteRefinesAtomicFile` |
| | files, links, batches, queries, flags, number of runs | `BatchTypes`, `BatchesAreHonest`, `PreviewsAreTrue` |
| | documents, edits, differences | `EditTypes`, `EditsAreHonest` |
| `StdinProofs` | texts, command lines, queries, number of failing writes | `StdinTypes`, `AnswersAreInOrder`, `StatusesAreTrue`, `StreamsAreHonest` |
| `MsgpackProofs` | body, limits | `WalkTypes`, `NoBodyOverdraws`, `ValuesAreChargedOnce`, `ChargesAreHeld` |

**How the theorems compose.** `NatsStop` is proved with any callers that call
it in any order. `ObservationIsComposed` and `CommandIsComposed` prove that an
observation and an invocation take no step that `NatsStop` does not allow (Main
makes no call after `finish`; nobody else calls in the watcher's name), and that
an observation takes none that `NatsSession` does not allow. So what was proved
of the owner alone holds in both (`ObservationDecides`, `CommandDecides`), and
`ClientImplementsSession` and `HistoryImplementsSession` say that either session
may stand in the place of the abstract one. Likewise `Batch` writes by the
actions of `AtomicFile`, which `WriteRefinesAtomicFile` proves of the system
calls.

**Stop owner.** `StopIInv`: the types; a decision arms the watchdog, and its
context is cancelled or some `owes[c]` says who is on the way to do it
(`DecisionIsActedOn`); while the watchdog holds a status, it is the one that the
decision calls for (`SentenceHolds`); and a watchdog that runs implies a
decision (`ArmedByDecision`). Without the last, `SentenceHolds` is not
inductive: the callback reads the reason, and could read none.
`StopRefinesDecision` maps every step to a step of `StopDecision` or a stutter.
Assumption: `CallersAssumption` (main and watcher are two of the callers).

**NATS client adapter.** `ClientIInv` says which goroutine may be where
(`Places`); that at most one of them owns the close, and that Main does not
return before the socket is closed (`Claims`, `Socket`); that whatever looks
like a failure was caused from outside, by the close itself or by the connect
allowance (`Caused`); that the goroutine which latched a failure is the one that
tells of it, once (`Telling`); and that whoever owns the close has asked the
library for trouble before it marks the session as closing (`Asked`). The last
two are what `EndIsClean` and the refinement turn on: a trouble that came before
the stop is latched when `Close` returns, although the adapter's own close makes
the library complain as well. Assumption: `ClientAssumption` (a positive
capacity, three goroutines).

**History inspection.** `HistoryIInv`: what is asked and when (`Protocol`); the
cursor lies behind what was delivered (`Progress`); a stream that was replaced is
another one for ever (`Identity`); as long as nothing did harm the answers are
possible (`Honest`), and what is wanted and not delivered yet lies at or after
the cursor, and no answer passes it over (`Complete`). `Complete` is the heart:
that nothing kept is missed is a statement about the end, and the induction needs
to know where the missing ones are in every state before. At the largest
sequence, where the cursor cannot go on, `boundary` takes its place. Assumption:
`HistoryAssumption` (a largest sequence, selections that the validation lets
pass).

**Observation.** `ObserveIInv`: the program order of Main and the life of its
session (`Order`, `SessionFacts`: also while Main is between what it has read
without the lock and the request it makes, the steps of `Choosing`); nothing is begun that the count does not
admit (`Counted`); a cancellation was asked for (`Wished`); a failure has a
ground that stays (`Grounded`: also after the status has been computed, or while
`incomplete` is between its two lock regions); success is decided after the
close, which has found all early trouble (`Earned`). Assumption:
`ObserveAssumption` (session timer, signals and adapter are callers of their
own; the set of callers may have others).

**Invocation.** `CommandIInv`: what has been asked of the command line where
Main is (`Checked`); `finish` before the exit, and nothing told twice (`Order`);
a stop was asked for from outside or by an error, and a cancellation from outside
or by a lent stream (`Wished`); the deadline of
stdin follows the stop, and is off everywhere but where the body is read
(`Deadline`); what the stages have done (`Progress`); and the ground of every
error (`Judged`). `LinesAreUnderstood` goes by cases over the checks: for a line
that inspects something, one source and no option of another mode
(`InspectionIsUnderstood`); for one that edits, that the mode is the one of the
switches (`DocumentIsUnderstood`). TLC starts from some thousand command lines,
the theorem is about all of them. Assumption: `CommandAssumption` (the signal
handler is a caller of its own).

**Atomic writer.** `AtomicIInv`: the types; a result is the last thing a writer
has; a temporary file belongs to a writer in the middle of its write; and, as
long as the power is on, nobody writes the inode of an original, a name leads to
its original or to the file of a writer that reported success, and for each stage
of a write what its temporary file holds (`Stage(w)`). `NeverTorn` needs the
stages: a rename is harmless only if the temporary file is whole, which is a fact
about an earlier step. That a temporary file is left only by a removal that
failed needs to know who still uses his (`TempsInUse`). `WriteRefinesAtomicFile` shows that the system calls
implement `AtomicFile` up to a power cut, after which `AtomicFile` promises
nothing (`[AtomicNext \/ ~up']`). `OriginalsAreSafe` needs a second invariant,
relative to the first (`SurvivalInvariant`): `DiskIInv`, that also on the disk a
name leads to an original or to what a successful write installed, and
`BackupIInv`, that a writer that works alone copies from the original and has
the copy before it begins its temporary file, unless it has overlooked the file;
and `PermIInv`, that the permissions a writer will give are those of the file or
a failed `os.Stat` is on its account, which it then stays (`OverlookedStays`). Assumption:
`AtomicWriteAssumption` (the mark of an empty block is no writer and no file; the
switches are Boolean).

**Batch.** `BatchIInv`: one path is kept for each file that the arguments name
(`Collected`); a result was computed from the text its file had when the run
began (`Passes`), although files are written later and paths may be links; every
file holds the text of its result or the one it had (`Landing`); status and
summary count the results (`Told`); and with `--backup` and a query that may be
repeated a file holds what it held at first, or a value that the query leaves as
it is, and in that case nothing writes to its backup any more (`Lineage`), unless it is
`bare`.
`Lineage` is what carries `BackupHolds` over a killed command that is given
again. Assumptions: `BatchAssumption` and `DocumentAssumption`, which say what
kind of thing the constants are; `--output-format`, which the command line
refuses together with `-i` (`run/run.go:802`), is no flag of a batch.

**Editing.** `EditIInv`: what is shown and told follows the step, a status
follows both, and what the editor saved is what was decoded (`EditedIsRead`).
`DiffIsBounded` is what makes a suggestion short, whatever `Walk` finds. TLC
puts for `Walk` the recursion of `Edit`, which the prover cannot reach; nothing
is assumed of it but that it finds a finite number of changes
(`EditAssumption`).

**Streams.** `StdinIInv` relates the reader, in the middle of a text, to what
the text is as a whole. `Reading`: what is in the buffer are the lines since the
last separator, so that a separator, or the end of the text, ends exactly the
document that `TextAt` cuts out of the text there. From that, `Taken` (the
documents that the reader has handed on) are all those up to `pos`, and a step
of `Read` takes either none or the next one, whose value is the one that `Input`
says (`Current`: it stays so while the query runs and the answer is written).
`Settled` are those that have been dealt with, `Served` those of them that have
an answer. `Account`: nothing that was settled stops the run, and `hadError`
says whether some of it was not served. `Matching`: as long as no write has
failed, the answers on stdout are those of `Served`, rank by rank. So when the
run ends, or is stopped by a document, `Served` is `Due` or its first part
(`ServedIsDue`), which is `AnswersInOrder`, and the status is 0 just if every
document was served, which is `StatusIsTrue`. The invariant has to speak of sets
of positions: a fold over what was read so far would need an induction at each
line. Assumptions: `StdinAssumption`, `StreamAssumption` and
`DocumentAssumption`, which say what kind of thing the constants are.

**MessagePack walker.** `MsgpackIInv`: the types; both budgets within their
limits; no more slots allocated than nodes charged; and of the stack (`StackOK`)
that the frame at position `i` has depth `i - 1`, that a frame which waits for a
value passed the check of its depth, and that only the frame on top may wait for
none. The last is what bounds the recursion: a container that is empty is not
checked (`decode.go`), so a frame may be one deeper than the limit, but never
two, because what is below it waits for it. `ValuesAreChargedOnce` needs a
second invariant, relative to the first (`Charged`): the values that the open
containers wait for are a finite set of pairs (`Owed`), of which a value that is
given takes one (`GivingOwes`), a container that is opened adds as many as it
charges (`OpeningOwes`), and one that is closed had none left (`ClosingOwes`).
These theorems are about `Msgpack!Spec`, decoding alone; the run `msgpack` checks
`JSONSpec`, whose `DecodeStep` is the same next-state relation on the bodies of
`Bodies` and on those that the encoder wrote. Assumptions: limits are positive,
lengths are natural numbers, and a body is a sequence of items whose payload fits
their code (`BodiesAssumption`, which says nothing of the lengths that containers
declare).

**Only model-checked.** Induction over data is out of the prover's reach:

- `StdinStream`: `PipesOn`, in which a second reader reads what the first one
  wrote: what `SelectSeq` makes of a sequence that grows is such an induction;
  and `AnswersAtOnce`, which speaks of what is enabled.
- `Edit`: `Reproduces` and `TouchesNoMore`, which are about recursive operators
  over trees.
- `MsgpackJSON`: `ChargesAreExact` and `RoundTrips`, for the same reason; and
  that `JSONSpec` keeps what was proved of `Spec` for the bodies it encodes.
- All liveness (`StopEnds`, `CloseCompletes`, `InspectionEnds`,
  `ObservationEnds`, `CommandEnds`).

## 7. What is not modelled

- The FlatBuffers view and the descriptors of the Protobuf view: checked readers
  of binary schemas; they appear in `Command` as stages that succeed or fail.
- The parsers (`encoding/json`, yaml.v3, go-toml, gojq, the protobuf library,
  the MessagePack decoder's single values) are third-party code: they appear as
  "decodes to a value or fails", and gojq in `Edit` as what an assignment or a
  deletion does to a tree.
- The syntax of numbers and the bits of floats: `Number` is data of the model.
- Wording, colours, log layout, the pretty printer's layout (but for the fact
  that it differs from the compact one, which `Batch` uses).
- In `Batch`, another program that edits a file between its reading and its
  writing: nothing in the code detects it, and no document promises it. A
  backup name that is itself a path of the batch.
- In `EditSession`, an editor that returns before its user has saved, and a
  temporary file that cannot be removed: the code ignores that error.
- In `StdinStream`, an output line that is too long for the next reader, and a
  query that times out is simply one that fails.
- In `MsgpackJSON`, a cancellation while JSON is read or encoded: the functions
  return its error and have no state.
- Windows builds: no signal handler, which is `NatsObserve` without
  `Interrupt`.
- Logging and display (layout), the text view (one UTF-8 check), test support,
  the documentation generator and the scripts.

## 8. The plan

Done: stop owner, adapter, history, observation, dispatch and the inspection of
a body, atomic writer, batch and previews, stdin and detection, edit mode with
its diff, the MessagePack view; proofs for all of these but the diff and the
JSON side of MessagePack.

1. `PipesOn` as a theorem: state what `LinesOut` is by positions, as `Ends` does
   for the text that comes in, and relate each document that was written to the
   lines around it.
2. The offsets of the FlatBuffers reader and the import cycles of the Protobuf
   view, if their rules change; the budgets they use are those of `Msgpack`.
