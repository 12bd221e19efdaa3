------------------------------- MODULE Batch -------------------------------
(***************************************************************************)
(* nesdit -i over a batch of files (run/files.go): all files are processed *)
(* before the first is written, each is written atomically (AtomicFile),   *)
(* and the summary and the exit status tell what landed.  The process may  *)
(* be killed at any point, and the user may run the same command again.    *)
(***************************************************************************)
EXTENDS Integers, Sequences, FiniteSets, Document

CONSTANTS Paths, Files,
          Link,     \* Link[p]: the file a path leads to
          Ext,      \* Ext[p]: the format of the path's extension, or Unknown
          Unknown,
          Batches,  \* the argument lists that may be given
          Asked,    \* the queries that may be asked
          Given,    \* the flags that may be given
          Starts,   \* the texts the files may have
          MaxRuns   \* bound on the runs of the command

ASSUME BatchAssumption ==
  /\ Link \in [Paths -> Files]
  /\ Batches \subseteq Seq(Paths) \ {<<>>} /\ Asked \subseteq Queries
  /\ Given \subseteq Flags \ {"cross"} /\ Starts \subseteq Texts /\ MaxRuns \in Nat

VARIABLES
  query, opts,  \* what the command line asked for
  args,         \* its paths
  file,         \* file[f]: the text of f
  backup,       \* backup[f]: the text of f and the suffix
  bare,         \* the files whose last write went without the backup it asked for
  phase,        \* "start", "process", "write", "done" or "crashed"
  paths,        \* the paths without duplicates
  n,            \* the position of the loop over paths
  step,         \* of the write of paths[n]: "decide", "copying" or "install"
  results,      \* results[i]: see ProcessOneFile
  outcome,      \* outcome[i] of the write, see AtomicFile
  summary,      \* the batch.summary line, or NoSummary
  exit,         \* the exit status, -1 before
  original,     \* the texts before the first run,
  start,        \* before this run,
  runs          \* and the number of runs

asked == <<query, opts, args>>
disk  == <<file, backup, bare>>
local == <<phase, paths, n, step, results, outcome, summary, exit>>
past  == <<original, start, runs>>
vars  == <<asked, disk, local, past>>

Positions == UNION {DOMAIN b : b \in Batches}
Outcomes  == {"pending", "installed", "refused"}
NoSummary == [changed |-> -1, unchanged |-> -1, errored |-> -1]

(* The write of a position is a write of AtomicFile. *)
Atomic == INSTANCE AtomicFile WITH Writers <- Positions,
                                   text <- [i \in Positions |-> results[i].new]

BatchTypeOK ==
  /\ query \in Asked /\ opts \in FlagSets /\ args \in Batches
  /\ file \in [Files -> Texts]
  /\ backup \in [Files -> Texts \cup {Torn, NoBytes}] /\ bare \subseteq Files
  /\ phase \in {"start", "process", "write", "done", "crashed"}
  /\ step \in {"decide", "copying", "install"}
  /\ \A i \in Positions : results[i].status \in {"none", "errored", "skipped", "ready"}
  /\ \A i \in Positions : results[i].status = "ready" <=> results[i].new \in Texts
  /\ outcome \in [Positions -> Outcomes]
  /\ exit \in -1..1 /\ (exit = -1 <=> phase \notin {"done"})
  /\ paths \in Seq(Paths) /\ Len(paths) <= Len(args)
  /\ n \in 1..(Len(args) + 1) /\ (phase \in {"process", "write"} => n <= Len(paths) + 1)

BatchInit ==
  /\ query \in Asked /\ args \in Batches
  /\ opts \in {o \in FlagSets : \A f \in Flags \ Given : ~o[f]}
  /\ file \in [Files -> Starts]
  /\ backup = [f \in Files |-> NoBytes] /\ bare = {}
  /\ phase = "start" /\ paths = <<>> /\ n = 1 /\ step = "decide"
  /\ results = [i \in Positions |-> Unread]
  /\ outcome = [i \in Positions |-> "pending"]
  /\ summary = NoSummary /\ exit = -1
  /\ original = file /\ start = file /\ runs = 1

Leave(code) == phase' = "done" /\ exit' = code
Stay        == UNCHANGED <<phase, exit>>

-----------------------------------------------------------------------------
(* DeduplicatePaths: of the paths that lead to one file the first is kept. *)
Seen(p) == \E i \in DOMAIN paths : Link[paths[i]] = Link[p]

Collect ==
  /\ phase = "start" /\ n <= Len(args)
  /\ paths' = IF Seen(args[n]) THEN paths ELSE Append(paths, args[n])
  /\ n' = n + 1
  /\ Stay
  /\ UNCHANGED <<asked, disk, step, results, outcome, summary, past>>

(* detectMixedFormats: by the extensions alone. *)
Mixed == ~opts["forced"] /\ \E i, j \in DOMAIN paths : Ext[paths[i]] # Ext[paths[j]]

Begin ==
  /\ phase = "start" /\ n = Len(args) + 1
  /\ n' = 1
  /\ IF Mixed THEN Leave(1) ELSE phase' = "process" /\ UNCHANGED exit
  /\ UNCHANGED <<asked, disk, paths, step, results, outcome, summary, past>>

(* processOneFile; whatever the file holds, opening or reading it may      *)
(* fail and the query may time out.                                        *)
HasFormat(p) == opts["forced"] \/ Ext[p] # Unknown

Process ==
  /\ phase = "process" /\ n <= Len(paths)
  /\ \E r \in {Failed} \cup
              {ProcessOneFile(file[Link[p]], query, opts) :
                 p \in {p \in {paths[n]} : HasFormat(p)}} :
       results' = [results EXCEPT ![n] = r]
  /\ n' = n + 1
  /\ Stay
  /\ UNCHANGED <<asked, disk, paths, step, outcome, summary, past>>

(* emitBatchSummary *)
Errored(i) == results[i].status = "errored" \/ outcome[i] = "refused"
Counted(P(_)) == Cardinality({i \in DOMAIN paths :
                                results[i].status # "skipped" /\ P(i)})
Summary == [changed   |-> Counted(LAMBDA i : ~Errored(i) /\ ~Unchanged(results[i])),
            unchanged |-> Counted(LAMBDA i : ~Errored(i) /\ Unchanged(results[i])),
            errored   |-> Counted(Errored)]
Summarize == summary' = IF Len(paths) > 1 THEN Summary ELSE summary

(* The end of the first passes: in strict mode one failure stops the batch *)
(* before any write.                                                       *)
Aborts == ~opts["keepGoing"] /\ \E i \in DOMAIN paths : results[i].status = "errored"

Processed ==
  /\ phase = "process" /\ n = Len(paths) + 1
  /\ IF Aborts THEN /\ Summarize /\ Leave(1) /\ UNCHANGED n
               ELSE /\ phase' = "write" /\ n' = 1
                    /\ UNCHANGED <<summary, exit>>
  /\ UNCHANGED <<asked, disk, paths, step, results, outcome, past>>

-----------------------------------------------------------------------------
(* The write phase.  Only a changed file is backed up. *)
Writing(s) == phase = "write" /\ n <= Len(paths) /\ step = s
Dest       == Link[paths[n]]

BugBackUpAlways == opts["backup"]
NeedsBackup == opts["backup"] /\ ~Unchanged(results[n])

PassOver ==
  /\ Writing("decide") /\ results[n].status # "ready"
  /\ n' = n + 1
  /\ UNCHANGED <<asked, disk, phase, paths, step, results, outcome, summary, exit, past>>

BugWritesAll ==
  /\ Writing("decide")
  /\ step' = "install"
  /\ UNCHANGED <<asked, disk, phase, paths, n, results, outcome, summary, exit, past>>
Decide ==
  /\ Writing("decide") /\ results[n].status = "ready"
  /\ IF NeedsBackup THEN /\ step' = "copying"
                         /\ backup' = [backup EXCEPT ![Dest] = Torn]
                    ELSE step' = "install" /\ UNCHANGED backup
  /\ UNCHANGED <<asked, file, bare, phase, paths, n, results, outcome, summary, exit, past>>

(* The os.Stat before the backup fails: the write goes on without one.     *)
StatFails ==
  /\ Writing("decide") /\ results[n].status = "ready" /\ NeedsBackup
  /\ step' = "install" /\ bare' = bare \cup {Dest}
  /\ UNCHANGED <<asked, file, backup, phase, paths, n, results, outcome, summary, exit, past>>

Copied ==
  /\ Writing("copying")
  /\ step' = "install"
  /\ backup' = [backup EXCEPT ![Dest] = file[Dest]] /\ bare' = bare \ {Dest}
  /\ UNCHANGED <<asked, file, phase, paths, n, results, outcome, summary, exit, past>>

Install ==
  /\ Writing("install")
  /\ UNCHANGED results /\ Atomic!Install(n, Dest)
  /\ n' = n + 1 /\ step' = "decide"
  /\ UNCHANGED <<asked, backup, bare, phase, paths, summary, exit, past>>

(* Any call of the write may fail; the batch goes on. *)
WriteFails ==
  /\ \E s \in {"copying", "install"} : Writing(s)
  /\ UNCHANGED results /\ Atomic!Refuse(n)
  /\ n' = n + 1 /\ step' = "decide"
  /\ UNCHANGED <<asked, backup, bare, phase, paths, summary, exit, past>>

Finish ==
  /\ phase = "write" /\ n = Len(paths) + 1
  /\ Summarize
  /\ Leave(IF \E i \in DOMAIN paths : Errored(i) THEN 1 ELSE 0)
  /\ UNCHANGED <<asked, disk, paths, n, step, results, outcome, past>>

Run == Collect \/ Begin \/ Process \/ Processed \/ PassOver \/ Decide \/ StatFails \/ Copied
         \/ Install \/ WriteFails \/ Finish

-----------------------------------------------------------------------------
(* The process is killed; the same command is given again. *)
Crash == /\ phase \notin {"done", "crashed"}
         /\ phase' = "crashed"
         /\ UNCHANGED <<asked, disk, paths, n, step, results, outcome, summary, exit, past>>

Again == /\ phase \in {"done", "crashed"} /\ runs < MaxRuns
         /\ runs' = runs + 1 /\ start' = file
         /\ phase' = "start" /\ paths' = <<>> /\ n' = 1 /\ step' = "decide"
         /\ results' = [i \in Positions |-> Unread]
         /\ outcome' = [i \in Positions |-> "pending"]
         /\ summary' = NoSummary /\ exit' = -1
         /\ UNCHANGED <<asked, disk, original>>

BatchNext == Run \/ Crash \/ Again
BatchSpec == BatchInit /\ [][BatchNext]_vars

-----------------------------------------------------------------------------
Named   == {Link[args[i]] : i \in DOMAIN args}
Over    == phase = "done" /\ ~opts["where"]
Changed(f) == file[f].value # start[f].value

(* In strict mode a file that cannot be processed keeps the whole batch    *)
(* from being written, whatever happens afterwards (runFiles: "no files    *)
(* were written").                                                         *)
StrictIsClean ==
  ~opts["keepGoing"] /\ (\E i \in Positions : results[i].status = "errored")
    => file = start

(* Exit status 0: every file on the command line, whatever path leads to   *)
(* it, now holds the encoded answer of the query on the text it had, or is *)
(* one that --where leaves alone (runFiles).                               *)
Done(f) == LET r == ProcessOneFile(start[f], query, opts)
           IN CASE r.status = "ready"   -> file[f] = r.new
                [] r.status = "skipped" -> file[f] = start[f]
                [] OTHER                -> FALSE
ExitIsHonest == phase = "done" /\ exit = 0 => \A f \in Named : Done(f)

(* The numbers of the summary are those of the files whose value changed,  *)
(* stayed or were given up (files.go: "The batch summary reflects what     *)
(* actually landed"),                                                      *)
Landed ==
  /\ summary.changed = Cardinality({f \in Named : Changed(f)})
  /\ Over => summary.changed + summary.unchanged + summary.errored = Cardinality(Named)
  /\ summary.errored = 0 <=> exit = 0
SummaryIsTrue == phase = "done" /\ summary # NoSummary /\ ~Aborts => Landed

(* also when strict mode has stopped the batch.                            *)
SummaryLanded == phase = "done" /\ summary # NoSummary => Landed

(* With --backup and a query that may be repeated, a value that was        *)
(* changed is in the backup with its original bytes, although the process  *)
(* was killed anywhere and the command given again (WriteAtomicWithBackup),*)
(* unless the write itself reports that it made none.                      *)
BackupHolds ==
  opts["backup"] /\ Idempotent(query) =>
    \A f \in Files \ bare : file[f].value # original[f].value => backup[f] = original[f]

(* --check, --dry-run and plain output foretell what -i does: drift, and a *)
(* diff, if and only if -i changes the value, and on stdout the text that  *)
(* -i writes (runCheck, runDryRun, runOnce).                               *)
PreviewsForetell ==
  Over /\ exit = 0 =>
    \A f \in Named : start[f].value \notin Unencodable =>
      /\ RunCheck(start[f], query, opts) = IF Changed(f) THEN 2 ELSE 0
      /\ LET d == RunDryRun(start[f], query, opts)
         IN d # <<>> /\ file[f] = d[2] /\ (Changed(f) => d[1] # d[2])
      /\ RunOnce(start[f], query, opts) = file[f]

(* After an edit that succeeded --check finds no drift (runCheck). *)
CheckAfterEdit ==
  Over /\ exit = 0 /\ Idempotent(query) =>
    \A f \in Named : RunCheck(file[f], query, opts) = 0

(* What a batch has done, and what its previews say it will, in short      *)
(* (runFiles; runCheck, runDryRun).                                        *)
BatchIsHonest == StrictIsClean /\ ExitIsHonest /\ SummaryIsTrue /\ BackupHolds
PreviewsHold  == PreviewsForetell /\ CheckAfterEdit

=============================================================================
