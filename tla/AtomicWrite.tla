---------------------------- MODULE AtomicWrite ----------------------------
(***************************************************************************)
(* WriteAtomic and WriteAtomicWithBackup (io/atomic.go), system call by    *)
(* system call: each writer may be killed between any two of them, and the *)
(* power may fail.  Several nesdit processes may write the same file.  Any *)
(* call may fail; of three of them, both os.Stat and os.Remove, the code   *)
(* ignores the failure and goes on.                                        *)
(*                                                                         *)
(* A name leads to an inode and an inode holds two blocks, so that a write *)
(* can be cut in half.  What the file system does is external.             *)
(***************************************************************************)
EXTENDS Integers

CONSTANTS Writers,  \* calls of WriteAtomicWithBackup, in a process each
          Dests,    \* the files that the symbolic link dest may lead to
          Backup,   \* backupSuffix is not empty
          Retarget, \* somebody else may retarget the link
          PowerCut  \* the power may fail

ASSUME AtomicWriteAssumption ==
  /\ "nothing" \notin Writers \cup Dests
  /\ {Backup, Retarget, PowerCut} \subseteq BOOLEAN

(* The inodes: the originals, the temporary files and the backups. *)
Old(f)  == <<"old", f>>
New(w)  == <<"new", w>>
Copy(f) == <<"copy", f>>
Inodes  == {Old(f) : f \in Dests} \cup {New(w) : w \in Writers}
             \cup {Copy(f) : f \in Dests}

Nothing  == "nothing"
Blocks   == 1..2
Contents == Writers \cup Dests
Whole(t) == [b \in Blocks |-> t]
Empty    == Whole(Nothing)

VARIABLES
  link,    \* where dest leads
  dir,     \* dir[f]: the inode under the name of f
  data,    \* data[i]: the blocks of inode i, as the processes see them
  mode,    \* mode[i]: the permissions of inode i, see Modes
  temps,   \* the writers whose temporary file exists
  diskDir, \* dir and data as the power cut would leave them
  diskData,
  up,      \* the power is on
  pc,      \* pc[w]: the next system call of writer w, see Calls
  target,  \* target[w]: the resolved path
  source,  \* source[w]: the inode that copyFile reads
  perm,    \* perm[w]: the permissions that its new file will get
  ignored, \* ignored[w]: the calls of w whose failure was ignored
  result   \* result[w]: "none", "ok" or "error"

diskVars   == <<diskDir, diskData, up>>
sightVars  == <<link, dir, data, mode, temps>>
seen       == <<perm, ignored>>
writerVars == <<pc, target, source, seen, result>>
writeVars  == <<sightVars, diskVars, writerVars>>

Calls == {"resolve", "exists", "open", "truncate", "copy1", "copy2", "perm",
          "create", "write1", "write2", "chmod", "rename", "remove", "done", "killed"}
Ignorable == {"exists", "perm", "remove"}

(* The file's own permissions, 0644, and those of a new temporary file. *)
Modes == {"original", "fallback", "private"}

AtomicTypeOK ==
  /\ link \in Dests
  /\ dir \in [Dests -> Inodes] /\ diskDir \in [Dests -> Inodes]
  /\ data \in [Inodes -> [Blocks -> Contents \cup {Nothing}]]
  /\ diskData \in [Inodes -> [Blocks -> Contents \cup {Nothing}]]
  /\ mode \in [Inodes -> Modes] /\ perm \in [Writers -> Modes]
  /\ ignored \in [Writers -> SUBSET Ignorable]
  /\ temps \subseteq Writers /\ up \in BOOLEAN
  /\ pc \in [Writers -> Calls] /\ target \in [Writers -> Dests]
  /\ source \in [Writers -> Inodes]
  /\ result \in [Writers -> {"none", "ok", "error"}]

WriteInit ==
  /\ link \in Dests
  /\ dir = [f \in Dests |-> Old(f)]
  /\ data = [i \in Inodes |-> IF i[1] = "old" THEN Whole(i[2]) ELSE Empty]
  /\ mode = [i \in Inodes |-> "original"]
  /\ temps = {}
  /\ diskDir = dir /\ diskData = data /\ up = TRUE
  /\ pc = [w \in Writers |-> "resolve"]
  /\ target = [w \in Writers |-> link]
  /\ source = [w \in Writers |-> Old(link)]
  /\ perm = [w \in Writers |-> "original"] /\ ignored = [w \in Writers |-> {}]
  /\ result = [w \in Writers |-> "none"]

(* Writer w makes a call, or the call fails and w goes where its error     *)
(* leads.                                                                  *)
At(w, c)    == up /\ pc[w] = c
Goto(w, c)  == pc' = [pc EXCEPT ![w] = c]
Result(w, r) == result' = [result EXCEPT ![w] = r]

Fails(w, c, then) == /\ At(w, c) /\ Goto(w, then)
                     /\ IF then = "done" THEN Result(w, "error") ELSE UNCHANGED result
                     /\ UNCHANGED <<sightVars, diskVars, target, source, seen>>

(* A call fails and nobody asks. *)
Ignore(w, c) == ignored' = [ignored EXCEPT ![w] = @ \cup {c}]

PutBlock(i, b, t) == data' = [data EXCEPT ![i][b] = t]

-----------------------------------------------------------------------------
(* resolveTarget, once; then the backup, if any. *)
BugTargetIsInode(w) ==
  /\ At(w, "resolve")
  /\ target' = [target EXCEPT ![w] = dir[link]]
  /\ Goto(w, "create")
  /\ UNCHANGED <<sightVars, diskVars, source, seen, result>>
Resolve(w) ==
  /\ At(w, "resolve")
  /\ target' = [target EXCEPT ![w] = link]
  /\ Goto(w, IF Backup THEN "exists" ELSE "perm")
  /\ UNCHANGED <<sightVars, diskVars, source, seen, result>>

(* The backup is for a file that exists, which os.Stat says.  Whatever it  *)
(* fails for, the file counts as new and the write goes on without.        *)
BackupStat(w) ==
  /\ At(w, "exists")
  /\ \/ Goto(w, "open") /\ UNCHANGED ignored
     \/ Goto(w, "perm") /\ Ignore(w, "exists")
  /\ UNCHANGED <<sightVars, diskVars, target, source, perm, result>>

(* copyFile: open the original, truncate the backup, copy. *)
BackupOpen(w) ==
  /\ At(w, "open")
  /\ source' = [source EXCEPT ![w] = dir[target[w]]]
  /\ Goto(w, "truncate")
  /\ UNCHANGED <<sightVars, diskVars, target, seen, result>>

Truncate(w) ==
  /\ At(w, "truncate")
  /\ data' = [data EXCEPT ![Copy(target[w])] = Empty]
  /\ Goto(w, "copy1")
  /\ UNCHANGED <<link, dir, mode, temps, diskVars, target, source, seen, result>>

CopyBlock(w) ==
  /\ \/ At(w, "copy1") /\ PutBlock(Copy(target[w]), 1, data[source[w]][1])
        /\ Goto(w, "copy2")
     \/ At(w, "copy2") /\ PutBlock(Copy(target[w]), 2, data[source[w]][2])
        /\ Goto(w, "perm")
  /\ UNCHANGED <<link, dir, mode, temps, diskVars, target, source, seen, result>>

(* A backup that fails leaves the destination alone. *)
BackupFails(w) == \E c \in {"resolve", "open", "truncate", "copy1", "copy2"} :
                    Fails(w, c, "done")

(* writeAtomicResolved: the permissions of the original if os.Stat tells   *)
(* them and else 0644,                                                     *)
Stat(w) ==
  /\ At(w, "perm")
  /\ \/ perm' = [perm EXCEPT ![w] = mode[dir[target[w]]]] /\ UNCHANGED ignored
     \/ perm' = [perm EXCEPT ![w] = "fallback"] /\ Ignore(w, "perm")
  /\ Goto(w, "create")
  /\ UNCHANGED <<sightVars, diskVars, target, source, result>>

(* a private temporary file in the same directory, *)
BugResolveAgain(w) ==
  /\ At(w, "create")
  /\ target' = [target EXCEPT ![w] = link]
  /\ temps' = temps \cup {w}
  /\ mode' = [mode EXCEPT ![New(w)] = "private"]
  /\ Goto(w, "write1")
  /\ UNCHANGED <<link, dir, data, diskVars, source, seen, result>>
CreateTemp(w) ==
  /\ At(w, "create")
  /\ temps' = temps \cup {w}
  /\ mode' = [mode EXCEPT ![New(w)] = "private"]
  /\ Goto(w, "write1")
  /\ UNCHANGED <<link, dir, data, diskVars, target, source, seen, result>>

BugShortWrite(w) ==
  /\ At(w, "write1") /\ PutBlock(New(w), 1, w) /\ Goto(w, "chmod")
  /\ UNCHANGED <<link, dir, mode, temps, diskVars, target, source, seen, result>>
WriteTemp(w) ==
  /\ \/ At(w, "write1") /\ PutBlock(New(w), 1, w) /\ Goto(w, "write2")
     \/ At(w, "write2") /\ PutBlock(New(w), 2, w) /\ Goto(w, "chmod")
  /\ UNCHANGED <<link, dir, mode, temps, diskVars, target, source, seen, result>>

(* with those permissions, *)
Chmod(w) ==
  /\ At(w, "chmod")
  /\ mode' = [mode EXCEPT ![New(w)] = perm[w]]
  /\ Goto(w, "rename")
  /\ UNCHANGED <<link, dir, data, temps, diskVars, target, source, seen, result>>

(* renamed over the destination. *)
BugErrorAfterRename(w) ==
  /\ At(w, "rename")
  /\ dir' = [dir EXCEPT ![target[w]] = New(w)]
  /\ temps' = temps \ {w}
  /\ Goto(w, "done") /\ Result(w, "error")
  /\ UNCHANGED <<link, data, mode, diskVars, target, source, seen>>
Rename(w) ==
  /\ At(w, "rename")
  /\ dir' = [dir EXCEPT ![target[w]] = New(w)]
  /\ temps' = temps \ {w}
  /\ Goto(w, "done") /\ Result(w, "ok")
  /\ UNCHANGED <<link, data, mode, diskVars, target, source, seen>>

(* On any failure the deferred function removes the temporary file, if it  *)
(* can.                                                                    *)
BugNoRemoval(c) == "done"
AfterFailure(c) == IF c = "create" THEN "done" ELSE "remove"

TempFails(w) == \E c \in {"create", "write1", "write2", "chmod", "rename"} :
                  Fails(w, c, AfterFailure(c))

Remove(w) ==
  /\ At(w, "remove")
  /\ \/ temps' = temps \ {w} /\ UNCHANGED ignored
     \/ UNCHANGED temps /\ Ignore(w, "remove")
  /\ Goto(w, "done") /\ Result(w, "error")
  /\ UNCHANGED <<link, dir, data, mode, diskVars, target, source, perm>>

Write(w) == \/ Resolve(w) \/ BackupStat(w) \/ BackupOpen(w) \/ Truncate(w)
            \/ CopyBlock(w) \/ BackupFails(w) \/ Stat(w) \/ CreateTemp(w)
            \/ WriteTemp(w) \/ Chmod(w) \/ Rename(w) \/ TempFails(w) \/ Remove(w)

-----------------------------------------------------------------------------
(* A process may be killed; the link may be changed under its feet. *)
Kill(w) == /\ up /\ pc[w] \notin {"done", "killed"}
           /\ Goto(w, "killed")
           /\ UNCHANGED <<sightVars, diskVars, target, source, seen, result>>

RetargetLink == /\ up /\ Retarget
                /\ link' \in Dests
                /\ UNCHANGED <<dir, data, mode, temps, diskVars, writerVars>>

(* Names and blocks reach the disk in any order: nothing is synced. *)
Flush == /\ up /\ PowerCut
         /\ \/ /\ \E f \in Dests : diskDir' = [diskDir EXCEPT ![f] = dir[f]]
               /\ UNCHANGED diskData
            \/ /\ \E i \in Inodes : diskData' = [diskData EXCEPT ![i] = data[i]]
               /\ UNCHANGED diskDir
         /\ UNCHANGED <<up, sightVars, writerVars>>

PowerFails == /\ up /\ PowerCut
              /\ up' = FALSE
              /\ dir' = diskDir /\ data' = diskData
              /\ UNCHANGED <<link, mode, temps, diskDir, diskData, writerVars>>

WriteNext == \/ \E w \in Writers : Write(w) \/ Kill(w)
             \/ RetargetLink \/ Flush \/ PowerFails

WriteSpec == WriteInit /\ [][WriteNext]_writeVars

-----------------------------------------------------------------------------
(* AtomicFile, as the system calls implement it. *)
Text(f) == IF \E t \in Contents : data[dir[f]] = Whole(t) THEN data[dir[f]][1]
                                                         ELSE Nothing
Ended(w) == CASE result[w] = "ok"    -> "installed"
              [] result[w] = "error" -> "refused"
              [] OTHER               -> "pending"

Promise == INSTANCE AtomicFile
             WITH Files <- Dests, file <- [f \in Dests |-> Text(f)],
                  text <- [w \in Writers |-> w],
                  outcome <- [w \in Writers |-> Ended(w)]

(* What w has put under the name of f, and whether a call failed unnoticed *)
(* in the writes that f has got.                                           *)
Installed(w, f)  == result[w] = "ok" /\ target[w] = f
Overlooked(c, f) == \E w \in Writers : Installed(w, f) /\ c \in ignored[w]

(* Readers see the old text or the new one as a whole, whoever is killed   *)
(* and whatever fails ("never a mixed/partial file", atomic.go), and never *)
(* with the permissions of a temporary file: they stay the old one's ("so  *)
(* the effective permissions do not change"), unless a write of that file  *)
(* could not find out what they are.                                       *)
KeepsMode(f) == \/ mode[dir[f]] = "original"
                \/ mode[dir[f]] = "fallback" /\ Overlooked("perm", f)
Intact    == \A f \in Dests : Text(f) # Nothing /\ KeepsMode(f)
NeverTorn == up => Intact

(* A file changes in one step, by the rename of a write that then reports  *)
(* success; a write that reports an error never became visible, however    *)
(* many processes write the same file (writeAtomicResolved), until the     *)
(* power is cut.                                                           *)
ImplementsAtomicFile ==
  Promise!AtomicInit /\ [][Promise!AtomicNext \/ ~up']_(Promise!atomicVars)

(* A write that returns leaves no temporary file, unless it has failed and *)
(* the removal fails too; and no name of a file ever leads to what is left *)
(* (writeAtomicResolved).                                                  *)
NoLitter ==
  \A w \in Writers : pc[w] = "done" /\ w \in temps
    => /\ result[w] = "error" /\ "remove" \in ignored[w]
       /\ up => \A f \in Dests : dir[f] # New(w)

(* While one process writes, the original text of every file is whole in   *)
(* the file or in its backup, at every moment, wherever the link leads     *)
(* meanwhile ("a crash during the atomic step leaves the original bytes    *)
(* intact in the backup", atomic.go), unless it was replaced by a write    *)
(* that could not find out that there is a file to back up and reports     *)
(* that it wrote no backup.                                                *)
OnlyOneWrites == \E w \in Writers : \A v \in Writers \ {w} : pc[v] = "resolve"
OriginalSurvives ==
  up /\ Backup /\ OnlyOneWrites
    => \A f \in Dests : \/ Whole(f) \in {data[dir[f]], data[Copy(f)]}
                       \/ Overlooked("exists", f)

(* Before its rename a write endangers nothing, not even by a power cut    *)
(* (writeAtomicResolved).                                                  *)
SparedByPowerCut ==
  ~up => \A f \in Dests : (\A w \in Writers : target[w] = f => result[w] # "ok")
                            => Text(f) = f

(* What a write spares, in short (WriteAtomicWithBackup). *)
OriginalIsSafe == OriginalSurvives /\ SparedByPowerCut

=============================================================================
