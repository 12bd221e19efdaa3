----------------------------- MODULE FileProofs -----------------------------
(***************************************************************************)
(* Proofs about what nesdit does to files.  First the atomic writer        *)
(* (AtomicWrite), for every set of writers and of files: its types, that   *)
(* no reader sees a torn file, that nothing is left behind, and that it    *)
(* implements AtomicFile.  Then the batch that writes with it (Batch), for *)
(* any files and paths, any links between them, every query and every      *)
(* combination of flags, any number of runs and any point at which one is  *)
(* killed: its types, that its writes, its exit status, its summary and    *)
(* its backups are honest, and that the previews foretell what it does.    *)
(* Last the copy that --edit makes of a document (EditSession).            *)
(***************************************************************************)
EXTENDS AtomicWrite, Batch, EditSession, FiniteSetTheorems, TLAPS

(* NeverTorn is not inductive: a name leads to an original, which nobody   *)
(* writes, or to the file of a writer that is done with it.                *)
OriginalsKept == \A f \in Dests : data[Old(f)] = Whole(f) /\ mode[Old(f)] = "original"

Prepared(w) == data[New(w)] = Whole(w) /\ mode[New(w)] = perm[w]

Stage(w) == /\ pc[w] = "write2" => data[New(w)][1] = w
            /\ pc[w] = "chmod"  => data[New(w)] = Whole(w)
            /\ pc[w] = "rename" => Prepared(w)
            /\ result[w] = "ok" => Prepared(w)

NamesLead == \A f \in Dests : \/ dir[f] = Old(f)
                              \/ \E w \in Writers : dir[f] = New(w) /\ result[w] = "ok"

ResultsAreLast == \A w \in Writers : result[w] # "none" <=> pc[w] = "done"

TempsInUse == \A w \in temps :
                \/ pc[w] \in {"write1", "write2", "chmod", "rename", "remove", "killed"}
                \/ pc[w] = "done" /\ result[w] = "error" /\ "remove" \in ignored[w]

AtomicIInv ==
  /\ AtomicTypeOK
  /\ ResultsAreLast
  /\ TempsInUse
  /\ up => OriginalsKept /\ NamesLead /\ \A w \in Writers : Stage(w)

-----------------------------------------------------------------------------
(* Inodes of two kinds, or of two owners, are different. *)
LEMMA InodesDiffer ==
  /\ \A f \in Dests, w \in Writers : Old(f) # New(w) /\ New(w) # Copy(f)
  /\ \A f, g \in Dests : Old(f) # Copy(g)
  /\ \A v, w \in Writers : New(v) = New(w) => v = w
  /\ \A f \in Dests : Old(f) \in Inodes /\ Copy(f) \in Inodes
  /\ \A w \in Writers : New(w) \in Inodes
  BY DEF Old, New, Copy, Inodes

LEMMA WholeIsText ==
  \A t \in Contents : Whole(t) \in [Blocks -> Contents \cup {Nothing}] /\ Whole(t)[1] = t
  BY DEF Whole, Blocks

LEMMA InitIInv == WriteInit => AtomicIInv
<1> SUFFICES ASSUME WriteInit PROVE AtomicIInv
  OBVIOUS
<1> USE DEF WriteInit
<1>1. \A i \in Inodes : data[i] \in [Blocks -> Contents \cup {Nothing}]
  <2> SUFFICES ASSUME NEW i \in Inodes
               PROVE  data[i] \in [Blocks -> Contents \cup {Nothing}]
    OBVIOUS
  <2>1. CASE i[1] = "old"
    <3>1. PICK f \in Dests : i = Old(f)
      BY <2>1 DEF Inodes, Old, New, Copy
    <3>2. i[2] \in Contents
      BY <3>1 DEF Old, Contents
    <3> QED BY <2>1, <3>2, WholeIsText
  <2>2. CASE i[1] # "old"
    BY <2>2 DEF Empty, Whole
  <2> QED BY <2>1, <2>2
<1>2. AtomicTypeOK
  BY <1>1, InodesDiffer DEF AtomicTypeOK, Calls, Modes
<1>3. OriginalsKept
  BY InodesDiffer DEF OriginalsKept, Old
<1>4. NamesLead
  BY DEF NamesLead
<1>5. \A w \in Writers : Stage(w)
  BY DEF Stage
<1>6. ResultsAreLast /\ TempsInUse
  BY DEF ResultsAreLast, TempsInUse
<1> QED BY <1>2, <1>3, <1>4, <1>5, <1>6 DEF AtomicIInv

-----------------------------------------------------------------------------
(* Writer w goes to a call that asks nothing of its file, and nothing else *)
(* that the invariant speaks of changes: a backup, a failure, a kill.      *)
LEMMA MovesKeepIInv ==
  ASSUME AtomicIInv, up, NEW w \in Writers, pc[w] \notin {"done", "killed"},
         NEW c \in Calls \ {"write2", "chmod", "rename"},
         Goto(w, c), c = "remove" \/ c = "killed" \/ w \notin temps,
         c = "done" => Result(w, "error"), c # "done" => UNCHANGED result,
         UNCHANGED <<dir, data, mode, temps, diskVars, link>>,
         target' \in [Writers -> Dests], source' \in [Writers -> Inodes],
         perm' \in [Writers -> Modes], ignored' \in [Writers -> SUBSET Ignorable],
         \A v \in Writers \ {w} : UNCHANGED <<perm[v], ignored[v]>>
  PROVE  AtomicIInv'
<1> USE DEF Goto, Result, diskVars
<1>1. AtomicTypeOK'
  BY DEF AtomicIInv, AtomicTypeOK
<1>2. ResultsAreLast'
  BY DEF AtomicIInv, AtomicTypeOK, ResultsAreLast
<1>3. TempsInUse'
  BY DEF AtomicIInv, AtomicTypeOK, TempsInUse
<1>4. result[w] = "none" /\ \A v \in Writers : result[v] = "ok" <=> result'[v] = "ok"
  BY DEF AtomicIInv, AtomicTypeOK, ResultsAreLast
<1>5. OriginalsKept' /\ NamesLead'
  BY <1>4 DEF AtomicIInv, OriginalsKept, NamesLead
<1>6. ASSUME NEW v \in Writers PROVE Stage(v)'
  BY <1>4 DEF AtomicIInv, AtomicTypeOK, Stage, Prepared
<1> QED BY <1>1, <1>2, <1>3, <1>5, <1>6 DEF AtomicIInv

(* A block of a backup or of the file that w prepares is no block of a     *)
(* file that a name leads to.                                              *)
LEMMA BackupKeepsIInv ==
  ASSUME AtomicIInv, up, NEW w \in Writers,
         pc[w] \in {"truncate", "copy1", "copy2"},
         NEW c \in {"copy1", "copy2", "perm"}, Goto(w, c),
         data' \in [Inodes -> [Blocks -> Contents \cup {Nothing}]],
         \A i \in Inodes : i # Copy(target[w]) => data'[i] = data[i],
         UNCHANGED <<link, dir, mode, temps, diskVars, target, source, seen, result>>
  PROVE  AtomicIInv'
<1> USE DEF Goto, diskVars, seen
<1>1. AtomicTypeOK'
  BY DEF AtomicIInv, AtomicTypeOK, Calls
<1>2. ResultsAreLast' /\ TempsInUse'
  BY DEF AtomicIInv, AtomicTypeOK, ResultsAreLast, TempsInUse
<1>3. target[w] \in Dests
  BY DEF AtomicIInv, AtomicTypeOK
<1>4. /\ \A f \in Dests : data'[Old(f)] = data[Old(f)]
      /\ \A v \in Writers : data'[New(v)] = data[New(v)]
  BY <1>3, InodesDiffer
<1>5. OriginalsKept' /\ NamesLead'
  BY <1>4 DEF AtomicIInv, OriginalsKept, NamesLead
<1>6. ASSUME NEW v \in Writers PROVE Stage(v)'
  BY <1>4 DEF AtomicIInv, AtomicTypeOK, Stage, Prepared
<1> QED BY <1>1, <1>2, <1>5, <1>6 DEF AtomicIInv

LEMMA PutBlockKeepsTypes ==
  ASSUME AtomicTypeOK, NEW i \in Inodes, NEW b \in Blocks,
         NEW t \in Contents \cup {Nothing}, PutBlock(i, b, t)
  PROVE  /\ data' \in [Inodes -> [Blocks -> Contents \cup {Nothing}]]
         /\ \A j \in Inodes : j # i => data'[j] = data[j]
         /\ data'[i] = [data[i] EXCEPT ![b] = t]
<1>1. data \in [Inodes -> [Blocks -> Contents \cup {Nothing}]]
  BY DEF AtomicTypeOK
<1>2. [data[i] EXCEPT ![b] = t] \in [Blocks -> Contents \cup {Nothing}]
  BY <1>1
<1>3. data' = [data EXCEPT ![i] = [data[i] EXCEPT ![b] = t]]
  BY DEF PutBlock
<1> QED BY <1>1, <1>2, <1>3

LEMMA BackupStep ==
  ASSUME AtomicIInv, up, NEW w \in Writers, BackupOpen(w) \/ Truncate(w) \/ CopyBlock(w)
  PROVE  AtomicIInv'
<1>1. CASE BackupOpen(w)
  <2>1. w \notin temps
    BY <1>1 DEF AtomicIInv, TempsInUse, BackupOpen, At
  <2>2. source' \in [Writers -> Inodes]
    BY <1>1 DEF AtomicIInv, AtomicTypeOK, BackupOpen
  <2>3. /\ pc[w] = "open" /\ Goto(w, "truncate")
        /\ UNCHANGED <<link, dir, data, mode, temps, diskVars, target, seen, result>>
    BY <1>1 DEF BackupOpen, At, sightVars
  <2>4. /\ target' \in [Writers -> Dests]
        /\ perm' \in [Writers -> Modes] /\ ignored' \in [Writers -> SUBSET Ignorable]
        /\ UNCHANGED <<perm, ignored>>
    BY <2>3 DEF AtomicIInv, AtomicTypeOK, seen
  <2> QED BY <2>1, <2>2, <2>3, <2>4, MovesKeepIInv DEF Calls
<1>2. CASE Truncate(w)
  <2>1. target[w] \in Dests /\ Copy(target[w]) \in Inodes
    BY InodesDiffer DEF AtomicIInv, AtomicTypeOK
  <2>2. Empty \in [Blocks -> Contents \cup {Nothing}]
    BY DEF Empty, Whole
  <2>3. data' \in [Inodes -> [Blocks -> Contents \cup {Nothing}]]
    BY <1>2, <2>1, <2>2 DEF Truncate, AtomicIInv, AtomicTypeOK
  <2>4. \A i \in Inodes : i # Copy(target[w]) => data'[i] = data[i]
    BY <1>2 DEF Truncate, AtomicIInv, AtomicTypeOK
  <2> QED BY <1>2, <2>3, <2>4, BackupKeepsIInv DEF Truncate, At
<1>3. CASE CopyBlock(w)
  <2>1. target[w] \in Dests /\ Copy(target[w]) \in Inodes /\ source[w] \in Inodes
    BY InodesDiffer DEF AtomicIInv, AtomicTypeOK
  <2>2. \A b \in Blocks : data[source[w]][b] \in Contents \cup {Nothing}
    BY <2>1 DEF AtomicIInv, AtomicTypeOK
  <2>3. PICK b \in Blocks : PutBlock(Copy(target[w]), b, data[source[w]][b])
    BY <1>3 DEF CopyBlock, Blocks
  <2>4. /\ data' \in [Inodes -> [Blocks -> Contents \cup {Nothing}]]
        /\ \A i \in Inodes : i # Copy(target[w]) => data'[i] = data[i]
    BY <2>1, <2>2, <2>3, PutBlockKeepsTypes DEF AtomicIInv
  <2>5. \/ pc[w] = "copy1" /\ Goto(w, "copy2")
        \/ pc[w] = "copy2" /\ Goto(w, "perm")
    BY <1>3 DEF CopyBlock, At
  <2>6. UNCHANGED <<link, dir, mode, temps, diskVars, target, source, seen, result>>
    BY <1>3 DEF CopyBlock
  <2> QED BY <2>4, <2>5, <2>6, BackupKeepsIInv
<1> QED BY <1>1, <1>2, <1>3

LEMMA PassiveStep ==
  ASSUME AtomicIInv, NEW w \in Writers,
         Resolve(w) \/ BackupStat(w) \/ Stat(w) \/ BackupFails(w) \/ TempFails(w) \/ Kill(w)
  PROVE  AtomicIInv'
<1>0. /\ perm \in [Writers -> Modes] /\ ignored \in [Writers -> SUBSET Ignorable]
      /\ mode \in [Inodes -> Modes] /\ dir \in [Dests -> Inodes]
      /\ target \in [Writers -> Dests] /\ source \in [Writers -> Inodes]
  BY DEF AtomicIInv, AtomicTypeOK
<1>1. CASE Resolve(w)
  <2>1. /\ up /\ pc[w] = "resolve"
        /\ Goto(w, "exists") \/ Goto(w, "perm")
        /\ target' = [target EXCEPT ![w] = link]
        /\ UNCHANGED <<link, dir, data, mode, temps, diskVars, source, perm, ignored, result>>
    BY <1>1 DEF Resolve, At, sightVars, seen
  <2>2. w \notin temps
    BY <2>1 DEF AtomicIInv, TempsInUse
  <2>3. target' \in [Writers -> Dests] /\ source' \in [Writers -> Inodes]
    BY <2>1 DEF AtomicIInv, AtomicTypeOK
  <2> QED BY <1>0, <2>1, <2>2, <2>3, MovesKeepIInv DEF Calls
<1>2. ASSUME NEW c \in Calls \ {"remove", "done", "killed"},
             NEW then \in {"done", "remove"}, Fails(w, c, then),
             c \in {"write1", "write2", "chmod", "rename"} => then = "remove"
      PROVE  AtomicIInv'
  <2>1. /\ up /\ pc[w] = c /\ Goto(w, then)
        /\ IF then = "done" THEN Result(w, "error") ELSE UNCHANGED result
        /\ UNCHANGED <<link, dir, data, mode, temps, diskVars, target, source, perm, ignored>>
    BY <1>2 DEF Fails, At, sightVars, seen
  <2>2. then = "remove" \/ w \notin temps
    BY <2>1, <1>2 DEF AtomicIInv, TempsInUse
  <2>3. target' \in [Writers -> Dests] /\ source' \in [Writers -> Inodes]
    BY <2>1 DEF AtomicIInv, AtomicTypeOK
  <2> QED BY <1>0, <2>1, <2>2, <2>3, MovesKeepIInv DEF Calls
<1>3. CASE BackupFails(w)
  BY <1>2, <1>3 DEF BackupFails, Calls
<1>4. CASE TempFails(w)
  BY <1>2, <1>4 DEF TempFails, AfterFailure, Calls
<1>5. CASE Kill(w)
  <2>1. /\ up /\ pc[w] \notin {"done", "killed"} /\ Goto(w, "killed")
        /\ UNCHANGED <<link, dir, data, mode, temps, diskVars, target, source, perm, ignored, result>>
    BY <1>5 DEF Kill, sightVars, seen
  <2>2. target' \in [Writers -> Dests] /\ source' \in [Writers -> Inodes]
    BY <2>1 DEF AtomicIInv, AtomicTypeOK
  <2> QED BY <1>0, <2>1, <2>2, MovesKeepIInv DEF Calls
<1>6. CASE BackupStat(w)
  <2>1. /\ up /\ pc[w] = "exists"
        /\ Goto(w, "open") \/ Goto(w, "perm")
        /\ UNCHANGED <<link, dir, data, mode, temps, diskVars, target, source, perm, result>>
    BY <1>6 DEF BackupStat, At, sightVars
  <2>2. ignored' = ignored \/ ignored' = [ignored EXCEPT ![w] = @ \cup {"exists"}]
    BY <1>6 DEF BackupStat, Ignore
  <2>3. ignored' \in [Writers -> SUBSET Ignorable]
        /\ \A v \in Writers \ {w} : ignored'[v] = ignored[v]
    BY <1>0, <2>2 DEF Ignorable
  <2>4. w \notin temps
    BY <2>1 DEF AtomicIInv, TempsInUse
  <2> QED BY <1>0, <2>1, <2>3, <2>4, MovesKeepIInv DEF Calls
<1>7. CASE Stat(w)
  <2>1. /\ up /\ pc[w] = "perm" /\ Goto(w, "create")
        /\ UNCHANGED <<link, dir, data, mode, temps, diskVars, target, source, result>>
    BY <1>7 DEF Stat, At, sightVars
  <2>2. PICK m : perm' = [perm EXCEPT ![w] = m] /\ m \in {mode[dir[target[w]]], "fallback"}
    BY <1>7 DEF Stat
  <2>3. m \in Modes
    BY <1>0, <2>2 DEF Modes
  <2>4. ignored' = ignored \/ ignored' = [ignored EXCEPT ![w] = @ \cup {"perm"}]
    BY <1>7 DEF Stat, Ignore
  <2>5. /\ perm' \in [Writers -> Modes] /\ ignored' \in [Writers -> SUBSET Ignorable]
        /\ \A v \in Writers \ {w} : UNCHANGED <<perm[v], ignored[v]>>
    BY <1>0, <2>2, <2>3, <2>4 DEF Ignorable
  <2>6. w \notin temps
    BY <2>1 DEF AtomicIInv, TempsInUse
  <2> QED BY <1>0, <2>1, <2>5, <2>6, MovesKeepIInv DEF Calls
<1> QED BY <1>1, <1>3, <1>4, <1>5, <1>6, <1>7

(* The steps on the temporary file. *)
LEMMA TempStep ==
  ASSUME AtomicIInv, NEW w \in Writers,
         CreateTemp(w) \/ WriteTemp(w) \/ Chmod(w) \/ Remove(w)
  PROVE  AtomicIInv'
<1>0. New(w) \in Inodes /\ w \in Contents
  BY InodesDiffer DEF Contents
<1>1. CASE CreateTemp(w)
  <2> USE <1>1 DEF CreateTemp, At, Goto, diskVars, seen, Modes
  <2>1. AtomicTypeOK'
    BY DEF AtomicIInv, AtomicTypeOK, Calls
  <2>2. ResultsAreLast' /\ TempsInUse'
    BY DEF AtomicIInv, AtomicTypeOK, ResultsAreLast, TempsInUse
  <2>3. /\ result[w] # "ok" /\ \A i \in Inodes : i # New(w) => mode'[i] = mode[i]
    BY DEF AtomicIInv, AtomicTypeOK, ResultsAreLast
  <2>4. OriginalsKept' /\ NamesLead'
    BY <2>3, InodesDiffer DEF AtomicIInv, OriginalsKept, NamesLead
  <2>5. ASSUME NEW v \in Writers PROVE Stage(v)'
    BY <2>3, InodesDiffer DEF AtomicIInv, AtomicTypeOK, Stage, Prepared
  <2> QED BY <2>1, <2>2, <2>4, <2>5 DEF AtomicIInv
<1>2. CASE WriteTemp(w)
  <2>1. PICK b \in Blocks :
          /\ up /\ PutBlock(New(w), b, w)
          /\ \/ b = 1 /\ pc[w] = "write1" /\ Goto(w, "write2")
             \/ b = 2 /\ pc[w] = "write2" /\ Goto(w, "chmod")
    BY <1>2 DEF WriteTemp, At, Blocks
  <2>2. UNCHANGED <<link, dir, mode, temps, diskVars, target, source, seen, result>>
    BY <1>2 DEF WriteTemp
  <2>3. /\ data' \in [Inodes -> [Blocks -> Contents \cup {Nothing}]]
        /\ \A j \in Inodes : j # New(w) => data'[j] = data[j]
        /\ data'[New(w)] = [data[New(w)] EXCEPT ![b] = w]
    BY <1>0, <2>1, PutBlockKeepsTypes DEF AtomicIInv
  <2> USE DEF Goto, diskVars, seen
  <2>4. AtomicTypeOK'
    BY <2>1, <2>2, <2>3 DEF AtomicIInv, AtomicTypeOK, Calls
  <2>5. ResultsAreLast' /\ TempsInUse'
    BY <2>1, <2>2 DEF AtomicIInv, AtomicTypeOK, ResultsAreLast, TempsInUse
  <2>6. result[w] # "ok"
    BY <2>1 DEF AtomicIInv, ResultsAreLast
  <2>7. OriginalsKept' /\ NamesLead'
    BY <2>2, <2>3, <2>1, InodesDiffer DEF AtomicIInv, OriginalsKept, NamesLead
  <2>8. ASSUME NEW v \in Writers, v # w PROVE Stage(v)'
    BY <2>1, <2>2, <2>3, <2>8, InodesDiffer DEF AtomicIInv, AtomicTypeOK, Stage, Prepared
  <2>9. data[New(w)] \in [Blocks -> Contents \cup {Nothing}]
    BY <1>0 DEF AtomicIInv, AtomicTypeOK
  <2>10. pc[w] = "write2" => data'[New(w)] = Whole(w)
    BY <2>1, <2>3, <2>9 DEF AtomicIInv, Stage, Whole, Blocks
  <2>11. Stage(w)'
    BY <2>1, <2>2, <2>3, <2>6, <2>9, <2>10 DEF AtomicIInv, AtomicTypeOK, Stage, Prepared, Blocks
  <2> QED BY <2>1, <2>4, <2>5, <2>7, <2>8, <2>11 DEF AtomicIInv
<1>3. CASE Chmod(w)
  <2> USE <1>3 DEF Chmod, At, Goto, diskVars, seen
  <2>1. AtomicTypeOK'
    BY DEF AtomicIInv, AtomicTypeOK, Calls
  <2>2. ResultsAreLast' /\ TempsInUse'
    BY DEF AtomicIInv, AtomicTypeOK, ResultsAreLast, TempsInUse
  <2>3. /\ result[w] # "ok" /\ mode'[New(w)] = perm[w]
        /\ \A i \in Inodes : i # New(w) => mode'[i] = mode[i]
    BY <1>0 DEF AtomicIInv, AtomicTypeOK, ResultsAreLast
  <2>4. OriginalsKept' /\ NamesLead'
    BY <2>3, InodesDiffer DEF AtomicIInv, OriginalsKept, NamesLead
  <2>5. ASSUME NEW v \in Writers PROVE Stage(v)'
    BY <2>3, InodesDiffer DEF AtomicIInv, AtomicTypeOK, Stage, Prepared
  <2> QED BY <2>1, <2>2, <2>4, <2>5 DEF AtomicIInv
<1>4. CASE Remove(w)
  <2> USE <1>4 DEF Remove, Ignore, At, Goto, Result, diskVars
  <2>0. ignored' \in [Writers -> SUBSET Ignorable] /\ temps' \subseteq Writers
    <3>1. /\ ignored \in [Writers -> SUBSET Ignorable] /\ temps \subseteq Writers
          /\ "remove" \in Ignorable
      BY DEF AtomicIInv, AtomicTypeOK, Ignorable
    <3>2. UNCHANGED ignored \/ ignored' = [ignored EXCEPT ![w] = @ \cup {"remove"}]
      OBVIOUS
    <3>3. temps' \subseteq temps
      OBVIOUS
    <3> QED BY <3>1, <3>2, <3>3
  <2>1. AtomicTypeOK'
    BY <2>0 DEF AtomicIInv, AtomicTypeOK, Calls
  <2>2. ResultsAreLast' /\ TempsInUse'
    BY DEF AtomicIInv, AtomicTypeOK, ResultsAreLast, TempsInUse
  <2>3. result[w] # "ok"
    BY DEF AtomicIInv, ResultsAreLast
  <2>4. OriginalsKept' /\ NamesLead'
    BY <2>3 DEF AtomicIInv, AtomicTypeOK, OriginalsKept, NamesLead
  <2>5. ASSUME NEW v \in Writers PROVE Stage(v)'
    BY <2>3 DEF AtomicIInv, AtomicTypeOK, Stage, Prepared
  <2> QED BY <2>1, <2>2, <2>4, <2>5 DEF AtomicIInv
<1> QED BY <1>1, <1>2, <1>3, <1>4

(* The file that a rename installs is whole and has the right mode. *)
LEMMA RenameStep ==
  ASSUME AtomicIInv, NEW w \in Writers, Rename(w)
  PROVE  AtomicIInv'
<1> USE DEF Rename, At, Goto, Result, diskVars, seen
<1>1. target[w] \in Dests /\ New(w) \in Inodes
  BY InodesDiffer DEF AtomicIInv, AtomicTypeOK
<1>2. AtomicTypeOK'
  BY <1>1 DEF AtomicIInv, AtomicTypeOK, Calls
<1>3. ResultsAreLast' /\ TempsInUse'
  BY DEF AtomicIInv, AtomicTypeOK, ResultsAreLast, TempsInUse
<1>4. OriginalsKept'
  BY DEF AtomicIInv, OriginalsKept
<1>5. result'[w] = "ok" /\ \A v \in Writers \ {w} : result'[v] = result[v]
  BY DEF AtomicIInv, AtomicTypeOK
<1>6. NamesLead'
  <2> SUFFICES ASSUME NEW f \in Dests
               PROVE  \/ dir'[f] = Old(f)
                      \/ \E v \in Writers : dir'[f] = New(v) /\ result'[v] = "ok"
    BY DEF NamesLead
  <2>1. CASE f = target[w]
    BY <1>1, <1>5, <2>1 DEF AtomicIInv, AtomicTypeOK
  <2>2. CASE f # target[w]
    <3>1. dir'[f] = dir[f]
      BY <2>2 DEF AtomicIInv, AtomicTypeOK
    <3> QED BY <1>5, <3>1 DEF AtomicIInv, NamesLead
  <2> QED BY <2>1, <2>2
<1>7. ASSUME NEW v \in Writers PROVE Stage(v)'
  BY <1>5 DEF AtomicIInv, AtomicTypeOK, Stage, Prepared
<1> QED BY <1>2, <1>3, <1>4, <1>6, <1>7 DEF AtomicIInv

(* What others do to the link, to the disk and to the power. *)
LEMMA WorldStep ==
  ASSUME AtomicIInv, RetargetLink \/ Flush \/ PowerFails
  PROVE  AtomicIInv'
<1>1. CASE RetargetLink
  <2>1. AtomicTypeOK'
    BY <1>1 DEF RetargetLink, AtomicIInv, AtomicTypeOK, diskVars, writerVars, seen
  <2> QED BY <1>1, <2>1 DEF RetargetLink, AtomicIInv, ResultsAreLast, TempsInUse,
             OriginalsKept, NamesLead, Stage, Prepared, diskVars, writerVars, seen
<1>2. CASE Flush
  <2>1. /\ diskDir' \in [Dests -> Inodes]
        /\ diskData' \in [Inodes -> [Blocks -> Contents \cup {Nothing}]]
    <3>1. CASE UNCHANGED diskData /\ \E f \in Dests : diskDir' = [diskDir EXCEPT ![f] = dir[f]]
      BY <3>1 DEF AtomicIInv, AtomicTypeOK
    <3>2. CASE UNCHANGED diskDir /\ \E i \in Inodes : diskData' = [diskData EXCEPT ![i] = data[i]]
      BY <3>2 DEF AtomicIInv, AtomicTypeOK
    <3> QED BY <1>2, <3>1, <3>2 DEF Flush
  <2>2. AtomicTypeOK'
    BY <1>2, <2>1 DEF Flush, AtomicIInv, AtomicTypeOK, sightVars, writerVars, seen
  <2> QED BY <1>2, <2>2 DEF Flush, AtomicIInv, ResultsAreLast, TempsInUse,
             OriginalsKept, NamesLead, Stage, Prepared, sightVars, writerVars, seen
<1>3. CASE PowerFails
  <2>1. AtomicTypeOK' /\ ~up'
    BY <1>3 DEF PowerFails, AtomicIInv, AtomicTypeOK, writerVars, seen
  <2> QED BY <1>3, <2>1 DEF PowerFails, AtomicIInv, ResultsAreLast, TempsInUse, writerVars, seen
<1> QED BY <1>1, <1>2, <1>3

LEMMA NextIInv == AtomicIInv /\ [WriteNext]_writeVars => AtomicIInv'
<1> SUFFICES ASSUME AtomicIInv, [WriteNext]_writeVars PROVE AtomicIInv'
  OBVIOUS
<1>1. ASSUME NEW w \in Writers, Write(w) PROVE AtomicIInv'
  <2>1. up
    BY <1>1 DEF Write, Resolve, BackupStat, Stat, BackupOpen, Truncate, CopyBlock, BackupFails, CreateTemp,
                WriteTemp, Chmod, Rename, TempFails, Remove, Fails, At
  <2> QED BY <1>1, <2>1, PassiveStep, BackupStep, TempStep, RenameStep DEF Write
<1>2. ASSUME NEW w \in Writers, Kill(w) PROVE AtomicIInv'
  BY <1>2, PassiveStep
<1>3. CASE RetargetLink \/ Flush \/ PowerFails
  BY <1>3, WorldStep
<1>4. CASE UNCHANGED writeVars
  BY <1>4 DEF writeVars, sightVars, diskVars, writerVars, seen, AtomicIInv, AtomicTypeOK,
              ResultsAreLast, TempsInUse, OriginalsKept, NamesLead, Stage, Prepared
<1> QED BY <1>1, <1>2, <1>3, <1>4 DEF WriteNext

(* The inductive invariant of the atomic writer. *)
THEOREM AtomicInvariant == WriteSpec => []AtomicIInv
  BY InitIInv, NextIInv, PTL DEF WriteSpec

(* The atomic writer is well typed: the target is a file, never the inode  *)
(* behind it.                                                              *)
THEOREM AtomicTypes == WriteSpec => []AtomicTypeOK
<1>1. AtomicIInv => AtomicTypeOK
  BY DEF AtomicIInv
<1> QED BY <1>1, AtomicInvariant, PTL

-----------------------------------------------------------------------------
(* What a name shows is what its inode holds, if that is whole. *)
LEMMA WholeIsShown ==
  ASSUME NEW f \in Dests, NEW t \in Contents, data[dir[f]] = Whole(t)
  PROVE  Text(f) = t
  BY WholeIsText DEF Text

LEMMA NothingIsNoText == Nothing \notin Contents
  BY AtomicWriteAssumption DEF Nothing, Contents

(* A write that returns has removed or installed its temporary file,       *)
(* unless it failed and the removal failed too; no name leads to the rest  *)
(* (the deferred os.Remove of writeAtomicResolved).                        *)
THEOREM NothingIsLeft == WriteSpec => []NoLitter
<1>1. ASSUME AtomicIInv, NEW w \in Writers, pc[w] = "done", w \in temps
      PROVE  result[w] = "error" /\ "remove" \in ignored[w]
  BY <1>1 DEF AtomicIInv, TempsInUse
<1>2. ASSUME AtomicIInv, up, NEW w \in Writers, result[w] = "error", NEW f \in Dests
      PROVE  dir[f] # New(w)
  BY <1>2, InodesDiffer DEF AtomicIInv, NamesLead
<1>3. AtomicIInv => NoLitter
  BY <1>1, <1>2 DEF NoLitter
<1> QED BY <1>3, AtomicInvariant, PTL

-----------------------------------------------------------------------------
(* The refinement: only a rename changes what a name shows.                *)
LEMMA QuietStutters ==
  ASSUME UNCHANGED <<dir, result>>,
         \A f \in Dests : data'[dir[f]] = data[dir[f]]
  PROVE  UNCHANGED Promise!atomicVars
<1>1. \A f \in Dests : Text(f)' = Text(f)
  BY DEF Text
<1>2. \A w \in Writers : Ended(w)' = Ended(w)
  BY DEF Ended
<1> QED BY <1>1, <1>2 DEF Promise!atomicVars

LEMMA ErrorRefuses ==
  ASSUME AtomicIInv, NEW w \in Writers, pc[w] \notin {"done", "killed"},
         Result(w, "error"), UNCHANGED <<dir, data>>
  PROVE  Promise!Refuse(w)
<1>1. result \in [Writers -> {"none", "ok", "error"}] /\ result[w] = "none"
  BY DEF AtomicIInv, AtomicTypeOK, ResultsAreLast
<1>2. \A f \in Dests : Text(f)' = Text(f)
  BY DEF Text
<1>3. [v \in Writers |-> Ended(v)'] = [[v \in Writers |-> Ended(v)] EXCEPT ![w] = "refused"]
  BY <1>1 DEF Ended, Result
<1>4. Ended(w) = "pending"
  BY <1>1 DEF Ended
<1> QED BY <1>2, <1>3, <1>4 DEF Promise!Refuse

LEMMA RenameInstalls ==
  ASSUME AtomicIInv, NEW w \in Writers, Rename(w)
  PROVE  Promise!Install(w, target[w])
<1> USE DEF Rename, At, Goto, Result
<1>1. /\ result \in [Writers -> {"none", "ok", "error"}] /\ result[w] = "none"
      /\ target[w] \in Dests
  BY DEF AtomicIInv, AtomicTypeOK, ResultsAreLast
<1>2. data[New(w)] = Whole(w) /\ w \in Contents
  BY DEF AtomicIInv, Stage, Prepared, Contents
<1>3. dir' = [dir EXCEPT ![target[w]] = New(w)] /\ data' = data /\ dir \in [Dests -> Inodes]
  BY DEF AtomicIInv, AtomicTypeOK
<1>4. ASSUME NEW f \in Dests
      PROVE  Text(f)' = IF f = target[w] THEN w ELSE Text(f)
  <2>1. CASE f = target[w]
    <3>1. data'[dir'[f]] = Whole(w)
      BY <1>2, <1>3, <2>1
    <3> QED BY <1>2, <2>1, <3>1, WholeIsText DEF Text
  <2>2. CASE f # target[w]
    BY <1>3, <2>2 DEF Text
  <2> QED BY <2>1, <2>2
<1>5. [f \in Dests |-> Text(f)'] = [[f \in Dests |-> Text(f)] EXCEPT ![target[w]] = w]
  BY <1>1, <1>4
<1>6. [v \in Writers |-> Ended(v)'] = [[v \in Writers |-> Ended(v)] EXCEPT ![w] = "installed"]
  BY <1>1 DEF Ended
<1>7. Ended(w) = "pending"
  BY <1>1 DEF Ended
<1> QED BY <1>1, <1>5, <1>6, <1>7 DEF Promise!Install

LEMMA WritesAreUnseen ==
  ASSUME AtomicIInv, up, NEW w \in Writers,
         Truncate(w) \/ CopyBlock(w) \/ WriteTemp(w)
  PROVE  \A f \in Dests : data'[dir[f]] = data[dir[f]]
<1>1. target[w] \in Dests /\ result[w] # "ok"
  BY DEF AtomicIInv, AtomicTypeOK, ResultsAreLast, Truncate, CopyBlock, WriteTemp, At
<1>2. \A i \in Inodes : i \notin {Copy(target[w]), New(w)} => data'[i] = data[i]
  BY DEF AtomicIInv, AtomicTypeOK, Truncate, CopyBlock, WriteTemp, PutBlock
<1>3. \A f \in Dests : dir[f] \in Inodes /\ dir[f] \notin {Copy(target[w]), New(w)}
  BY <1>1, InodesDiffer DEF AtomicIInv, AtomicTypeOK, NamesLead
<1> QED BY <1>2, <1>3

LEMMA StepRefines ==
  AtomicIInv /\ [WriteNext]_writeVars
    => [Promise!AtomicNext \/ ~up']_(Promise!atomicVars)
<1> SUFFICES ASSUME AtomicIInv, [WriteNext]_writeVars, up'
             PROVE  Promise!AtomicNext \/ UNCHANGED Promise!atomicVars
  OBVIOUS
<1>1. ASSUME NEW w \in Writers, NEW c \in Calls \ {"done", "killed"},
             NEW then \in {"done", "remove"}, Fails(w, c, then)
      PROVE  Promise!AtomicNext \/ UNCHANGED Promise!atomicVars
  <2>1. pc[w] = c /\ UNCHANGED <<dir, data>>
    BY <1>1 DEF Fails, At, sightVars
  <2>2. CASE then = "done"
    BY <1>1, <2>1, <2>2, ErrorRefuses DEF Fails, Promise!AtomicNext
  <2>3. CASE then # "done"
    BY <1>1, <2>1, <2>3, QuietStutters DEF Fails
  <2> QED BY <2>2, <2>3
<1>2. ASSUME NEW w \in Writers, Write(w)
      PROVE  Promise!AtomicNext \/ UNCHANGED Promise!atomicVars
  <2>1. CASE Resolve(w) \/ BackupStat(w) \/ BackupOpen(w) \/ Stat(w) \/ CreateTemp(w) \/ Chmod(w)
    BY <2>1, QuietStutters
       DEF Resolve, BackupStat, BackupOpen, Stat, CreateTemp, Chmod, sightVars
  <2>2. CASE Truncate(w) \/ CopyBlock(w) \/ WriteTemp(w)
    <3>1. up /\ UNCHANGED <<dir, result>>
      BY <2>2 DEF Truncate, CopyBlock, WriteTemp, At
    <3> QED BY <2>2, <3>1, WritesAreUnseen, QuietStutters
  <2>3. CASE BackupFails(w)
    BY <1>1, <2>3 DEF BackupFails, Calls
  <2>4. CASE TempFails(w)
    BY <1>1, <2>4 DEF TempFails, AfterFailure, Calls
  <2>5. CASE Remove(w)
    BY <2>5, ErrorRefuses DEF Remove, At, Promise!AtomicNext
  <2>6. CASE Rename(w)
    <3>1. target[w] \in Dests
      BY DEF AtomicIInv, AtomicTypeOK
    <3> QED BY <2>6, <3>1, RenameInstalls DEF Promise!AtomicNext
  <2> QED BY <1>2, <2>1, <2>2, <2>3, <2>4, <2>5, <2>6 DEF Write
<1>3. CASE \E w \in Writers : Kill(w)
  BY <1>3, QuietStutters DEF Kill, sightVars
<1>4. CASE RetargetLink
  BY <1>4, QuietStutters DEF RetargetLink, writerVars
<1>5. CASE Flush \/ PowerFails
  BY <1>5, QuietStutters DEF Flush, PowerFails, sightVars, writerVars
<1>6. CASE UNCHANGED writeVars
  BY <1>6, QuietStutters DEF writeVars, sightVars, writerVars
<1> QED BY <1>2, <1>3, <1>4, <1>5, <1>6 DEF WriteNext

(* Until the power is cut the system calls implement AtomicFile: a file    *)
(* changes in one step and as a whole, by a write that reports success.    *)
THEOREM WriteRefinesAtomicFile == WriteSpec => ImplementsAtomicFile
<1>1. WriteInit => Promise!AtomicInit
  BY DEF WriteInit, Promise!AtomicInit, Ended
<1>2. AtomicIInv /\ [WriteNext]_writeVars
        => [Promise!AtomicNext \/ ~up']_(Promise!atomicVars)
  BY StepRefines
<1> QED BY <1>1, <1>2, AtomicInvariant, PTL DEF WriteSpec, ImplementsAtomicFile

-----------------------------------------------------------------------------
(* What survives.  A name that is not an original's was installed by a     *)
(* write that was told to, on the disk as well as in sight; nothing is     *)
(* ever written to an original, so it reaches the disk as it is.           *)
LedByTarget(d)  == \A f \in Dests : \/ d[f] = Old(f)
                                    \/ \E w \in Writers : d[f] = New(w) /\ Installed(w, f)

DiskIInv ==
  /\ up => LedByTarget(dir)
  /\ LedByTarget(diskDir)
  /\ \A f \in Dests : diskData[Old(f)] = Whole(f)
  /\ ~up => dir = diskDir /\ data = diskData

(* A writer that gives its file other permissions than the original's has  *)
(* not found them out, or found those of such a write.                     *)
Learned(w) ==
  \/ perm[w] = "original"
  \/ /\ perm[w] = "fallback" /\ pc[w] # "resolve"
     /\ "perm" \in ignored[w] \/ Overlooked("perm", target[w])
PermIInv == \A w \in Writers : Learned(w)

(* While the others wait, a writer copies from the original, and has done  *)
(* so before it begins its temporary file, unless it took the file to be   *)
(* new.                                                                    *)
Alone(w)   == \A v \in Writers \ {w} : pc[v] = "resolve"
Secured(w) ==
  /\ pc[w] \in {"truncate", "copy1", "copy2"} => source[w] = Old(target[w])
  /\ pc[w] = "copy2" => data[Copy(target[w])][1] = target[w]
  /\ pc[w] \in {"perm", "create", "write1", "write2", "chmod", "rename"} \/ result[w] = "ok"
       => \/ "exists" \in ignored[w]
          \/ data[Copy(target[w])] = Whole(target[w])

BackupIInv == up /\ Backup => \A w \in Writers : Alone(w) => Secured(w)

(* What all the steps of a writer have in common. *)
LEMMA WriterActs ==
  ASSUME AtomicIInv, NEW w \in Writers, Write(w) \/ Kill(w)
  PROVE  /\ up /\ up' /\ UNCHANGED <<diskDir, diskData>>
         /\ pc[w] # "done" /\ result[w] = "none" /\ pc'[w] # "resolve"
         /\ \A v \in Writers \ {w} :
              UNCHANGED <<pc[v], target[v], source[v], perm[v], ignored[v], result[v]>>
         /\ ignored[w] \subseteq ignored'[w]
<1>1. up /\ pc[w] \notin {"done", "killed"} /\ UNCHANGED diskVars
  BY DEF Write, Resolve, BackupStat, Stat, BackupOpen, Truncate, CopyBlock, BackupFails, CreateTemp,
         WriteTemp, Chmod, Rename, TempFails, Remove, Fails, At, Kill
<1>2. result[w] = "none"
  BY <1>1 DEF AtomicIInv, ResultsAreLast
<1>3. \E c \in Calls \ {"resolve"} : Goto(w, c)
  BY DEF Write, Resolve, BackupStat, Stat, BackupOpen, Truncate, CopyBlock, BackupFails, CreateTemp,
         WriteTemp, Chmod, Rename, TempFails, Remove, Fails, At, Kill, Calls, AfterFailure
<1>4. \/ UNCHANGED result
      \/ \E r \in {"ok", "error"} : Result(w, r)
  BY DEF Write, Resolve, BackupStat, Stat, BackupOpen, Truncate, CopyBlock, BackupFails, CreateTemp,
         WriteTemp, Chmod, Rename, TempFails, Remove, Fails, Kill
<1>5. /\ UNCHANGED target \/ target' = [target EXCEPT ![w] = link]
      /\ UNCHANGED source \/ source' = [source EXCEPT ![w] = dir[target[w]]]
  BY DEF Write, Resolve, BackupStat, Stat, BackupOpen, Truncate, CopyBlock, BackupFails, CreateTemp,
         WriteTemp, Chmod, Rename, TempFails, Remove, Fails, Kill
<1>6. /\ pc \in [Writers -> Calls] /\ target \in [Writers -> Dests]
      /\ source \in [Writers -> Inodes] /\ result \in [Writers -> {"none", "ok", "error"}]
      /\ perm \in [Writers -> Modes] /\ ignored \in [Writers -> SUBSET Ignorable]
  BY DEF AtomicIInv, AtomicTypeOK
<1>7. pc'[w] # "resolve" /\ \A v \in Writers \ {w} : pc'[v] = pc[v]
  BY <1>3, <1>6 DEF Goto
<1>8. \A v \in Writers \ {w} : UNCHANGED <<target[v], source[v], result[v]>>
  BY <1>4, <1>5, <1>6 DEF Result
<1>9. /\ UNCHANGED perm \/ \E m : perm' = [perm EXCEPT ![w] = m]
      /\ UNCHANGED ignored \/ \E c : Ignore(w, c)
  BY DEF Write, Resolve, BackupStat, Stat, BackupOpen, Truncate, CopyBlock, BackupFails, CreateTemp,
         WriteTemp, Chmod, Rename, TempFails, Remove, Fails, Kill, seen
<1>10. /\ \A v \in Writers \ {w} : UNCHANGED <<perm[v], ignored[v]>>
       /\ ignored[w] \subseteq ignored'[w]
  BY <1>6, <1>9 DEF Ignore
<1> QED BY <1>1, <1>2, <1>7, <1>8, <1>10 DEF diskVars

(* What has been installed stays so, and is what the name leads to. *)
LEMMA InstalledStays ==
  ASSUME AtomicIInv, NEW w \in Writers, Write(w) \/ Kill(w),
         NEW v \in Writers, NEW f \in Dests, Installed(v, f)
  PROVE  Installed(v, f)'
<1>1. v # w
  BY WriterActs DEF Installed
<1> QED BY <1>1, WriterActs DEF Installed

LEMMA OverlookedStays ==
  ASSUME AtomicIInv, NEW w \in Writers, Write(w) \/ Kill(w),
         NEW c, NEW f \in Dests, Overlooked(c, f)
  PROVE  Overlooked(c, f)'
<1>1. PICK v \in Writers : Installed(v, f) /\ c \in ignored[v]
  BY DEF Overlooked
<1>2. Installed(v, f)' /\ v # w
  BY <1>1, InstalledStays, WriterActs DEF Installed
<1>3. c \in ignored'[v]
  BY <1>1, <1>2, WriterActs
<1> QED BY <1>2, <1>3 DEF Overlooked

(* The permissions that os.Stat reads are those of the original, or were   *)
(* put there by a write.                                                   *)
LEMMA WriterLearns ==
  ASSUME AtomicIInv, DiskIInv, PermIInv, NEW w \in Writers, Write(w) \/ Kill(w)
  PROVE  PermIInv'
<1> SUFFICES ASSUME NEW v \in Writers PROVE Learned(v)'
  BY DEF PermIInv
<1>0. /\ target \in [Writers -> Dests] /\ perm \in [Writers -> Modes]
      /\ ignored \in [Writers -> SUBSET Ignorable] /\ up
  BY WriterActs DEF AtomicIInv, AtomicTypeOK
<1>1. \A f \in Dests : Overlooked("perm", f) => Overlooked("perm", f)'
  BY OverlookedStays
<1>2. Learned(v) /\ target[v] \in Dests
  BY <1>0 DEF PermIInv
<1>3. CASE v # w
  <2>1. UNCHANGED <<pc[v], target[v], perm[v], ignored[v]>>
    BY <1>3, WriterActs
  <2> QED BY <1>1, <1>2, <2>1 DEF Learned
<1>4. CASE v = w /\ ~Stat(w)
  <2>1. pc[w] = "resolve" \/ UNCHANGED target
    BY <1>4 DEF Write, Resolve, BackupStat, BackupOpen, Truncate, CopyBlock, BackupFails,
                CreateTemp, WriteTemp, Chmod, Rename, TempFails, Remove, Fails, Kill, At
  <2>2. UNCHANGED perm
    BY <1>4 DEF Write, Resolve, BackupStat, BackupOpen, Truncate, CopyBlock, BackupFails,
                CreateTemp, WriteTemp, Chmod, Rename, TempFails, Remove, Fails, Kill, seen
  <2>3. pc'[w] # "resolve" /\ ignored[w] \subseteq ignored'[w]
    BY WriterActs
  <2> QED BY <1>1, <1>2, <1>4, <2>1, <2>2, <2>3 DEF Learned
<1>5. CASE v = w /\ Stat(w)
  <2>1. UNCHANGED <<target, mode, dir>> /\ pc'[w] # "resolve"
    BY <1>5, WriterActs DEF Stat, sightVars
  <2>2. CASE perm'[w] = "fallback" /\ "perm" \in ignored'[w]
    BY <1>5, <2>1, <2>2 DEF Learned
  <2>3. CASE perm'[w] = mode[dir[target[w]]]
    <3> DEFINE f == target[w]
    <3>1. CASE dir[f] = Old(f)
      <4>1. mode[dir[f]] = "original"
        BY <1>0, <3>1 DEF AtomicIInv, OriginalsKept
      <4> QED BY <1>5, <2>3, <4>1 DEF Learned
    <3>2. CASE dir[f] # Old(f)
      <4>1. PICK u \in Writers : dir[f] = New(u) /\ Installed(u, f)
        BY <1>0, <3>2 DEF DiskIInv, LedByTarget
      <4>2. mode[dir[f]] = perm[u]
        BY <1>0, <4>1 DEF AtomicIInv, Stage, Prepared, Installed
      <4>3. Learned(u) /\ target[u] = f
        BY <4>1 DEF PermIInv, Installed
      <4>4. perm[u] = "original" \/ (perm[u] = "fallback" /\ Overlooked("perm", f))
        BY <4>1, <4>3 DEF Learned, Overlooked
      <4> QED BY <1>0, <1>1, <1>5, <2>1, <2>3, <4>2, <4>4 DEF Learned
    <3> QED BY <3>1, <3>2
  <2> QED BY <1>0, <1>5, <2>2, <2>3 DEF Stat, Ignore, Ignorable
<1> QED BY <1>3, <1>4, <1>5

LEMMA WriterKeepsDisk ==
  ASSUME AtomicIInv, DiskIInv, NEW w \in Writers, Write(w) \/ Kill(w)
  PROVE  DiskIInv'
<1>1. up /\ up' /\ UNCHANGED <<diskDir, diskData>>
  BY WriterActs
<1>2. LedByTarget(diskDir)'
  BY <1>1, InstalledStays DEF DiskIInv, LedByTarget
<1>3. CASE UNCHANGED dir
  <2>1. LedByTarget(dir)'
    BY <1>1, <1>3, InstalledStays DEF DiskIInv, LedByTarget
  <2> QED BY <1>1, <1>2, <2>1 DEF DiskIInv
<1>4. CASE Rename(w)
  <2>1. /\ target[w] \in Dests /\ dir \in [Dests -> Inodes]
        /\ result \in [Writers -> {"none", "ok", "error"}]
    BY DEF AtomicIInv, AtomicTypeOK
  <2>2. dir'[target[w]] = New(w) /\ result'[w] = "ok" /\ target'[w] = target[w]
    BY <1>4, <2>1 DEF Rename, Result
  <2>3. \A f \in Dests \ {target[w]} : dir'[f] = dir[f]
    BY <1>4, <2>1 DEF Rename
  <2>4. LedByTarget(dir)'
    <3> SUFFICES ASSUME NEW f \in Dests
                 PROVE  \/ dir'[f] = Old(f)
                        \/ \E v \in Writers : dir'[f] = New(v) /\ Installed(v, f)'
      BY DEF LedByTarget
    <3>1. CASE f = target[w]
      BY <2>2, <3>1 DEF Installed
    <3>2. CASE f # target[w]
      BY <1>1, <2>3, <3>2, InstalledStays DEF DiskIInv, LedByTarget
    <3> QED BY <3>1, <3>2
  <2> QED BY <1>1, <1>2, <2>4 DEF DiskIInv
<1>5. UNCHANGED dir \/ Rename(w)
  BY DEF Write, Resolve, BackupStat, Stat, BackupOpen, Truncate, CopyBlock, BackupFails, CreateTemp,
         WriteTemp, Chmod, TempFails, Remove, Fails, Kill, sightVars
<1> QED BY <1>3, <1>4, <1>5

(* Nothing but a rename of another writer moves a name from its original.  *)
LEMMA AloneReadsOriginal ==
  ASSUME AtomicIInv, DiskIInv, up, NEW w \in Writers, Alone(w), pc[w] # "done"
  PROVE  dir[target[w]] = Old(target[w])
<1>1. target[w] \in Dests /\ \A v \in Writers : result[v] # "ok"
  BY DEF AtomicIInv, AtomicTypeOK, ResultsAreLast, Alone
<1> QED BY <1>1 DEF DiskIInv, LedByTarget, Installed

(* The copy of a writer that is alone, step by step. *)
LEMMA WriterSecures ==
  ASSUME AtomicIInv, AtomicIInv', DiskIInv, Backup, NEW w \in Writers,
         Alone(w), Secured(w), Write(w) \/ Kill(w)
  PROVE  Secured(w)'
<1> USE DEF At, Goto, Result, seen
<1>0. /\ up /\ result[w] = "none" /\ target[w] \in Dests /\ target[w] \in Contents
      /\ pc \in [Writers -> Calls] /\ target \in [Writers -> Dests]
      /\ source \in [Writers -> Inodes] /\ result \in [Writers -> {"none", "ok", "error"}]
      /\ data \in [Inodes -> [Blocks -> Contents \cup {Nothing}]]
      /\ Copy(target[w]) \in Inodes /\ ignored[w] \subseteq ignored'[w]
      /\ ignored \in [Writers -> SUBSET Ignorable]
  BY WriterActs, InodesDiffer DEF AtomicIInv, AtomicTypeOK, Contents
<1>1. CASE Resolve(w)
  BY <1>0, <1>1 DEF Resolve, Secured
<1>2. CASE BackupOpen(w)
  BY <1>0, <1>2, AloneReadsOriginal DEF BackupOpen, Secured
<1>3. CASE Truncate(w)
  BY <1>0, <1>3 DEF Truncate, Secured
<1>4. CASE CopyBlock(w)
  <2>1. source[w] = Old(target[w]) /\ data[Old(target[w])] = Whole(target[w])
    BY <1>0, <1>4 DEF CopyBlock, Secured, AtomicIInv, OriginalsKept
  <2>2. UNCHANGED <<target, source, seen, result>>
    BY <1>4 DEF CopyBlock
  <2>3. \A b \in Blocks : Whole(target[w])[b] = target[w]
    BY DEF Whole
  <2>4. CASE pc[w] = "copy1"
    <3>1. PutBlock(Copy(target[w]), 1, target[w]) /\ pc'[w] = "copy2"
      BY <1>0, <1>4, <2>1, <2>3, <2>4 DEF CopyBlock, Blocks
    <3>2. data'[Copy(target[w])] = [data[Copy(target[w])] EXCEPT ![1] = target[w]]
      BY <1>0, <3>1, PutBlockKeepsTypes DEF AtomicIInv, Blocks
    <3>3. data'[Copy(target[w])][1] = target[w]
      BY <1>0, <3>2 DEF Blocks
    <3> QED BY <1>0, <2>1, <2>2, <3>1, <3>3 DEF Secured
  <2>5. CASE pc[w] = "copy2"
    <3>1. PutBlock(Copy(target[w]), 2, target[w]) /\ pc'[w] = "perm"
      BY <1>0, <1>4, <2>1, <2>3, <2>5 DEF CopyBlock, Blocks
    <3>2. data'[Copy(target[w])] = [data[Copy(target[w])] EXCEPT ![2] = target[w]]
      BY <1>0, <3>1, PutBlockKeepsTypes DEF AtomicIInv, Blocks
    <3>3. data[Copy(target[w])][1] = target[w] /\ data[Copy(target[w])] \in [Blocks -> Contents \cup {Nothing}]
      BY <1>0, <2>5 DEF Secured
    <3>4. /\ data'[Copy(target[w])] \in [Blocks -> Contents \cup {Nothing}]
          /\ \A b \in Blocks : data'[Copy(target[w])][b] = target[w]
      BY <1>0, <3>2, <3>3 DEF Blocks
    <3>5. data'[Copy(target[w])] = Whole(target[w])
      BY <3>4 DEF Whole
    <3> QED BY <1>0, <2>1, <2>2, <3>1, <3>5 DEF Secured
  <2> QED BY <1>4, <2>4, <2>5 DEF CopyBlock
<1>5. CASE BackupFails(w)
  BY <1>0, <1>5 DEF BackupFails, Fails, Secured
<1>10. CASE BackupStat(w) \/ Stat(w)
  BY <1>0, <1>10 DEF BackupStat, Stat, Ignore, Ignorable, Secured, sightVars
<1>6. CASE CreateTemp(w) \/ Chmod(w) \/ Rename(w)
  BY <1>0, <1>6 DEF CreateTemp, Chmod, Rename, Secured
<1>7. CASE WriteTemp(w)
  <2>1. PICK b \in Blocks : PutBlock(New(w), b, w)
    BY <1>7 DEF WriteTemp, Blocks
  <2>2. AtomicTypeOK /\ New(w) \in Inodes /\ w \in Contents \cup {Nothing}
    BY InodesDiffer DEF AtomicIInv, Contents
  <2>3. \A j \in Inodes : j # New(w) => data'[j] = data[j]
    BY <2>1, <2>2, PutBlockKeepsTypes
  <2>4. data'[Copy(target[w])] = data[Copy(target[w])]
    BY <1>0, <2>3, InodesDiffer
  <2> QED BY <1>0, <1>7, <2>4 DEF WriteTemp, Secured
<1>8. CASE TempFails(w)
  BY <1>0, <1>8 DEF TempFails, Fails, AfterFailure, Secured
<1>9. CASE Remove(w) \/ Kill(w)
  BY <1>0, <1>9 DEF Remove, Kill, Secured
<1> QED BY <1>1, <1>2, <1>3, <1>4, <1>5, <1>6, <1>7, <1>8, <1>9, <1>10 DEF Write

(* A second writer that leaves "resolve" does so for good. *)
LEMMA WriterKeepsBackup ==
  ASSUME AtomicIInv, AtomicIInv', DiskIInv, BackupIInv,
         NEW w \in Writers, Write(w) \/ Kill(w)
  PROVE  BackupIInv'
<1> SUFFICES ASSUME Backup, NEW v \in Writers, Alone(v)' PROVE Secured(v)'
  BY DEF BackupIInv
<1>1. v = w
  BY WriterActs DEF Alone
<1>2. Alone(w)
  BY <1>1, WriterActs DEF Alone
<1>3. Secured(w)
  BY <1>2, WriterActs DEF BackupIInv
<1> QED BY <1>1, <1>2, <1>3, WriterSecures

LEMMA WorldKeepsThem ==
  ASSUME AtomicIInv, DiskIInv, BackupIInv, PermIInv,
         RetargetLink \/ Flush \/ PowerFails \/ UNCHANGED writeVars
  PROVE  DiskIInv' /\ BackupIInv' /\ PermIInv'
<1>1. UNCHANGED writerVars
  BY DEF RetargetLink, Flush, PowerFails, writeVars
<1>2. \A w \in Writers, f \in Dests : Installed(w, f)' <=> Installed(w, f)
  BY <1>1 DEF Installed, writerVars
<1>6. PermIInv'
  BY <1>1 DEF PermIInv, Learned, Overlooked, Installed, writerVars, seen
<1>3. CASE RetargetLink \/ UNCHANGED writeVars
  <2>1. UNCHANGED <<dir, data, diskDir, diskData, up>>
    BY <1>3 DEF RetargetLink, diskVars, sightVars, writeVars
  <2>2. DiskIInv'
    BY <1>2, <2>1 DEF DiskIInv, LedByTarget
  <2>3. BackupIInv'
    BY <1>1, <2>1 DEF BackupIInv, Alone, Secured, writerVars, seen
  <2> QED BY <1>6, <2>2, <2>3
<1>4. CASE Flush
  <2>1. up /\ UNCHANGED <<dir, data, up>>
    BY <1>4 DEF Flush, sightVars
  <2>2. diskDir \in [Dests -> Inodes] /\ \A f \in Dests : diskDir'[f] \in {diskDir[f], dir[f]}
    BY <1>4 DEF Flush, AtomicIInv, AtomicTypeOK
  <2>3. \A f \in Dests : diskData'[Old(f)] \in {diskData[Old(f)], data[Old(f)]}
    BY <1>4, InodesDiffer DEF Flush, AtomicIInv, AtomicTypeOK
  <2>4. \A f \in Dests : diskData'[Old(f)] = Whole(f)
    BY <2>1, <2>3 DEF DiskIInv, AtomicIInv, OriginalsKept
  <2>5. LedByTarget(dir)' /\ LedByTarget(diskDir)'
    BY <1>2, <2>1, <2>2 DEF DiskIInv, LedByTarget
  <2>6. BackupIInv'
    BY <1>1, <2>1 DEF BackupIInv, Alone, Secured, writerVars, seen
  <2> QED BY <1>6, <2>1, <2>4, <2>5, <2>6 DEF DiskIInv
<1>5. CASE PowerFails
  <2>1. ~up' /\ dir' = diskDir /\ data' = diskData /\ UNCHANGED <<diskDir, diskData>>
    BY <1>5 DEF PowerFails
  <2>2. LedByTarget(diskDir)'
    BY <1>2, <2>1 DEF DiskIInv, LedByTarget
  <2> QED BY <1>6, <2>1, <2>2 DEF DiskIInv, BackupIInv
<1> QED BY <1>3, <1>4, <1>5

LEMMA InitSurvives == WriteInit => DiskIInv /\ BackupIInv /\ PermIInv
<1> SUFFICES ASSUME WriteInit PROVE DiskIInv /\ BackupIInv /\ PermIInv
  OBVIOUS
<1>1. \A f \in Dests : data[Old(f)] = Whole(f) /\ dir[f] = Old(f)
  BY InodesDiffer DEF WriteInit, Old
<1>2. LedByTarget(dir) /\ diskDir = dir /\ diskData = data
  BY <1>1 DEF WriteInit, LedByTarget
<1>3. DiskIInv
  BY <1>1, <1>2 DEF DiskIInv, LedByTarget
<1>4. \A w \in Writers : Secured(w)
  BY DEF WriteInit, Secured
<1>5. PermIInv
  BY DEF WriteInit, PermIInv, Learned
<1> QED BY <1>3, <1>4, <1>5 DEF BackupIInv

LEMMA NextSurvives ==
  AtomicIInv /\ AtomicIInv' /\ DiskIInv /\ BackupIInv /\ PermIInv /\ [WriteNext]_writeVars
    => DiskIInv' /\ BackupIInv' /\ PermIInv'
  BY WriterKeepsDisk, WriterKeepsBackup, WriterLearns, WorldKeepsThem DEF WriteNext

(* What is on the disk and in the backups, after every step: a name leads  *)
(* to its original or to what a write that succeeded put there, and the    *)
(* write of a lone process has its backup (WriteAtomicWithBackup) unless   *)
(* it took the file to be new; permissions that are not the original's     *)
(* come from a write that could not find them out (writeAtomicResolved).   *)
THEOREM SurvivalInvariant == WriteSpec => [](DiskIInv /\ BackupIInv /\ PermIInv)
  BY InitSurvives, NextSurvives, AtomicInvariant, PTL DEF WriteSpec

LEMMA NamesAreIntact == AtomicIInv /\ DiskIInv /\ PermIInv => NeverTorn
<1> SUFFICES ASSUME AtomicIInv, DiskIInv, PermIInv, up, NEW f \in Dests
             PROVE  Text(f) # Nothing /\ KeepsMode(f)
  BY DEF NeverTorn, Intact
<1>1. CASE dir[f] = Old(f)
  <2>1. f \in Contents /\ data[dir[f]] = Whole(f) /\ mode[dir[f]] = "original"
    BY <1>1 DEF AtomicIInv, OriginalsKept, Contents
  <2> QED BY <2>1, WholeIsShown, NothingIsNoText DEF KeepsMode
<1>2. CASE dir[f] # Old(f)
  <2>1. PICK w \in Writers : dir[f] = New(w) /\ Installed(w, f)
    BY <1>2 DEF DiskIInv, LedByTarget
  <2>2. w \in Contents /\ data[dir[f]] = Whole(w) /\ mode[dir[f]] = perm[w]
    BY <2>1 DEF AtomicIInv, Stage, Prepared, Installed, Contents
  <2>3. KeepsMode(f)
    BY <2>1, <2>2 DEF PermIInv, Learned, Overlooked, Installed, KeepsMode
  <2> QED BY <2>2, <2>3, WholeIsShown, NothingIsNoText
<1> QED BY <1>1, <1>2

(* No reader ever sees a partial file, or one with the permissions of a    *)
(* temporary file; and they are the original's, unless a write of the file *)
(* could not find those out (writeAtomicResolved).                         *)
THEOREM FilesAreNeverTorn == WriteSpec => []NeverTorn
  BY AtomicInvariant, SurvivalInvariant, NamesAreIntact, PTL

(* While one process writes, an original is in its file or in its backup,  *)
(* or was replaced by a write that took the file to be new.                *)
LEMMA OriginalsSurvive == AtomicIInv /\ DiskIInv /\ BackupIInv => OriginalSurvives
<1> SUFFICES ASSUME AtomicIInv, DiskIInv, BackupIInv, up, Backup,
                    NEW w \in Writers, \A v \in Writers \ {w} : pc[v] = "resolve",
                    NEW f \in Dests
             PROVE  \/ Whole(f) \in {data[dir[f]], data[Copy(f)]}
                    \/ Overlooked("exists", f)
  BY DEF OriginalSurvives, OnlyOneWrites
<1>1. CASE dir[f] = Old(f)
  BY <1>1 DEF AtomicIInv, OriginalsKept
<1>2. CASE dir[f] # Old(f)
  <2>1. PICK v \in Writers : Installed(v, f)
    BY <1>2 DEF DiskIInv, LedByTarget
  <2>2. v = w
    BY <2>1 DEF Installed, AtomicIInv, ResultsAreLast
  <2>3. "exists" \in ignored[w] \/ data[Copy(f)] = Whole(f)
    BY <2>1, <2>2 DEF BackupIInv, Alone, Secured, Installed
  <2> QED BY <2>1, <2>2, <2>3 DEF Overlooked
<1> QED BY <1>1, <1>2

(* After a power cut a file that no write reported to have replaced shows  *)
(* its original text.                                                      *)
LEMMA DiskIsSpared == DiskIInv => SparedByPowerCut
<1> SUFFICES ASSUME DiskIInv, ~up, NEW f \in Dests,
                    \A w \in Writers : target[w] = f => result[w] # "ok"
             PROVE  Text(f) = f
  BY DEF SparedByPowerCut
<1>1. dir[f] = Old(f) /\ data[Old(f)] = Whole(f)
  BY DEF DiskIInv, LedByTarget, Installed
<1> QED BY <1>1, WholeIsShown DEF Contents

(* What a write spares: the original is whole somewhere as long as one     *)
(* process writes, unless the write reports that it wrote no backup (the   *)
(* os.Stat of WriteAtomicWithBackup failed), and the power cut takes       *)
(* nothing that was not renamed.                                           *)
THEOREM OriginalsAreSafe == WriteSpec => []OriginalIsSafe
  BY AtomicInvariant, SurvivalInvariant, OriginalsSurvive, DiskIsSpared, PTL
     DEF OriginalIsSafe

-----------------------------------------------------------------------------
(* The batch. *)

(* The four values of the command are those of one record each. *)
Results == [status : {"none", "errored", "skipped", "ready"},
            base   : Texts \cup {NoBytes}, new : Texts \cup {NoBytes}]
Lead(i) == Link[paths[i]]

Types ==
  /\ BatchTypeOK
  /\ results \in [Positions -> Results]
  /\ start \in [Files -> Texts] /\ original \in [Files -> Texts]
  /\ ~opts["cross"]

(* DeduplicatePaths keeps one path to each file that the arguments name.   *)
Collected ==
  /\ \A i, j \in DOMAIN paths : Lead(i) = Lead(j) => i = j
  /\ phase = "start" => Len(paths) < n
  /\ phase # "crashed" =>
       {Lead(i) : i \in DOMAIN paths}
         = {Link[args[k]] : k \in 1..(IF phase = "start" THEN n - 1 ELSE Len(args))}

(* What the first pass has answered, it has answered of the text the file  *)
(* had when the run began.                                                 *)
Answered(i) == results[i] \in {Failed, ProcessOneFile(start[Lead(i)], query, opts)}
Completed   == phase = "done" /\ (exit = 0 \/ (summary # NoSummary /\ ~Aborts))
Passes ==
  /\ phase \in {"start", "process"} =>
       /\ file = start /\ step = "decide"
       /\ \A i \in Positions : outcome[i] = "pending"
  /\ \A i \in Positions \ DOMAIN paths : results[i] = Unread
  /\ phase = "start" => \A i \in Positions : results[i] = Unread
  /\ phase = "process" => \A i \in DOMAIN paths : i < n => Answered(i)
  /\ phase = "write" \/ Completed => \A i \in DOMAIN paths : Answered(i)
  /\ phase = "write" => ~Aborts

(* The files are written in the order of their paths, and each of them     *)
(* holds either the text of its result or the one it had.                  *)
Landing ==
  /\ \A i \in DOMAIN paths :
       /\ file[Lead(i)] = IF outcome[i] = "installed" THEN results[i].new ELSE start[Lead(i)]
       /\ outcome[i] # "pending" => results[i].status = "ready"
       /\ phase = "write" => (outcome[i] # "pending" <=> i < n /\ results[i].status = "ready")
       /\ Completed => (outcome[i] # "pending" <=> results[i].status = "ready")
  /\ phase = "write" /\ step # "decide" =>
       n \in DOMAIN paths /\ results[n].status = "ready"

(* The summary and the exit status, once there are any. *)
Told ==
  /\ phase # "done" => summary = NoSummary
  /\ Completed => /\ exit = IF \E i \in DOMAIN paths : Errored(i) THEN 1 ELSE 0
                  /\ summary # NoSummary => summary = Summary

(* With --backup and a query that may be repeated, a file holds what it    *)
(* held at first or a value that the query leaves as it is; in the second  *)
(* case nothing writes to its backup any more.  Only a file that is bare   *)
(* is written without one.                                                 *)
Settled(f) == file[f].value \in Values /\ query[file[f].value] = file[f].value
Lineage ==
  /\ phase = "write" => /\ step = "copying" => NeedsBackup
                        /\ step = "install" /\ NeedsBackup =>
                             Dest \in bare \/ backup[Dest] = file[Dest]
  /\ opts["backup"] /\ Idempotent(query) =>
       \A f \in Files : /\ file[f] = original[f] \/ Settled(f)
                        /\ file[f].value # original[f].value =>
                             f \in bare \/ backup[f] = original[f]

BatchIInv == Types /\ Collected /\ Passes /\ StrictIsClean /\ Landing /\ Told /\ Lineage

-----------------------------------------------------------------------------
(* One document: what its texts are, and what processOneFile makes of one. *)
LEMMA TextsAreDecoded ==
  /\ \A t \in Texts : t.value \in Values \cup {None}
  /\ \A v \in Values : Bytes(v, "compact") \in Texts /\ Bytes(v, "pretty") \in Texts
  /\ NoBytes \notin Texts /\ Torn \notin Texts
  /\ \A v, w, f, g : Bytes(v, f) = Bytes(w, g) <=> v = w /\ f = g
  /\ \A v, f : Bytes(v, f).value = v /\ Bytes(v, f).form = f
<1>1. \A v, w, f, g : Bytes(v, f) = Bytes(w, g) <=> v = w /\ f = g
  BY DEF Bytes
<1>2. \A v, f : Bytes(v, f).value = v /\ Bytes(v, f).form = f
  BY DEF Bytes
<1>3. \A v \in Values : Bytes(v, "compact") \in Texts /\ Bytes(v, "pretty") \in Texts
  BY DEF Bytes, Texts
<1>4. \A t \in Texts : t.value \in Values \cup {None} /\ t.form \in {"compact", "pretty", "loose"}
  BY DEF Bytes, Texts, Garbage
<1>5. NoBytes \notin Texts /\ Torn \notin Texts
  BY <1>2, <1>4 DEF NoBytes, Torn
<1> QED BY <1>1, <1>2, <1>3, <1>4, <1>5

(* What CheckNoMissingPaths leaves of a query's answer is that answer. *)
LEMMA AnswersAreValues ==
  ASSUME NEW q \in Queries, NEW o \in FlagSets, NEW v \in Values \cup {None}
  PROVE  /\ RunQuery(q, v, o) \in Values \cup {None}
         /\ RunQuery(q, v, o) # None => v \in Values /\ RunQuery(q, v, o) = q[v]
         /\ v \in Values /\ q[v] = v => RunQuery(q, v, o) = v
<1>1. None \notin Values
  BY DocumentAssumption
<1>2. v \in Values => q[v] \in Values \cup {None}
  BY DEF Queries
<1> QED BY <1>1, <1>2 DEF RunQuery, Creates

LEMMA EncodingsAreTexts ==
  ASSUME NEW v \in Values \cup {None}, NEW o \in FlagSets
  PROVE  LET F == Form(o["pretty"])
         IN /\ F \in {"compact", "pretty"}
            /\ Encode(v, F) = NoBytes \/ (Encode(v, F) = Bytes(v, F) /\ Encode(v, F) \in Texts)
            /\ Encode(v, F) = NoBytes <=> v \in {None} \cup Unencodable
            /\ Encode(v, "compact") = NoBytes <=> v \in {None} \cup Unencodable
            /\ v \notin {None} \cup Unencodable =>
                 Encode(v, F) = Bytes(v, F) /\ Encode(v, "compact") = Bytes(v, "compact")
<1> DEFINE F == Form(o["pretty"])
<1>1. F \in {"compact", "pretty"}
  BY DEF Form
<1>2. v # None => \A f \in {"compact", "pretty"} : Bytes(v, f) \in Texts /\ Bytes(v, f) # NoBytes
  BY TextsAreDecoded
<1>3. \A f \in {"compact", "pretty"} :
        Encode(v, f) = IF v \in {None} \cup Unencodable THEN NoBytes ELSE Bytes(v, f)
  BY DEF Encode
<1> QED BY <1>1, <1>2, <1>3

(* processOneFile *)
LEMMA ProcessingAnswers ==
  ASSUME NEW t \in Texts, NEW q \in Queries, NEW o \in FlagSets
  PROVE  LET r == ProcessOneFile(t, q, o)
             F == Form(o["pretty"])
         IN /\ r \in Results /\ r.status # "none"
            /\ r.status = "ready" <=> r.new \in Texts
            /\ r.status = "skipped" => o["where"]
            /\ r.status = "ready" =>
                 /\ t.value \in Values /\ q[t.value] \in Values \ Unencodable
                 /\ RunQuery(q, t.value, o) = q[t.value]
                 /\ r.new = Bytes(q[t.value], F)
                 /\ Unchanged(r) <=> q[t.value] = t.value
<1> DEFINE v == t.value
           w == RunQuery(q, v, o)
           F == Form(o["pretty"])
           base == Encode(v, F)
           new  == Encode(w, F)
           r == ProcessOneFile(t, q, o)
<1>1. v \in Values \cup {None}
  BY TextsAreDecoded
<1>2. /\ w \in Values \cup {None}
      /\ w # None => v \in Values /\ w = q[v]
  BY <1>1, AnswersAreValues
<1>3. /\ base = NoBytes \/ (base = Bytes(v, F) /\ base \in Texts)
      /\ base = NoBytes <=> v \in {None} \cup Unencodable
  BY <1>1, EncodingsAreTexts
<1>4. /\ new = NoBytes \/ (new = Bytes(w, F) /\ new \in Texts)
      /\ new = NoBytes <=> w \in {None} \cup Unencodable
  BY <1>2, EncodingsAreTexts
<1>5. v # None => ApplyWhere(v, o) \in {"match", "skip", "fails"}
                  /\ (ApplyWhere(v, o) # "match" => o["where"])
  BY <1>1, DocumentAssumption DEF ApplyWhere
<1>6. \/ r = Outcome("errored", NoBytes, NoBytes)
      \/ r = Outcome("errored", base, NoBytes)
      \/ r = Outcome("skipped", base, NoBytes) /\ o["where"]
      \/ r = Outcome("errored", base, new) /\ new = NoBytes
      \/ r = Outcome("ready", base, new) /\ new # NoBytes
  BY <1>5 DEF ProcessOneFile, Decode
<1>7. NoBytes \notin Texts
  BY TextsAreDecoded
<1>8. /\ r \in Results /\ r.status # "none"
      /\ r.status = "ready" <=> r.new \in Texts
      /\ r.status = "skipped" => o["where"]
  BY <1>3, <1>4, <1>6, <1>7 DEF Outcome, Results
<1>9. r.status = "ready" => r.base = base /\ r.new = new /\ new # NoBytes
  BY <1>6 DEF Outcome
<1>10. ASSUME r.status = "ready"
       PROVE  /\ v \in Values /\ w = q[v] /\ w \in Values \ Unencodable /\ r.new = Bytes(w, F)
              /\ Unchanged(r) <=> w = v
  <2>1. v \in Values /\ w = q[v] /\ w \in Values \ Unencodable /\ r.new = Bytes(w, F)
    BY <1>2, <1>4, <1>9, <1>10
  <2>2. Unchanged(r) <=> base # NoBytes /\ base = new
    BY <1>9, <1>10 DEF Unchanged
  <2>3. base = new => v = w
    BY <1>3, <1>9, <1>10, <2>1, TextsAreDecoded
  <2>4. v = w => base = new
    OBVIOUS
  <2> QED BY <1>9, <1>10, <2>1, <2>2, <2>3, <2>4
<1> QED BY <1>8, <1>10

-----------------------------------------------------------------------------
(* The positions of the loops, and what they lead to. *)
LEMMA PositionsLead ==
  ASSUME Types
  PROVE  /\ args \in Seq(Paths) /\ Len(args) \in Nat \ {0} /\ DOMAIN args = 1..Len(args)
         /\ paths \in Seq(Paths) /\ Len(paths) \in Nat /\ DOMAIN paths = 1..Len(paths)
         /\ DOMAIN args \subseteq Positions /\ DOMAIN paths \subseteq Positions
         /\ \A i \in DOMAIN paths : paths[i] \in Paths /\ Lead(i) \in Files
         /\ \A k \in DOMAIN args : args[k] \in Paths /\ Link[args[k]] \in Files
         /\ Link \in [Paths -> Files] /\ opts \in FlagSets /\ query \in Queries
<1>1. /\ args \in Batches /\ args \in Seq(Paths) /\ args # <<>>
      /\ paths \in Seq(Paths) /\ Len(paths) <= Len(args)
      /\ Link \in [Paths -> Files] /\ opts \in FlagSets /\ query \in Queries
  BY BatchAssumption DEF Types, BatchTypeOK
<1>2. /\ Len(args) \in Nat \ {0} /\ DOMAIN args = 1..Len(args)
      /\ Len(paths) \in Nat /\ DOMAIN paths = 1..Len(paths)
  BY <1>1
<1>3. DOMAIN args \subseteq Positions
  BY <1>1 DEF Positions
<1>4. DOMAIN paths \subseteq DOMAIN args
  BY <1>1, <1>2
<1>5. \A i \in DOMAIN paths : paths[i] \in Paths
  BY <1>1, <1>2
<1>6. \A k \in DOMAIN args : args[k] \in Paths
  BY <1>1, <1>2
<1> QED BY <1>1, <1>2, <1>3, <1>4, <1>5, <1>6 DEF Lead

(* A step that leaves the files as they are, and is not in the write phase *)
(* afterwards, keeps the lineage of the backups.                           *)
LEMMA LineageStays ==
  ASSUME Lineage, UNCHANGED <<asked, disk, original>>, phase' # "write"
  PROVE  Lineage'
  BY DEF Lineage, Settled, asked, disk

(* Once they are collected, the paths stay as they are. *)
LEMMA CollectedStays ==
  ASSUME Collected, UNCHANGED <<paths, args>>, phase' # "start", phase \notin {"start", "crashed"}
  PROVE  Collected'
<1> DEFINE FilesOf(s) == {Link[s[i]] : i \in DOMAIN s}
<1> DEFINE FilesUpTo(s, m) == {Link[s[k]] : k \in 1..m}
<1>1. FilesOf(paths) = FilesUpTo(args, Len(args))
  BY DEF Collected, Lead
<1>2. \A i, j \in DOMAIN paths : Link[paths[i]] = Link[paths[j]] => i = j
  BY DEF Collected, Lead
<1>3. FilesOf(paths') = FilesUpTo(args', Len(args'))
  <2> HIDE DEF FilesOf, FilesUpTo
  <2> QED BY <1>1
<1> QED BY <1>2, <1>3 DEF Collected, Lead

(* What the first pass answers of a text has the types of a result. *)
LEMMA AnswersAreResults ==
  ASSUME Types, NEW i \in DOMAIN paths,
         NEW r \in {Failed, ProcessOneFile(start[Lead(i)], query, opts)}
  PROVE  /\ r \in Results /\ r.status \in {"errored", "skipped", "ready"}
         /\ r.status = "ready" <=> r.new \in Texts
         /\ r.status # "errored" => r = ProcessOneFile(start[Lead(i)], query, opts)
<1>1. start[Lead(i)] \in Texts /\ opts \in FlagSets /\ query \in Queries
  BY PositionsLead DEF Types
<1>2. Failed \in Results /\ Failed.status = "errored" /\ Failed.new \notin Texts
  BY TextsAreDecoded DEF Failed, Outcome, Results
<1>3. CASE r = Failed
  BY <1>2, <1>3
<1>4. CASE r = ProcessOneFile(start[Lead(i)], query, opts)
  <2>1. r \in Results /\ r.status # "none" /\ (r.status = "ready" <=> r.new \in Texts)
    BY <1>1, <1>4, ProcessingAnswers
  <2> QED BY <1>4, <2>1 DEF Results
<1> QED BY <1>3, <1>4

-----------------------------------------------------------------------------
LEMMA CollectKeepsIInv == ASSUME BatchIInv, Collect PROVE BatchIInv'
<1> USE DEF BatchIInv
<1>1. /\ phase = "start" /\ phase' = "start" /\ n <= Len(args) /\ n' = n + 1
      /\ UNCHANGED <<asked, disk, step, results, outcome, summary, exit, past>>
  BY DEF Collect, Stay
<1>2. /\ args \in Seq(Paths) /\ Len(args) \in Nat /\ DOMAIN args = 1..Len(args)
      /\ paths \in Seq(Paths) /\ Len(paths) \in Nat /\ DOMAIN paths = 1..Len(paths)
      /\ n \in 1..Len(args) /\ args[n] \in Paths /\ Len(paths) < n
  BY <1>1, PositionsLead DEF Types, BatchTypeOK, Collected
<1>3. CASE Seen(args[n])
  <2>1. paths' = paths
    BY <1>3 DEF Collect
  <2>2. Types'
    BY <1>1, <1>2, <2>1 DEF Types, BatchTypeOK, asked, disk, past
  <2>3. Collected'
    <3>1. Link[args[n]] \in {Lead(i) : i \in DOMAIN paths}
      BY <1>3 DEF Seen, Lead
    <3>2. {Link[args[k]] : k \in 1..n} = {Link[args[k]] : k \in 1..(n-1)} \cup {Link[args[n]]}
      BY <1>2
    <3>4. {Link[paths[i]] : i \in DOMAIN paths} = {Link[args[k]] : k \in 1..(n-1)}
      BY <1>1 DEF Collected, Lead
    <3>5. args' = args /\ n' - 1 = n
      BY <1>1, <1>2 DEF asked
    <3>6. Len(paths') < n'
      BY <1>1, <1>2, <2>1
    <3>7. \A i, j \in DOMAIN paths' : Link[paths'[i]] = Link[paths'[j]] => i = j
      BY <2>1 DEF Collected, Lead
    <3>8. {Link[paths'[i]] : i \in DOMAIN paths'} = {Link[args'[k]] : k \in 1..(n' - 1)}
      BY <2>1, <3>1, <3>2, <3>4, <3>5 DEF Lead
    <3> QED BY <1>1, <3>6, <3>7, <3>8 DEF Collected, Lead
  <2>4. Passes' /\ StrictIsClean'
    BY <1>1, <2>1 DEF Passes, StrictIsClean, asked, disk, past, Completed
  <2>5. Landing' /\ Told'
    BY <1>1, <2>1 DEF Landing, Told, Lead, Completed, disk, past
  <2> QED BY <1>1, <2>2, <2>3, <2>4, <2>5, LineageStays DEF past
<1>4. CASE ~Seen(args[n])
  <2>1. paths' = Append(paths, args[n])
    BY <1>4 DEF Collect
  <2>2. /\ paths' \in Seq(Paths) /\ Len(paths') = Len(paths) + 1
        /\ DOMAIN paths' = 1..(Len(paths) + 1)
        /\ \A i \in 1..Len(paths) : paths'[i] = paths[i]
        /\ paths'[Len(paths) + 1] = args[n]
    BY <1>2, <2>1
  <2>3. Types'
    BY <1>1, <1>2, <2>2 DEF Types, BatchTypeOK, asked, disk, past
  <2>5. \A i \in 1..Len(paths) : Link[paths[i]] # Link[args[n]]
    BY <1>2, <1>4 DEF Seen
  <2>6. Collected'
    <3>1. {Link[paths'[i]] : i \in DOMAIN paths'}
            = {Link[paths[i]] : i \in DOMAIN paths} \cup {Link[args[n]]}
      BY <1>2, <2>2
    <3>2. {Link[args[k]] : k \in 1..n} = {Link[args[k]] : k \in 1..(n-1)} \cup {Link[args[n]]}
      BY <1>2
    <3>3. {Link[paths[i]] : i \in DOMAIN paths} = {Link[args[k]] : k \in 1..(n-1)}
      BY <1>1 DEF Collected, Lead
    <3>4. args' = args /\ n' - 1 = n
      BY <1>1, <1>2 DEF asked
    <3>5. Len(paths') < n'
      BY <1>1, <1>2, <2>2
    <3>6. \A i, j \in 1..Len(paths) : Link[paths[i]] = Link[paths[j]] => i = j
      BY <1>2 DEF Collected, Lead
    <3>7. \A i, j \in DOMAIN paths' : Link[paths'[i]] = Link[paths'[j]] => i = j
      <4> SUFFICES ASSUME NEW i \in 1..(Len(paths) + 1), NEW j \in 1..(Len(paths) + 1),
                          Link[paths'[i]] = Link[paths'[j]]
                   PROVE  i = j
        BY <2>2
      <4>1. CASE i \in 1..Len(paths) /\ j \in 1..Len(paths)
        BY <2>2, <3>6, <4>1
      <4>2. CASE i \in 1..Len(paths) /\ j = Len(paths) + 1
        BY <2>2, <2>5, <4>2
      <4>3. CASE i = Len(paths) + 1 /\ j \in 1..Len(paths)
        BY <2>2, <2>5, <4>3
      <4> QED BY <1>2, <4>1, <4>2, <4>3
    <3>8. {Link[paths'[i]] : i \in DOMAIN paths'} = {Link[args'[k]] : k \in 1..(n' - 1)}
      BY <3>1, <3>2, <3>3, <3>4
    <3> QED BY <1>1, <3>5, <3>7, <3>8 DEF Collected, Lead
  <2>7. Passes' /\ StrictIsClean'
    BY <1>1 DEF Passes, StrictIsClean, asked, disk, past, Completed
  <2>8. Landing'
    <3>1. \A i \in DOMAIN paths' : outcome'[i] = "pending"
      <4>1. DOMAIN paths' \subseteq Positions
        BY <1>2, <2>2, PositionsLead
      <4> QED BY <1>1, <4>1 DEF Passes
    <3>2. file' = start'
      BY <1>1 DEF Passes, disk, past
    <3> QED BY <1>1, <3>1, <3>2 DEF Landing, Completed
  <2>9. Told'
    BY <1>1 DEF Told, Completed
  <2> QED BY <1>1, <2>3, <2>6, <2>7, <2>8, <2>9, LineageStays DEF past
<1> QED BY <1>3, <1>4

LEMMA BeginKeepsIInv == ASSUME BatchIInv, Begin PROVE BatchIInv'
<1> USE DEF BatchIInv
<1>1. /\ phase = "start" /\ n = Len(args) + 1 /\ n' = 1 /\ phase' \in {"process", "done"}
      /\ phase' = "process" => exit' = exit
      /\ phase' = "done" => exit' = 1
      /\ UNCHANGED <<asked, disk, paths, step, results, outcome, summary, past>>
  BY DEF Begin, Leave
<1>2. summary' = NoSummary /\ ~Completed'
  BY <1>1 DEF Told, Completed
<1>3. Types'
  BY <1>1, PositionsLead DEF Types, BatchTypeOK, asked, disk, past
<1>4. Collected'
  <2>1. n - 1 = Len(args)
    BY <1>1, PositionsLead
  <2> DEFINE FilesOf(s) == {Link[s[i]] : i \in DOMAIN s}
  <2> DEFINE FilesUpTo(s, m) == {Link[s[k]] : k \in 1..m}
  <2>2. FilesOf(paths) = FilesUpTo(args, Len(args))
    BY <1>1, <2>1 DEF Collected, Lead
  <2>3. \A i, j \in DOMAIN paths : Link[paths[i]] = Link[paths[j]] => i = j
    BY DEF Collected, Lead
  <2>4. phase' # "start" /\ paths' = paths /\ args' = args
    BY <1>1 DEF asked
  <2>5. FilesOf(paths') = FilesUpTo(args', Len(args'))
    <3> HIDE DEF FilesOf, FilesUpTo
    <3> QED BY <2>2, <2>4
  <2> QED BY <2>3, <2>4, <2>5 DEF Collected, Lead
<1>5. Passes' /\ StrictIsClean'
  <2>1. \A i \in DOMAIN paths : ~(i < 1)
    BY PositionsLead
  <2> QED BY <1>1, <1>2, <2>1 DEF Passes, StrictIsClean, asked, disk, past
<1>6. Landing' /\ Told'
  BY <1>1, <1>2 DEF Landing, Told, Lead, disk, past
<1> QED BY <1>1, <1>3, <1>4, <1>5, <1>6, LineageStays DEF past

LEMMA ProcessKeepsIInv == ASSUME BatchIInv, Process PROVE BatchIInv'
<1> USE DEF BatchIInv
<1>1. /\ phase = "process" /\ phase' = "process" /\ n <= Len(paths) /\ n' = n + 1
      /\ UNCHANGED <<asked, disk, paths, step, outcome, summary, exit, past>>
  BY DEF Process, Stay
<1>2. n \in DOMAIN paths /\ DOMAIN paths = 1..Len(paths) /\ Len(paths) \in Nat
  BY <1>1, PositionsLead DEF Types, BatchTypeOK
<1>3. PICK r \in {Failed, ProcessOneFile(start[Lead(n)], query, opts)} :
        results' = [results EXCEPT ![n] = r]
  <2>1. file = start
    BY <1>1 DEF Passes
  <2> QED BY <2>1 DEF Process, Lead
<1>4. r \in Results /\ (r.status = "ready" <=> r.new \in Texts)
  BY <1>2, AnswersAreResults
<1>5. n \in Positions /\ n + 1 \in 1..(Len(args) + 1)
  BY <1>1, <1>2, PositionsLead DEF Types, BatchTypeOK
<1>6. /\ results' \in [Positions -> Results] /\ results'[n] = r
      /\ \A i \in Positions : i # n => results'[i] = results[i]
  BY <1>3, <1>4, <1>5 DEF Types
<1>7. Types'
  <2>1. BatchTypeOK'
    <3>1. \A i \in Positions : results'[i].status \in {"none", "errored", "skipped", "ready"}
      BY <1>6 DEF Results
    <3>2. \A i \in Positions : results'[i].status = "ready" <=> results'[i].new \in Texts
      BY <1>4, <1>6 DEF Types, BatchTypeOK
    <3> QED BY <1>1, <1>2, <1>5, <3>1, <3>2 DEF Types, BatchTypeOK, asked, disk
  <2> QED BY <1>1, <1>6, <2>1 DEF Types, past, asked
<1>8. Collected'
  BY <1>1, CollectedStays DEF asked
<1>9. Passes'
  <2>1. \A i \in Positions \ DOMAIN paths : results'[i] = Unread
    BY <1>2, <1>6 DEF Passes
  <2>2. \A i \in DOMAIN paths : i < n + 1 => Answered(i)'
    <3> SUFFICES ASSUME NEW i \in DOMAIN paths, i < n + 1 PROVE Answered(i)'
      OBVIOUS
    <3>1. CASE i = n
      BY <1>1, <1>6, <3>1 DEF Answered, Lead, asked, past
    <3>2. CASE i # n
      <4>1. i < n
        BY <1>2, <3>2
      <4>2. results'[i] = results[i]
        BY <1>6, <3>2, PositionsLead
      <4> QED BY <1>1, <4>1, <4>2 DEF Passes, Answered, Lead, asked, past
    <3> QED BY <3>1, <3>2
  <2> QED BY <1>1, <2>1, <2>2 DEF Passes, disk, past, Completed
<1>10. StrictIsClean'
  BY <1>1 DEF StrictIsClean, Passes, disk, past
<1>11. Landing'
  <2>1. file' = start' /\ \A i \in DOMAIN paths' : outcome'[i] = "pending"
    BY <1>1, PositionsLead DEF Passes, disk, past
  <2> QED BY <1>1, <2>1 DEF Landing, Completed
<1>12. Told'
  BY <1>1 DEF Told, Completed
<1> QED BY <1>1, <1>7, <1>8, <1>9, <1>10, <1>11, <1>12, LineageStays DEF past

LEMMA ProcessedKeepsIInv == ASSUME BatchIInv, Processed PROVE BatchIInv'
<1> USE DEF BatchIInv
<1>1. /\ phase = "process" /\ n = Len(paths) + 1
      /\ UNCHANGED <<asked, disk, paths, step, results, outcome, past>>
      /\ \/ Aborts /\ phase' = "done" /\ exit' = 1 /\ n' = n
         \/ ~Aborts /\ phase' = "write" /\ n' = 1 /\ UNCHANGED <<summary, exit>>
  BY DEF Processed, Leave
<1>2. Aborts' = Aborts
  BY <1>1 DEF Aborts, asked
<1>3. ~Completed'
  BY <1>1, <1>2 DEF Completed
<1>4. Types'
  BY <1>1, PositionsLead DEF Types, BatchTypeOK, asked, disk, past
<1>5. Collected'
  BY <1>1, CollectedStays DEF asked
<1>6. Passes'
  <2>1. \A i \in DOMAIN paths : Answered(i)'
    BY <1>1, PositionsLead DEF Passes, Answered, Lead, asked, past
  <2> QED BY <1>1, <1>2, <1>3, <2>1 DEF Passes
<1>7. StrictIsClean'
  BY <1>1 DEF StrictIsClean, asked, disk, past
<1>8. Landing'
  <2>1. file' = start' /\ step' = "decide"
        /\ \A i \in DOMAIN paths' : outcome'[i] = "pending" /\ ~(i < 1)
    BY <1>1, PositionsLead DEF Passes, disk, past
  <2> QED BY <1>1, <1>3, <2>1 DEF Landing
<1>9. Told'
  BY <1>1, <1>3 DEF Told
<1>10. Lineage'
  <2>1. step' = "decide"
    BY <1>1 DEF Passes
  <2> QED BY <1>1, <2>1 DEF Lineage, Settled, asked, disk, past
<1> QED BY <1>4, <1>5, <1>6, <1>7, <1>8, <1>9, <1>10

-----------------------------------------------------------------------------
(* In the write phase the file at hand still has the text it began with,   *)
(* and its result was made of that text.                                   *)
LEMMA AtHand ==
  ASSUME BatchIInv, phase = "write", n \in DOMAIN paths
  PROVE  /\ n \in Positions /\ Dest \in Files /\ Dest = Lead(n) /\ outcome[n] = "pending"
         /\ file[Dest] = start[Dest] /\ file[Dest] \in Texts
         /\ n \in Nat /\ DOMAIN paths \subseteq Nat /\ n + 1 \in 1..(Len(paths) + 1)
         /\ results[n].status = "ready" =>
              /\ results[n] = ProcessOneFile(file[Dest], query, opts) /\ results[n].new \in Texts
              /\ results[n].new.value = query[file[Dest].value]
              /\ file[Dest].value \in Values /\ query[file[Dest].value] \in Values
              /\ Unchanged(results[n]) <=> query[file[Dest].value] = file[Dest].value
<1> USE DEF BatchIInv
<1>1. /\ n \in Positions /\ Lead(n) \in Files /\ n \in Nat /\ n \in 1..Len(paths)
      /\ DOMAIN paths = 1..Len(paths) /\ Len(paths) \in Nat
      /\ opts \in FlagSets /\ query \in Queries
  BY PositionsLead
<1>2. Dest = Lead(n)
  BY DEF Dest, Lead
<1>3. outcome[n] \in Outcomes /\ outcome[n] = "pending"
  BY <1>1 DEF Landing, Types, BatchTypeOK
<1>4. file[Dest] = start[Dest] /\ file[Dest] \in Texts
  BY <1>1, <1>2, <1>3 DEF Landing, Types, BatchTypeOK
<1>5. ASSUME results[n].status = "ready"
      PROVE  /\ results[n] = ProcessOneFile(file[Dest], query, opts) /\ results[n].new \in Texts
             /\ results[n].new.value = query[file[Dest].value]
             /\ file[Dest].value \in Values /\ query[file[Dest].value] \in Values
             /\ Unchanged(results[n]) <=> query[file[Dest].value] = file[Dest].value
  <2>1. results[n] \in {Failed, ProcessOneFile(start[Lead(n)], query, opts)}
    BY DEF Passes, Answered
  <2>2. results[n] = ProcessOneFile(file[Dest], query, opts) /\ results[n].new \in Texts
    BY <1>2, <1>4, <1>5, <2>1, AnswersAreResults
  <2>3. /\ file[Dest].value \in Values /\ query[file[Dest].value] \in Values \ Unencodable
        /\ results[n].new = Bytes(query[file[Dest].value], Form(opts["pretty"]))
        /\ Unchanged(results[n]) <=> query[file[Dest].value] = file[Dest].value
    BY <1>1, <1>4, <1>5, <2>2, ProcessingAnswers
  <2> QED BY <2>2, <2>3, TextsAreDecoded
<1> QED BY <1>1, <1>2, <1>3, <1>4, <1>5

(* Only a file that holds what it held at first is backed up, unless the   *)
(* query changes what it has made itself.                                  *)
LEMMA OriginalsAreBackedUp ==
  ASSUME BatchIInv, phase = "write", n \in DOMAIN paths, results[n].status = "ready",
         NeedsBackup, Idempotent(query)
  PROVE  file[Dest] = original[Dest]
<1>1. ~Settled(Dest)
  BY AtHand DEF Settled, NeedsBackup
<1> QED BY <1>1, AtHand DEF BatchIInv, Lineage, NeedsBackup

LEMMA PassOverKeepsIInv == ASSUME BatchIInv, PassOver PROVE BatchIInv'
<1> USE DEF BatchIInv
<1>1. /\ phase = "write" /\ phase' = "write" /\ step = "decide" /\ n' = n + 1
      /\ n \in DOMAIN paths /\ results[n].status # "ready"
      /\ UNCHANGED <<asked, disk, paths, step, results, outcome, summary, exit, past>>
  BY PositionsLead DEF PassOver, Writing, Types, BatchTypeOK
<1>2. n \in Nat /\ DOMAIN paths \subseteq Nat /\ n + 1 \in 1..(Len(paths) + 1)
  BY <1>1, AtHand
<1>3. Types'
  BY <1>1, <1>2, PositionsLead DEF Types, BatchTypeOK, asked, disk, past
<1>4. Collected'
  BY <1>1, CollectedStays DEF asked
<1>5. Passes' /\ StrictIsClean'
  BY <1>1 DEF Passes, StrictIsClean, Answered, Aborts, Lead, asked, disk, past, Completed
<1>6. Landing'
  <2>1. \A i \in DOMAIN paths : results[i].status = "ready" => (i < n <=> i < n + 1)
    BY <1>1, <1>2
  <2> QED BY <1>1, <2>1 DEF Landing, Lead, Completed, disk, past
<1>7. Told' /\ Lineage'
  BY <1>1 DEF Told, Lineage, Settled, Completed, asked, disk, past
<1> QED BY <1>3, <1>4, <1>5, <1>6, <1>7

LEMMA DecideKeepsIInv == ASSUME BatchIInv, Decide PROVE BatchIInv'
<1> USE DEF BatchIInv
<1>1. /\ phase = "write" /\ phase' = "write" /\ n \in DOMAIN paths /\ results[n].status = "ready"
      /\ UNCHANGED <<asked, file, bare, paths, n, results, outcome, summary, exit, past>>
      /\ \/ NeedsBackup /\ step' = "copying" /\ backup' = [backup EXCEPT ![Dest] = Torn]
         \/ ~NeedsBackup /\ step' = "install" /\ UNCHANGED backup
  BY PositionsLead DEF Decide, Writing, Types, BatchTypeOK
<1>2. Dest \in Files
  BY <1>1, AtHand
<1>3. Types'
  BY <1>1, <1>2 DEF Types, BatchTypeOK, asked, past
<1>4. Collected'
  BY <1>1, CollectedStays DEF asked
<1>5. Passes' /\ StrictIsClean'
  BY <1>1 DEF Passes, StrictIsClean, Answered, Aborts, Lead, asked, past, Completed
<1>6. Landing'
  BY <1>1 DEF Landing, Lead, Completed, past
<1>7. Told'
  BY <1>1 DEF Told, Completed
<1>8. NeedsBackup' = NeedsBackup /\ Dest' = Dest
  BY <1>1 DEF NeedsBackup, Dest, asked
<1>9. Lineage'
  <2>1. step' = "copying" => NeedsBackup'
    BY <1>1, <1>8
  <2>2. ~(step' = "install" /\ NeedsBackup')
    BY <1>1, <1>8
  <2>3. ASSUME opts["backup"], Idempotent(query), NEW f \in Files, file[f].value # original[f].value
        PROVE  f \in bare \/ backup'[f] = original[f]
    <3>1. f = Dest => ~NeedsBackup
      BY <1>1, <2>3, OriginalsAreBackedUp
    <3>2. backup'[f] = backup[f]
      BY <1>1, <3>1 DEF Types, BatchTypeOK
    <3> QED BY <2>3, <3>2 DEF Lineage
  <2> QED BY <1>1, <2>1, <2>2, <2>3 DEF Lineage, Settled, asked, past
<1> QED BY <1>3, <1>4, <1>5, <1>6, <1>7, <1>9

(* A backup that is passed over leaves its file bare. *)
LEMMA StatFailsKeepsIInv == ASSUME BatchIInv, StatFails PROVE BatchIInv'
<1> USE DEF BatchIInv
<1>1. /\ phase = "write" /\ phase' = "write" /\ n \in DOMAIN paths /\ results[n].status = "ready"
      /\ step' = "install" /\ bare' = bare \cup {Dest}
      /\ UNCHANGED <<asked, file, backup, paths, n, results, outcome, summary, exit, past>>
  BY PositionsLead DEF StatFails, Writing, Types, BatchTypeOK
<1>2. Dest \in Files
  BY <1>1, AtHand
<1>3. Types'
  BY <1>1, <1>2 DEF Types, BatchTypeOK, asked, past
<1>4. Collected'
  BY <1>1, CollectedStays DEF asked
<1>5. Passes' /\ StrictIsClean'
  BY <1>1 DEF Passes, StrictIsClean, Answered, Aborts, Lead, asked, past, Completed
<1>6. Landing'
  BY <1>1 DEF Landing, Lead, Completed, past
<1>7. Told'
  BY <1>1 DEF Told, Completed
<1>8. Dest' = Dest
  BY <1>1 DEF Dest
<1>9. Lineage'
  BY <1>1, <1>8 DEF Lineage, Settled, asked, past
<1> QED BY <1>3, <1>4, <1>5, <1>6, <1>7, <1>9

LEMMA CopiedKeepsIInv == ASSUME BatchIInv, Copied PROVE BatchIInv'
<1> USE DEF BatchIInv
<1>1. /\ phase = "write" /\ phase' = "write" /\ n \in DOMAIN paths /\ step = "copying"
      /\ step' = "install" /\ backup' = [backup EXCEPT ![Dest] = file[Dest]]
      /\ bare' = bare \ {Dest}
      /\ UNCHANGED <<asked, file, paths, n, results, outcome, summary, exit, past>>
  BY PositionsLead DEF Copied, Writing, Types, BatchTypeOK
<1>2. Dest \in Files /\ file[Dest] \in Texts
  BY <1>1, AtHand
<1>3. results[n].status = "ready" /\ NeedsBackup
  BY <1>1 DEF Landing, Lineage
<1>4. Types'
  BY <1>1, <1>2 DEF Types, BatchTypeOK, asked, past
<1>5. Collected'
  BY <1>1, CollectedStays DEF asked
<1>6. Passes' /\ StrictIsClean'
  BY <1>1 DEF Passes, StrictIsClean, Answered, Aborts, Lead, asked, past, Completed
<1>7. Landing'
  BY <1>1, <1>3 DEF Landing, Lead, Completed, past
<1>8. Told'
  BY <1>1 DEF Told, Completed
<1>9. Lineage'
  <2>1. Dest' = Dest /\ backup'[Dest] = file[Dest]
    BY <1>1, <1>2 DEF Dest, Types, BatchTypeOK
  <2>2. ASSUME opts["backup"], Idempotent(query), NEW f \in Files, file[f].value # original[f].value
        PROVE  f \in bare' \/ backup'[f] = original[f]
    <3>1. f # Dest
      BY <1>1, <1>3, <2>2, OriginalsAreBackedUp
    <3>2. backup'[f] = backup[f]
      BY <1>1, <3>1 DEF Types, BatchTypeOK
    <3> QED BY <1>1, <2>2, <3>1, <3>2 DEF Lineage
  <2> QED BY <1>1, <2>1, <2>2 DEF Lineage, Settled, asked, past
<1> QED BY <1>4, <1>5, <1>6, <1>7, <1>8, <1>9

LEMMA InstallKeepsIInv == ASSUME BatchIInv, Install PROVE BatchIInv'
<1> USE DEF BatchIInv
<1>1. /\ phase = "write" /\ phase' = "write" /\ n \in DOMAIN paths /\ step = "install"
      /\ step' = "decide" /\ n' = n + 1 /\ results[n].status = "ready"
      /\ UNCHANGED <<asked, backup, bare, paths, results, summary, exit, past>>
  BY PositionsLead DEF Install, Writing, Types, BatchTypeOK, Landing
<1>2. /\ file' = [file EXCEPT ![Dest] = results[n].new]
      /\ outcome' = [outcome EXCEPT ![n] = "installed"]
  <2>1. n \in Positions
    BY <1>1, AtHand
  <2> QED BY <2>1 DEF Install, Atomic!Install
<1>3. /\ n \in Positions /\ Dest \in Files /\ Dest = Lead(n)
      /\ n \in Nat /\ DOMAIN paths \subseteq Nat /\ n + 1 \in 1..(Len(paths) + 1)
      /\ results[n].new \in Texts
  BY <1>1, AtHand
<1>4. /\ file'[Dest] = results[n].new /\ outcome'[n] = "installed"
      /\ \A f \in Files : f # Dest => file'[f] = file[f]
      /\ \A i \in Positions : i # n => outcome'[i] = outcome[i]
  BY <1>2, <1>3 DEF Types, BatchTypeOK
<1>5. Types'
  <2>1. file' \in [Files -> Texts] /\ outcome' \in [Positions -> Outcomes]
    BY <1>2, <1>3 DEF Types, BatchTypeOK, Outcomes
  <2>2. n' \in 1..(Len(args) + 1) /\ n' <= Len(paths) + 1
    BY <1>1, <1>3, PositionsLead DEF Types, BatchTypeOK
  <2> QED BY <1>1, <2>1, <2>2 DEF Types, BatchTypeOK, asked, past
<1>6. Collected'
  BY <1>1, CollectedStays DEF asked
<1>7. Passes'
  BY <1>1 DEF Passes, Answered, Aborts, Lead, asked, past, Completed
<1>8. StrictIsClean'
  <2>1. opts["keepGoing"] \/ \A i \in DOMAIN paths : results[i].status # "errored"
    BY <1>1 DEF Passes, Aborts
  <2>2. \A i \in Positions \ DOMAIN paths : results[i].status # "errored"
    BY DEF Passes, Unread, Outcome
  <2> QED BY <1>1, <2>1, <2>2 DEF StrictIsClean, asked
<1>9. Landing'
  <2> SUFFICES ASSUME NEW i \in DOMAIN paths
               PROVE  /\ file'[Lead(i)] = IF outcome'[i] = "installed"
                                          THEN results[i].new ELSE start[Lead(i)]
                      /\ outcome'[i] # "pending" => results[i].status = "ready"
                      /\ outcome'[i] # "pending" <=> i < n + 1 /\ results[i].status = "ready"
    BY <1>1 DEF Landing, Lead, Completed, past
  <2>1. CASE i = n
    BY <1>1, <1>3, <1>4, <2>1
  <2>2. CASE i # n
    <3>1. Lead(i) # Dest /\ Lead(i) \in Files /\ i \in Positions
      BY <1>1, <1>3, <2>2, PositionsLead DEF Collected
    <3>2. i < n <=> i < n + 1
      BY <1>3, <2>2
    <3> QED BY <1>1, <1>4, <2>2, <3>1, <3>2 DEF Landing
  <2> QED BY <2>1, <2>2
<1>10. Told'
  BY <1>1 DEF Told, Completed
<1>11. Lineage'
  <2>1. ASSUME opts["backup"], Idempotent(query), NEW f \in Files
        PROVE  /\ file'[f] = original[f] \/ Settled(f)'
               /\ file'[f].value # original[f].value => f \in bare \/ backup[f] = original[f]
    <3>1. CASE f # Dest
      BY <1>1, <1>4, <2>1, <3>1 DEF Lineage, Settled, asked
    <3>2. CASE f = Dest
      <4>1. /\ file'[f].value = query[file[f].value] /\ file[f].value \in Values
            /\ query[file[f].value] \in Values
            /\ Unchanged(results[n]) <=> query[file[f].value] = file[f].value
        BY <1>1, <1>4, <3>2, AtHand
      <4>2. query[query[file[f].value]] = query[file[f].value]
        BY <2>1, <4>1, DocumentAssumption DEF Idempotent
      <4>3. Settled(f)'
        BY <1>1, <4>1, <4>2 DEF Settled, asked
      <4>4. CASE NeedsBackup
        <5>1. Dest \in bare \/ backup[Dest] = file[Dest]
          BY <1>1, <4>4 DEF Lineage
        <5>2. file[Dest] = original[Dest]
          BY <1>1, <2>1, <4>4, OriginalsAreBackedUp
        <5> QED BY <3>2, <4>3, <5>1, <5>2
      <4>5. CASE ~NeedsBackup
        <5>1. file'[f].value = file[f].value
          BY <2>1, <4>1, <4>5 DEF NeedsBackup
        <5> QED BY <2>1, <4>3, <5>1 DEF Lineage
      <4> QED BY <4>3, <4>4, <4>5
    <3> QED BY <3>1, <3>2
  <2> QED BY <1>1, <2>1 DEF Lineage, asked, past
<1> QED BY <1>5, <1>6, <1>7, <1>8, <1>9, <1>10, <1>11

LEMMA WriteFailsKeepsIInv == ASSUME BatchIInv, WriteFails PROVE BatchIInv'
<1> USE DEF BatchIInv
<1>1. /\ phase = "write" /\ phase' = "write" /\ n \in DOMAIN paths /\ step # "decide"
      /\ step' = "decide" /\ n' = n + 1 /\ results[n].status = "ready"
      /\ UNCHANGED <<asked, disk, paths, results, summary, exit, past>>
      /\ outcome' = [outcome EXCEPT ![n] = "refused"]
  BY PositionsLead DEF WriteFails, Writing, Types, BatchTypeOK, Landing, Atomic!Refuse, disk
<1>2. /\ n \in Positions /\ outcome[n] = "pending"
      /\ n \in Nat /\ DOMAIN paths \subseteq Nat /\ n + 1 \in 1..(Len(paths) + 1)
  BY <1>1, AtHand
<1>3. /\ outcome'[n] = "refused"
      /\ \A i \in Positions : i # n => outcome'[i] = outcome[i]
  BY <1>1, <1>2 DEF Types, BatchTypeOK
<1>4. Types'
  <2>1. outcome' \in [Positions -> Outcomes]
    BY <1>1, <1>2 DEF Types, BatchTypeOK, Outcomes
  <2>2. n' \in 1..(Len(args) + 1) /\ n' <= Len(paths) + 1
    BY <1>1, <1>2, PositionsLead DEF Types, BatchTypeOK
  <2> QED BY <1>1, <2>1, <2>2 DEF Types, BatchTypeOK, asked, disk, past
<1>5. Collected'
  BY <1>1, CollectedStays DEF asked
<1>6. Passes' /\ StrictIsClean'
  BY <1>1 DEF Passes, StrictIsClean, Answered, Aborts, Lead, asked, disk, past, Completed
<1>7. Landing'
  <2> SUFFICES ASSUME NEW i \in DOMAIN paths
               PROVE  /\ file[Lead(i)] = IF outcome'[i] = "installed"
                                         THEN results[i].new ELSE start[Lead(i)]
                      /\ outcome'[i] # "pending" => results[i].status = "ready"
                      /\ outcome'[i] # "pending" <=> i < n + 1 /\ results[i].status = "ready"
    BY <1>1 DEF Landing, Lead, Completed, disk, past
  <2>1. CASE i = n
    BY <1>1, <1>2, <1>3, <2>1 DEF Landing
  <2>2. CASE i # n
    <3>1. i \in Positions /\ (i < n <=> i < n + 1)
      BY <1>2, <2>2, PositionsLead
    <3> QED BY <1>1, <1>3, <2>2, <3>1 DEF Landing
  <2> QED BY <2>1, <2>2
<1>8. Told' /\ Lineage'
  BY <1>1 DEF Told, Completed, Lineage, Settled, asked, disk, past
<1> QED BY <1>4, <1>5, <1>6, <1>7, <1>8

LEMMA FinishKeepsIInv == ASSUME BatchIInv, Finish PROVE BatchIInv'
<1> USE DEF BatchIInv
<1>1. /\ phase = "write" /\ phase' = "done" /\ n = Len(paths) + 1
      /\ summary' = IF Len(paths) > 1 THEN Summary ELSE summary
      /\ exit' = IF \E i \in DOMAIN paths : Errored(i) THEN 1 ELSE 0
      /\ UNCHANGED <<asked, disk, paths, n, step, results, outcome, past>>
  BY DEF Finish, Leave, Summarize
<1>2. Types'
  BY <1>1 DEF Types, BatchTypeOK, asked, disk, past
<1>3. Collected'
  BY <1>1, CollectedStays DEF asked
<1>4. Passes' /\ StrictIsClean'
  BY <1>1 DEF Passes, StrictIsClean, Answered, Lead, asked, disk, past
<1>5. Landing'
  <2>1. \A i \in DOMAIN paths : i < n
    BY <1>1, PositionsLead
  <2> QED BY <1>1, <2>1 DEF Landing, Lead, disk, past
<1>6. Told'
  <2>1. (\E i \in DOMAIN paths : Errored(i))' <=> \E i \in DOMAIN paths : Errored(i)
    BY <1>1 DEF Errored
  <2>2. Summary' = Summary
    BY <1>1 DEF Summary, Counted, Errored, Unchanged
  <2>3. summary' = NoSummary \/ summary' = Summary
    BY <1>1 DEF Told
  <2> QED BY <1>1, <2>1, <2>2, <2>3 DEF Told
<1>7. Lineage'
  BY <1>1, LineageStays DEF past
<1> QED BY <1>2, <1>3, <1>4, <1>5, <1>6, <1>7

LEMMA CrashKeepsIInv == ASSUME BatchIInv, Crash PROVE BatchIInv'
<1> USE DEF BatchIInv
<1>1. /\ phase # "done" /\ phase' = "crashed"
      /\ UNCHANGED <<asked, disk, paths, n, step, results, outcome, summary, exit, past>>
  BY DEF Crash
<1>2. Types' /\ Collected'
  BY <1>1 DEF Types, BatchTypeOK, Collected, Lead, asked, disk, past
<1>3. Passes' /\ StrictIsClean'
  BY <1>1 DEF Passes, StrictIsClean, asked, disk, past, Completed
<1>4. Landing' /\ Told'
  BY <1>1 DEF Landing, Told, Lead, Completed, disk, past
<1> QED BY <1>1, <1>2, <1>3, <1>4, LineageStays DEF past

(* What a run begins with. *)
LEMMA FreshRun ==
  /\ Unread \in Results /\ Unread.status = "none" /\ Unread.new \notin Texts
  /\ <<>> \in Seq(Paths) /\ Len(<<>>) = 0 /\ DOMAIN <<>> = {}
<1>1. Unread \in Results /\ Unread.status = "none" /\ Unread.new \notin Texts
  BY TextsAreDecoded DEF Unread, Outcome, Results
<1> QED BY <1>1

LEMMA AgainKeepsIInv == ASSUME BatchIInv, Again PROVE BatchIInv'
<1> USE DEF BatchIInv
<1>1. /\ phase' = "start" /\ paths' = <<>> /\ n' = 1 /\ step' = "decide"
      /\ results' = [i \in Positions |-> Unread]
      /\ outcome' = [i \in Positions |-> "pending"]
      /\ summary' = NoSummary /\ exit' = -1 /\ start' = file
      /\ UNCHANGED <<asked, disk, original>>
  BY DEF Again
<1>2. Types'
  BY <1>1, FreshRun, PositionsLead DEF Types, BatchTypeOK, asked, disk, Outcomes
<1>3. Collected'
  <2>1. {Link[paths'[i]] : i \in DOMAIN paths'} = {Link[args'[k]] : k \in 1..(n' - 1)}
    BY <1>1, FreshRun
  <2> QED BY <1>1, <2>1, FreshRun DEF Collected, Lead
<1>4. Passes' /\ StrictIsClean'
  BY <1>1, FreshRun DEF Passes, StrictIsClean, Completed, disk
<1>5. Landing' /\ Told'
  BY <1>1, FreshRun DEF Landing, Told, Completed
<1> QED BY <1>1, <1>2, <1>3, <1>4, <1>5, LineageStays

LEMMA InitBatchIInv == BatchInit => BatchIInv
<1> SUFFICES ASSUME BatchInit PROVE BatchIInv
  OBVIOUS
<1>1. /\ query \in Asked /\ args \in Batches /\ opts \in FlagSets /\ ~opts["cross"]
      /\ file \in [Files -> Texts] /\ backup = [f \in Files |-> NoBytes] /\ bare = {}
      /\ phase = "start" /\ paths = <<>> /\ n = 1 /\ step = "decide"
      /\ results = [i \in Positions |-> Unread]
      /\ outcome = [i \in Positions |-> "pending"]
      /\ summary = NoSummary /\ exit = -1 /\ original = file /\ start = file
  BY BatchAssumption DEF BatchInit, Flags
<1>2. Len(args) \in Nat \ {0}
  BY <1>1, BatchAssumption
<1>3. Types
  BY <1>1, <1>2, FreshRun DEF Types, BatchTypeOK, Outcomes
<1>4. Collected
  <2>1. {Link[paths[i]] : i \in DOMAIN paths} = {Link[args[k]] : k \in 1..(n - 1)}
    BY <1>1, FreshRun
  <2> QED BY <1>1, <2>1, FreshRun DEF Collected, Lead
<1>5. Passes /\ StrictIsClean
  BY <1>1, FreshRun DEF Passes, StrictIsClean, Completed
<1>6. Landing /\ Told
  BY <1>1, FreshRun DEF Landing, Told, Completed
<1>7. Lineage
  BY <1>1 DEF Lineage
<1> QED BY <1>3, <1>4, <1>5, <1>6, <1>7 DEF BatchIInv

LEMMA BatchNextIInv == BatchIInv /\ [BatchNext]_vars => BatchIInv'
<1> SUFFICES ASSUME BatchIInv, [BatchNext]_vars PROVE BatchIInv'
  OBVIOUS
<1>1. CASE Collect \/ Begin \/ Process \/ Processed
  BY <1>1, CollectKeepsIInv, BeginKeepsIInv, ProcessKeepsIInv, ProcessedKeepsIInv
<1>2. CASE PassOver \/ Decide \/ StatFails \/ Copied \/ Install \/ WriteFails \/ Finish
  BY <1>2, PassOverKeepsIInv, DecideKeepsIInv, StatFailsKeepsIInv, CopiedKeepsIInv,
     InstallKeepsIInv, WriteFailsKeepsIInv, FinishKeepsIInv
<1>3. CASE Crash \/ Again
  BY <1>3, CrashKeepsIInv, AgainKeepsIInv
<1>4. CASE UNCHANGED vars
  <2>1. UNCHANGED <<asked, disk, phase, paths, n, step, results, outcome, summary, exit, past>>
    BY <1>4 DEF vars, local
  <2>2. Types'
    BY <2>1 DEF BatchIInv, Types, BatchTypeOK, asked, disk, past
  <2>3. Collected'
    <3>1. CASE phase = "crashed"
      BY <2>1, <3>1 DEF BatchIInv, Collected, Lead
    <3>2. CASE phase = "start"
      <4>1. {Link[paths[i]] : i \in DOMAIN paths} = {Link[args[k]] : k \in 1..(n - 1)}
        BY <3>2 DEF BatchIInv, Collected, Lead
      <4>2. {Link[paths'[i]] : i \in DOMAIN paths'} = {Link[args'[k]] : k \in 1..(n' - 1)}
        BY <2>1, <4>1 DEF asked
      <4> QED BY <2>1, <3>2, <4>2 DEF BatchIInv, Collected, Lead
    <3>3. CASE phase \notin {"start", "crashed"}
      BY <2>1, <3>3, CollectedStays DEF BatchIInv, asked
    <3> QED BY <3>1, <3>2, <3>3
  <2>4. Passes' /\ StrictIsClean'
    BY <2>1 DEF BatchIInv, Passes, StrictIsClean, Answered, Aborts, Lead, Completed, asked, disk,
                past
  <2>5. Landing' /\ Lineage'
    BY <2>1 DEF BatchIInv, Landing, Lineage, Lead, Completed, Settled, NeedsBackup, Dest, Aborts,
                asked, disk, past
  <2>6. Told'
    BY <2>1 DEF BatchIInv, Told, Completed, Aborts, Summary, Counted, Errored, Unchanged, asked
  <2> QED BY <2>2, <2>3, <2>4, <2>5, <2>6 DEF BatchIInv
<1> QED BY <1>1, <1>2, <1>3, <1>4 DEF BatchNext, Run

(* The types of a batch, the one path it keeps to each file, what its      *)
(* first pass has answered, what its writes have landed, and where each    *)
(* backup comes from, whenever it is killed and given again (runFiles).    *)
THEOREM BatchInvariant == BatchSpec => []BatchIInv
  BY InitBatchIInv, BatchNextIInv, PTL DEF BatchSpec

(* The variables of the batch keep their types (runFiles). *)
THEOREM BatchTypes == BatchSpec => []BatchTypeOK
<1>1. BatchIInv => BatchTypeOK
  BY DEF BatchIInv, Types
<1> QED BY <1>1, BatchInvariant, PTL

-----------------------------------------------------------------------------
(* A completed batch, file by file. *)
LEMMA NamedIsLed ==
  ASSUME BatchIInv, phase = "done"
  PROVE  /\ Named \subseteq Files /\ Named = {Lead(i) : i \in DOMAIN paths}
         /\ \A f \in Named : \E i \in DOMAIN paths : Lead(i) = f
<1>1. {Lead(i) : i \in DOMAIN paths} = {Link[args[k]] : k \in 1..Len(args)}
  BY DEF BatchIInv, Collected
<1>2. DOMAIN args = 1..Len(args) /\ \A k \in DOMAIN args : Link[args[k]] \in Files
  BY PositionsLead DEF BatchIInv
<1>3. Named = {Lead(i) : i \in DOMAIN paths}
  BY <1>1, <1>2 DEF Named
<1>4. Named \subseteq Files
  BY <1>2 DEF Named
<1>5. \A f \in Named : \E i \in DOMAIN paths : Lead(i) = f
  BY <1>3
<1> QED BY <1>3, <1>4, <1>5

(* What has been landed at a position is what its result says. *)
LEMMA PositionIsLanded ==
  ASSUME BatchIInv, Completed, NEW i \in DOMAIN paths
  PROVE  LET r == results[i]
             t == start[Lead(i)]
         IN /\ Lead(i) \in Files /\ t \in Texts /\ r.status \in {"errored", "skipped", "ready"}
            /\ r.status # "errored" => r = ProcessOneFile(t, query, opts)
            /\ r.status = "ready" <=> outcome[i] # "pending"
            /\ outcome[i] \in Outcomes
            /\ r.status = "ready" /\ ~Errored(i) => file[Lead(i)] = r.new
            /\ r.status # "ready" \/ Errored(i) => file[Lead(i)] = t
<1> USE DEF BatchIInv
<1>1. /\ Lead(i) \in Files /\ i \in Positions
      /\ start[Lead(i)] \in Texts /\ outcome[i] \in Outcomes
  BY PositionsLead DEF Types, BatchTypeOK
<1>2. results[i] \in {Failed, ProcessOneFile(start[Lead(i)], query, opts)}
  BY DEF Passes, Answered
<1>3. /\ results[i].status \in {"errored", "skipped", "ready"}
      /\ results[i].status # "errored" => results[i] = ProcessOneFile(start[Lead(i)], query, opts)
  BY <1>2, AnswersAreResults
<1>4. results[i].status = "ready" <=> outcome[i] # "pending"
  BY DEF Landing
<1>5. file[Lead(i)] = IF outcome[i] = "installed" THEN results[i].new ELSE start[Lead(i)]
  BY DEF Landing
<1>6. outcome[i] = "installed" <=> results[i].status = "ready" /\ ~Errored(i)
  BY <1>1, <1>3, <1>4 DEF Errored, Outcomes
<1> QED BY <1>1, <1>3, <1>4, <1>5, <1>6

LEMMA ExitHonest == BatchIInv => ExitIsHonest
<1> SUFFICES ASSUME BatchIInv, phase = "done", exit = 0, NEW f \in Named PROVE Done(f)
  BY DEF ExitIsHonest
<1>1. PICK i \in DOMAIN paths : Lead(i) = f
  BY NamedIsLed
<1>2. Completed /\ ~Errored(i)
  <2>1. Completed
    BY DEF Completed
  <2> QED BY <2>1 DEF BatchIInv, Told
<1>3. results[i].status # "errored"
  BY <1>2 DEF Errored
<1>4. /\ results[i] = ProcessOneFile(start[f], query, opts)
      /\ results[i].status \in {"skipped", "ready"}
      /\ results[i].status = "ready" => file[f] = results[i].new
      /\ results[i].status = "skipped" => file[f] = start[f]
  BY <1>1, <1>2, <1>3, PositionIsLanded
<1>5. CASE results[i].status = "ready"
  BY <1>4, <1>5 DEF Done
<1>6. CASE results[i].status = "skipped"
  BY <1>4, <1>6 DEF Done
<1> QED BY <1>4, <1>5, <1>6

-----------------------------------------------------------------------------
(* The summary counts positions; the files that they lead to are as many. *)
LEMMA SameNumber ==
  ASSUME NEW S, IsFiniteSet(S), NEW T, NEW g \in [S -> T],
         \A x, y \in S : g[x] = g[y] => x = y, \A y \in T : \E x \in S : g[x] = y
  PROVE  IsFiniteSet(T) /\ Cardinality(T) = Cardinality(S)
<1>1. g \in Bijection(S, T)
  BY DEF Bijection, Injection, Surjection, IsInjective
<1>2. ExistsBijection(S, T)
  BY <1>1 DEF ExistsBijection
<1> QED BY <1>2, FS_Bijection

LEMMA PositionsCountFiles ==
  ASSUME BatchIInv, phase = "done", NEW I \in SUBSET DOMAIN paths, NEW F,
         F = {Lead(i) : i \in I}
  PROVE  /\ IsFiniteSet(I) /\ Cardinality(I) \in Nat
         /\ Cardinality(F) = Cardinality(I)
<1>1. IsFiniteSet(DOMAIN paths)
  BY PositionsLead, FS_Interval DEF BatchIInv
<1>2. IsFiniteSet(I) /\ Cardinality(I) \in Nat
  BY <1>1, FS_Subset, FS_CardinalityType
<1> DEFINE g == [i \in I |-> Lead(i)]
<1>3. g \in [I -> F]
  OBVIOUS
<1>4. \A i, j \in I : g[i] = g[j] => i = j
  BY DEF BatchIInv, Collected
<1>5. \A f \in F : \E i \in I : g[i] = f
  OBVIOUS
<1>6. Cardinality(F) = Cardinality(I)
  <2> HIDE DEF g
  <2> QED BY <1>2, <1>3, <1>4, <1>5, SameNumber
<1> QED BY <1>2, <1>6

(* A value has changed where a write that differs has landed. *)
LEMMA ChangedIsCounted ==
  ASSUME BatchIInv, Completed, NEW i \in DOMAIN paths
  PROVE  Changed(Lead(i)) <=>
           results[i].status # "skipped" /\ ~Errored(i) /\ ~Unchanged(results[i])
<1> DEFINE t == start[Lead(i)]
<1>1. opts \in FlagSets /\ query \in Queries
  BY PositionsLead DEF BatchIInv
<1>2. CASE results[i].status = "ready" /\ ~Errored(i)
  <2>1. t \in Texts /\ results[i] = ProcessOneFile(t, query, opts) /\ file[Lead(i)] = results[i].new
    BY <1>2, PositionIsLanded
  <2>2. /\ results[i].new = Bytes(query[t.value], Form(opts["pretty"]))
        /\ Unchanged(results[i]) <=> query[t.value] = t.value
    BY <1>1, <1>2, <2>1, ProcessingAnswers
  <2>3. file[Lead(i)].value = query[t.value]
    BY <2>1, <2>2, TextsAreDecoded
  <2> QED BY <1>2, <2>2, <2>3 DEF Changed
<1>3. CASE results[i].status # "ready" \/ Errored(i)
  <2>1. file[Lead(i)] = t /\ results[i].status \in {"errored", "skipped", "ready"}
    BY <1>3, PositionIsLanded
  <2>2. results[i].status = "skipped" \/ Errored(i)
    BY <1>3, <2>1 DEF Errored
  <2> QED BY <2>1, <2>2 DEF Changed
<1> QED BY <1>2, <1>3

LEMMA SummaryTrue == BatchIInv => SummaryIsTrue
<1> SUFFICES ASSUME BatchIInv, phase = "done", summary # NoSummary, ~Aborts PROVE Landed
  BY DEF SummaryIsTrue
<1> DEFINE C == {i \in DOMAIN paths : results[i].status # "skipped"
                                        /\ ~Errored(i) /\ ~Unchanged(results[i])}
           U == {i \in DOMAIN paths : results[i].status # "skipped"
                                        /\ ~Errored(i) /\ Unchanged(results[i])}
           E == {i \in DOMAIN paths : results[i].status # "skipped" /\ Errored(i)}
<1>1. Completed
  BY DEF Completed
<1>2. /\ summary.changed = Cardinality(C) /\ summary.unchanged = Cardinality(U)
      /\ summary.errored = Cardinality(E)
  <2>1. summary = Summary
    BY <1>1 DEF BatchIInv, Told
  <2> QED BY <2>1 DEF Summary, Counted
<1>3. /\ Named \subseteq Files /\ Named = {Lead(i) : i \in DOMAIN paths}
  BY NamedIsLed
<1>4. summary.changed = Cardinality({f \in Named : Changed(f)})
  <2>1. {f \in Named : Changed(f)} = {Lead(i) : i \in C}
    BY <1>1, <1>3, ChangedIsCounted
  <2> HIDE DEF C
  <2>2. C \in SUBSET DOMAIN paths
    BY DEF C
  <2> QED BY <1>2, <2>1, <2>2, PositionsCountFiles
<1>5. ASSUME ~opts["where"]
      PROVE  summary.changed + summary.unchanged + summary.errored = Cardinality(Named)
  <2>1. \A i \in DOMAIN paths : results[i].status # "skipped"
    BY <1>1, <1>5, PositionIsLanded, PositionsLead, ProcessingAnswers DEF BatchIInv
  <2>2. /\ DOMAIN paths = (C \cup U) \cup E
        /\ C \cap U = {} /\ (C \cup U) \cap E = {}
        /\ C \in SUBSET DOMAIN paths /\ U \in SUBSET DOMAIN paths /\ E \in SUBSET DOMAIN paths
    BY <2>1
  <2> HIDE DEF C, U, E
  <2>3. /\ IsFiniteSet(C) /\ IsFiniteSet(U) /\ IsFiniteSet(E)
        /\ Cardinality(C) \in Nat /\ Cardinality(U) \in Nat /\ Cardinality(E) \in Nat
    BY <2>2, PositionsCountFiles
  <2>4. IsFiniteSet(C \cup U) /\ Cardinality(C \cup U) = Cardinality(C) + Cardinality(U)
    <3>1. /\ IsFiniteSet(C \cup U)
          /\ Cardinality(C \cup U) = Cardinality(C) + Cardinality(U) - Cardinality(C \cap U)
      BY <2>3, FS_Union
    <3>2. Cardinality(C \cap U) = 0
      BY <2>2, FS_EmptySet
    <3> QED BY <2>3, <3>1, <3>2
  <2>5. Cardinality((C \cup U) \cup E) = Cardinality(C) + Cardinality(U) + Cardinality(E)
    BY <2>2, <2>3, <2>4, FS_Union, FS_EmptySet
  <2>6. Cardinality(Named) = Cardinality(DOMAIN paths)
    BY <1>3, PositionsCountFiles
  <2> QED BY <1>2, <2>2, <2>5, <2>6
<1>6. summary.errored = 0 <=> exit = 0
  <2>1. exit = IF \E i \in DOMAIN paths : Errored(i) THEN 1 ELSE 0
    BY <1>1 DEF BatchIInv, Told
  <2>2. E = {} <=> ~\E i \in DOMAIN paths : Errored(i)
    <3>1. \A i \in DOMAIN paths : Errored(i) => results[i].status # "skipped"
      BY <1>1, PositionIsLanded DEF Errored
    <3> QED BY <3>1
  <2>3. E \in SUBSET DOMAIN paths
    OBVIOUS
  <2> HIDE DEF E
  <2>4. Cardinality(E) = 0 <=> E = {}
    BY <2>3, PositionsCountFiles, FS_EmptySet
  <2> QED BY <1>2, <2>1, <2>2, <2>4
<1> QED BY <1>4, <1>5, <1>6 DEF Landed, Over

(* A strict batch that cannot be processed is not written, exit status 0   *)
(* means that the answer of the query is in every file, the summary tells  *)
(* what has landed, and a backup has the bytes of the beginning unless its *)
(* write reports none (runFiles, emitBatchSummary, WriteAtomicWithBackup). *)
THEOREM BatchesAreHonest == BatchSpec => []BatchIsHonest
<1>1. BatchIInv => StrictIsClean /\ BackupHolds
  BY DEF BatchIInv, BackupHolds, Lineage
<1>2. BatchIInv => BatchIsHonest
  BY <1>1, ExitHonest, SummaryTrue DEF BatchIsHonest
<1> QED BY <1>2, BatchInvariant, PTL

-----------------------------------------------------------------------------
(* A file that a successful batch without --where has written: its text    *)
(* is the encoded answer of the query.                                     *)
LEMMA WrittenText ==
  ASSUME BatchIInv, Over, exit = 0, NEW f \in Named
  PROVE  LET t == start[f]
             F == Form(opts["pretty"])
         IN /\ opts \in FlagSets /\ query \in Queries /\ OutForm(opts) = F
            /\ t.value \in Values /\ query[t.value] \in Values \ Unencodable
            /\ RunQuery(query, t.value, opts) = query[t.value]
            /\ file[f] = Bytes(query[t.value], F) /\ file[f].value = query[t.value]
<1> DEFINE t == start[f]
           r == ProcessOneFile(t, query, opts)
<1>1. /\ opts \in FlagSets /\ query \in Queries /\ ~opts["cross"] /\ ~opts["where"]
      /\ phase = "done" /\ t \in Texts
  BY PositionsLead, NamedIsLed DEF BatchIInv, Types, Over
<1>2. OutForm(opts) = Form(opts["pretty"])
  BY <1>1 DEF OutForm
<1>3. Done(f)
  BY <1>1, ExitHonest DEF ExitIsHonest
<1>4. r.status = "ready" /\ file[f] = r.new
  <2>1. r.status # "skipped"
    BY <1>1, ProcessingAnswers
  <2> QED BY <1>3, <2>1 DEF Done
<1>5. /\ t.value \in Values /\ query[t.value] \in Values \ Unencodable
      /\ RunQuery(query, t.value, opts) = query[t.value]
      /\ r.new = Bytes(query[t.value], Form(opts["pretty"]))
  BY <1>1, <1>4, ProcessingAnswers
<1>6. file[f].value = query[t.value]
  BY <1>4, <1>5, TextsAreDecoded
<1> QED BY <1>1, <1>2, <1>4, <1>5, <1>6

LEMMA PreviewsTrue == BatchIInv => PreviewsForetell
<1> SUFFICES ASSUME BatchIInv, Over, exit = 0, NEW f \in Named, start[f].value \notin Unencodable
             PROVE  /\ RunCheck(start[f], query, opts) = IF Changed(f) THEN 2 ELSE 0
                    /\ LET d == RunDryRun(start[f], query, opts)
                       IN d # <<>> /\ file[f] = d[2] /\ (Changed(f) => d[1] # d[2])
                    /\ RunOnce(start[f], query, opts) = file[f]
  BY DEF PreviewsForetell
<1> DEFINE v == start[f].value
           w == query[v]
           F == Form(opts["pretty"])
<1>1. /\ opts \in FlagSets /\ OutForm(opts) = F /\ v \in Values /\ w \in Values \ Unencodable
      /\ RunQuery(query, v, opts) = w /\ file[f] = Bytes(w, F) /\ file[f].value = w
  BY WrittenText
<1>2. v \notin {None} \cup Unencodable /\ w \notin {None} \cup Unencodable
  BY <1>1, DocumentAssumption
<1>3. /\ Encode(v, F) = Bytes(v, F) /\ Encode(w, F) = Bytes(w, F)
      /\ Encode(v, "compact") = Bytes(v, "compact")
      /\ Encode(v, F) # NoBytes /\ Encode(w, F) # NoBytes /\ Encode(v, "compact") # NoBytes
  BY <1>1, <1>2, EncodingsAreTexts
<1>4. Changed(f) <=> v # w
  BY <1>1 DEF Changed
<1>5. \A g : Bytes(v, g) = Bytes(w, F) => v = w
  BY TextsAreDecoded
<1>6. RunCheck(start[f], query, opts) = IF Changed(f) THEN 2 ELSE 0
  BY <1>1, <1>3, <1>4, <1>5 DEF RunCheck, Decode
<1>7. RunDryRun(start[f], query, opts) = <<Bytes(v, "compact"), Bytes(w, F)>>
  BY <1>1, <1>3 DEF RunDryRun, Decode
<1>8. RunOnce(start[f], query, opts) = file[f]
  BY <1>1, <1>3 DEF RunOnce, Decode
<1> QED BY <1>1, <1>4, <1>5, <1>6, <1>7, <1>8

LEMMA NoDriftAfterEdit == BatchIInv => CheckAfterEdit
<1> SUFFICES ASSUME BatchIInv, Over, exit = 0, Idempotent(query), NEW f \in Named
             PROVE  RunCheck(file[f], query, opts) = 0
  BY DEF CheckAfterEdit
<1> DEFINE v == start[f].value
           w == query[v]
           F == Form(opts["pretty"])
<1>1. /\ opts \in FlagSets /\ query \in Queries /\ OutForm(opts) = F
      /\ v \in Values /\ w \in Values \ Unencodable /\ file[f].value = w
  BY WrittenText
<1>2. w \notin {None} \cup Unencodable /\ query[w] = w
  BY <1>1, DocumentAssumption DEF Idempotent
<1>3. RunQuery(query, w, opts) = w
  BY <1>1, <1>2, AnswersAreValues
<1>4. Encode(w, F) # NoBytes
  BY <1>1, <1>2, EncodingsAreTexts
<1> QED BY <1>1, <1>3, <1>4 DEF RunCheck, Decode

(* --check and --dry-run foretell what -i does to the value and the text,  *)
(* and after -i no drift is found (runCheck, runDryRun, runOnce).          *)
THEOREM PreviewsAreTrue == BatchSpec => []PreviewsHold
<1>1. BatchIInv => PreviewsHold
  BY PreviewsTrue, NoDriftAfterEdit DEF PreviewsHold
<1> QED BY <1>1, BatchInvariant, PTL
-----------------------------------------------------------------------------
(* The editing of a file.  EditIsHonest speaks of the end; before, what is *)
(* shown and told follows the step, and there is no temporary file until   *)
(* it is made.                                                             *)
EditedIsRead ==
  /\ origVal \in Originals
  /\ temp.form = "other" => temp.value \in Edits
  /\ editing = "decode" => temp.form \in {"garbage", "other"}
  /\ editing = "diff" => editedVal \in Edits
EditIInv ==
  /\ EditTypeOK
  /\ EditedIsRead
  /\ shown # "nothing" <=> editing = "return"
  /\ told = (IF editing = "failed" THEN 1 ELSE 0)
  /\ exited = "0" => editing = "return" /\ temp = NoFile
  /\ exited = "1" => editing = "failed" /\ temp = NoFile

(* Whatever walkDiff finds, Diff returns no more than maxChanges.          *)
LEMMA DiffIsBounded ==
  ASSUME NEW v \in Originals, NEW w \in Edits
  PROVE  Len(Diff(v, w)) <= MaxChanges
<1>1. Len(<<Change(Dot, w)>>) = 1
  OBVIOUS
<1>2. Len(Walk(v, w)) \in Nat /\ MaxChanges \in Nat \ {0}
  BY EditAssumption
<1> QED
  BY <1>1, <1>2 DEF Diff

LEMMA EditStarts == EditInit => EditIInv
  BY EditAssumption DEF EditInit, EditIInv, EditTypeOK, EditedIsRead, EditSteps, Forms, NoFile

(* An error is told once, at whichever step.                               *)
LEMMA GivingUp == EditIInv /\ exited = "none" /\ editing # "failed" /\ editing # "return" /\ GiveUp => EditIInv'
<1> SUFFICES ASSUME EditIInv, exited = "none", editing # "failed", editing # "return", GiveUp
             PROVE  EditIInv'
  OBVIOUS
<1> USE DEF EditIInv, GiveUp, Proceed
<1>1. told' = 1
  OBVIOUS
<1>2. EditTypeOK'
  <2>1. editing' \in EditSteps /\ told' \in 0..1
    BY <1>1 DEF EditSteps
  <2> QED
    BY <2>1 DEF EditTypeOK
<1>3. EditedIsRead'
  BY DEF EditedIsRead
<1> QED
  BY <1>1, <1>2, <1>3

LEMMA EditStep == EditIInv /\ [EditNext]_editVars => EditIInv'
<1> SUFFICES ASSUME EditIInv, [EditNext]_editVars
             PROVE  EditIInv'
  OBVIOUS
<1> USE DEF EditIInv, EditTypeOK, EditedIsRead, EditSteps, Forms, NoFile, TempFile, Now, Proceed,
            Continue
<1>1. CASE Prepare
  <2>1. CASE GiveUp
    BY <1>1, <2>1, GivingUp DEF Prepare
  <2>2. CASE ~GiveUp
    BY <1>1, <2>2 DEF Prepare
  <2> QED
    BY <2>1, <2>2
<1>2. CASE MakeTemp
  <2>1. CASE GiveUp
    BY <1>2, <2>1, GivingUp DEF MakeTemp
  <2>2. CASE ~GiveUp
    <3>1. temp'.form = "partial" /\ editing' = "write" /\ temp'.form \in Forms
      BY <1>2, <2>2 DEF MakeTemp
    <3>2. UNCHANGED <<origVal, editedVal, changes, shown, told, exited>> /\ exited = "none"
      BY <1>2, <2>2 DEF MakeTemp
    <3>3. EditTypeOK'
      BY <3>1, <3>2
    <3>4. EditedIsRead'
      BY <3>1, <3>2
    <3>5. editing # "return" /\ editing # "failed"
      BY <1>2 DEF MakeTemp
    <3> QED
      BY <3>1, <3>2, <3>3, <3>4, <3>5
  <2> QED
    BY <2>1, <2>2
<1>3. CASE FillTemp
  <2>1. CASE GiveUp
    BY <1>3, <2>1, GivingUp DEF FillTemp
  <2>2. CASE ~GiveUp
    <3>1. temp'.form = "encoded" /\ editing' = "spawn" /\ temp'.form \in Forms
      BY <1>3, <2>2 DEF FillTemp
    <3>2. UNCHANGED <<origVal, editedVal, changes, shown, told, exited>> /\ exited = "none"
      BY <1>3, <2>2 DEF FillTemp
    <3>3. EditTypeOK'
      BY <3>1, <3>2
    <3>4. EditedIsRead'
      BY <3>1, <3>2
    <3>5. editing # "return" /\ editing # "failed"
      BY <1>3 DEF FillTemp
    <3> QED
      BY <3>1, <3>2, <3>3, <3>4, <3>5
  <2> QED
    BY <2>1, <2>2
<1>4. CASE Spawn
  <2>1. CASE GiveUp
    BY <1>4, <2>1, GivingUp DEF Spawn
  <2>2. CASE ~GiveUp
    BY <1>4, <2>2 DEF Spawn
  <2> QED
    BY <2>1, <2>2
<1>5. CASE Save
  BY <1>5 DEF Save
<1>6. CASE EditorExits
  <2>1. CASE GiveUp
    BY <1>6, <2>1, GivingUp DEF EditorExits
  <2>2. CASE ~GiveUp
    BY <1>6, <2>2 DEF EditorExits
  <2> QED
    BY <2>1, <2>2
<1>7. CASE ReadBack
  <2>1. CASE GiveUp
    BY <1>7, <2>1, GivingUp DEF ReadBack
  <2>2. CASE ~GiveUp
    BY <1>7, <2>2 DEF ReadBack
  <2> QED
    BY <2>1, <2>2
<1>8. CASE DecodeEdited
  <2>1. CASE GiveUp
    BY <1>8, <2>1, GivingUp DEF DecodeEdited
  <2>2. CASE ~GiveUp
    BY <1>8, <2>2 DEF DecodeEdited
  <2> QED
    BY <2>1, <2>2
<1>9. CASE DiffEdited
  <2>1. Len(changes') <= MaxChanges
    BY <1>9, DiffIsBounded DEF DiffEdited
  <2> QED
    BY <1>9, <2>1 DEF DiffEdited
<1>10. CASE Preview
  <2>1. CASE GiveUp
    BY <1>10, <2>1, GivingUp DEF Preview
  <2>2. CASE ~GiveUp
    BY <1>10, <2>2 DEF Preview
  <2> QED
    BY <2>1, <2>2
<1>11. CASE ReturnEdit
  BY <1>11 DEF ReturnEdit, RemoveTemp
<1>12. CASE KillEdit
  BY <1>12 DEF KillEdit
<1>13. CASE UNCHANGED editVars
  BY <1>13 DEF editVars
<1> QED
  BY <1>1, <1>2, <1>3, <1>4, <1>5, <1>6, <1>7, <1>8, <1>9, <1>10, <1>11, <1>12, <1>13
     DEF EditNext

(* The editing of a file keeps EditIInv, for all documents and edits.      *)
THEOREM EditInvariant == EditSpec => []EditIInv
  BY EditStarts, EditStep, PTL DEF EditSpec

(* It is well typed, and what it suggests is bounded (runEdit, Diff).      *)
THEOREM EditTypes == EditSpec => []EditTypeOK
<1>1. EditIInv => EditTypeOK
  BY DEF EditIInv
<1> QED
  BY <1>1, EditInvariant, PTL

(* Wherever it fails, its status, its output and its diagnostics agree,    *)
(* and the copy of the document does not stay (runEdit).                   *)
THEOREM EditsAreHonest == EditSpec => []EditIsHonest
<1>1. EditIInv => EditIsHonest
  BY DEF EditIInv, EditIsHonest
<1> QED
  BY <1>1, EditInvariant, PTL
=============================================================================
