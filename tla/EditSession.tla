---------------------------- MODULE EditSession ----------------------------
(***************************************************************************)
(* --edit (run/edit.go): a file is decoded and written to a temporary      *)
(* file, an editor changes that, and what was changed (diff/diff.go) is    *)
(* suggested as a query.  The program may be killed at any moment, and     *)
(* every call may fail but for the removal of the temporary file and the   *)
(* writes to stdout, whose errors are ignored.  What a document is, and    *)
(* what lies between two of them, is left to Edit.                         *)
(***************************************************************************)
EXTENDS Integers, Sequences

CONSTANTS Originals,   \* what the file may hold
          Edits,       \* what the user may make of it
          NoValue,     \* what stands for a value where there is none
          Walk(_, _),  \* the changes that walkDiff finds between two values
          MaxChanges   \* maxChanges

ASSUME EditAssumption ==
  /\ MaxChanges \in Nat \ {0}
  /\ \A v \in Originals, w \in Edits : Len(Walk(v, w)) \in Nat

VARIABLES
  editing,     \* the next step of runEdit
  origVal,     \* what the temporary file is made from
  temp,        \* the temporary file: NoFile, or a value and a form
  editedVal,
  changes,     \* what Diff found
  shown,       \* on stdout: "nothing", "no change" or "suggestion"
  told,        \* errors on stderr
  exited       \* the status, "killed" or "none"

editVars == <<editing, origVal, temp, editedVal, changes, shown, told, exited>>

NoFile == [form |-> "none", value |-> NoValue]
TempFile(form, v) == [form |-> form, value |-> v]
Forms  == {"encoded", "other", "empty", "garbage", "partial"}
EditSteps == {"tty", "read", "create", "write", "spawn", "editor", "back", "decode",
              "diff", "preview", "return", "failed"}

EditTypeOK ==
  /\ editing \in EditSteps /\ temp.form \in Forms \cup {"none"} /\ Len(changes) <= MaxChanges
  /\ shown \in {"nothing", "no change", "suggestion"} /\ told \in 0..1
  /\ exited \in {"none", "0", "1", "killed"}

EditInit == /\ editing = "tty" /\ origVal \in Originals /\ temp = NoFile
            /\ editedVal = NoValue /\ changes = <<>>
            /\ shown = "nothing" /\ told = 0 /\ exited = "none"

Now(s)      == editing = s /\ exited = "none"
Proceed(s)  == editing' = s
Continue(s) == Proceed(s) /\ UNCHANGED <<origVal, temp, editedVal, changes, shown, told, exited>>

(* An error is told and the status is 1; the temporary file is removed if  *)
(* there is one.                                                           *)
GiveUp == /\ told' = told + 1 /\ Proceed("failed")
          /\ UNCHANGED <<origVal, temp, editedVal, changes, shown, exited>>

(* TTY, format, open and read, decode, encode. *)
Prepare == \/ Now("tty") /\ (GiveUp \/ Continue("read"))
           \/ Now("read") /\ (GiveUp \/ Continue("create"))

MakeTemp == /\ Now("create")
            /\ \/ GiveUp
               \/ /\ temp' = TempFile("partial", NoValue) /\ Proceed("write")
                  /\ UNCHANGED <<origVal, editedVal, changes, shown, told, exited>>

FillTemp == /\ Now("write")
            /\ \/ GiveUp
               \/ /\ temp' = TempFile("encoded", origVal) /\ Proceed("spawn")
                  /\ UNCHANGED <<origVal, editedVal, changes, shown, told, exited>>

Spawn == Now("spawn") /\ (GiveUp \/ Continue("editor"))

(* The editor, a process of its own: it saves what it likes, or renames or *)
(* removes the file, and exits.                                            *)
Save == /\ Now("editor") /\ temp = TempFile("encoded", origVal)
        /\ \/ \E v \in Edits : temp' = TempFile("other", v)
           \/ \E form \in {"empty", "garbage"} : temp' = TempFile(form, NoValue)
           \/ temp' = NoFile
        /\ UNCHANGED <<editing, origVal, editedVal, changes, shown, told, exited>>

EditorExits == Now("editor") /\ (GiveUp \/ Continue("back"))

ReadBack == /\ Now("back")
            /\ \/ GiveUp
               \/ /\ temp.form = "encoded"
                  /\ shown' = "no change" /\ Proceed("return")
                  /\ UNCHANGED <<origVal, temp, editedVal, changes, told, exited>>
               \/ temp.form \in {"garbage", "other"} /\ Continue("decode")

DecodeEdited == /\ Now("decode")
                /\ IF temp.form = "garbage" THEN GiveUp
                   ELSE /\ editedVal' = temp.value /\ Proceed("diff")
                        /\ UNCHANGED <<origVal, temp, changes, shown, told, exited>>

(* A change is its path, which is a sequence of fields and indices, and    *)
(* the new value; if there are too many, one replaces the root, at Dot.    *)
Field(k) == [key |-> k, at |-> 0]
Dot      == <<Field(".")>>
Change(p, v) == [path |-> p, new |-> v, deleted |-> FALSE]

BugNoFallback(b, a) == Walk(b, a)
Diff(b, a) == IF Len(Walk(b, a)) > MaxChanges THEN <<Change(Dot, a)>> ELSE Walk(b, a)

DiffEdited == /\ Now("diff")
              /\ changes' = Diff(origVal, editedVal) /\ Proceed("preview")
              /\ UNCHANGED <<origVal, temp, editedVal, shown, told, exited>>

(* encodeDisplayValue may fail; Format ignores the errors of its writes. *)
Preview == /\ Now("preview")
           /\ \/ GiveUp
              \/ /\ shown' = "suggestion" /\ Proceed("return")
                 /\ UNCHANGED <<origVal, temp, editedVal, changes, told, exited>>

(* The deferred os.Remove, and execute. *)
BugRemovesAtTheEnd == temp' = IF editing = "return" THEN NoFile ELSE temp
RemoveTemp == temp' = NoFile

ReturnEdit == /\ exited = "none" /\ editing \in {"return", "failed"}
              /\ RemoveTemp
              /\ exited' = IF editing = "failed" THEN "1" ELSE "0"
              /\ UNCHANGED <<editing, origVal, editedVal, changes, shown, told>>

KillEdit == /\ exited = "none" /\ exited' = "killed"
            /\ UNCHANGED <<editing, origVal, temp, editedVal, changes, shown, told>>

EditNext == Prepare \/ MakeTemp \/ FillTemp \/ Spawn \/ Save \/ EditorExits \/ ReadBack
            \/ DecodeEdited \/ DiffEdited \/ Preview \/ ReturnEdit \/ KillEdit

EditSpec == EditInit /\ [][EditNext]_editVars
-----------------------------------------------------------------------------
(* The status is 0 for an answer on stdout and an editor that left a file  *)
(* to read; 1 for a diagnostic, and nothing on stdout; in both cases the   *)
(* copy of the user's document is gone from the temporary directory        *)
(* (runEdit).                                                              *)
EditIsHonest ==
  /\ exited = "0" => shown # "nothing" /\ told = 0
  /\ exited = "1" => shown = "nothing" /\ told = 1
  /\ exited \in {"0", "1"} => temp = NoFile
=============================================================================
