----------------------------- MODULE AtomicFile -----------------------------
(***************************************************************************)
(* What a write of WriteAtomic promises: the text of a file is replaced as *)
(* a whole, in one step, by the text the writer was called with; a write   *)
(* that fails changes nothing.  AtomicWrite implements this; Batch uses it *)
(* for each of its files.                                                  *)
(***************************************************************************)
CONSTANTS Writers, \* calls of WriteAtomic
          Files    \* regular files, after symbolic links are resolved

VARIABLES file,    \* file[f]: the text of f
          text,    \* text[w]: the bytes that w writes
          outcome  \* outcome[w]: "pending", "installed" or "refused"

atomicVars == <<file, text, outcome>>

Install(w, f) == /\ outcome[w] = "pending"
                 /\ file' = [file EXCEPT ![f] = text[w]]
                 /\ outcome' = [outcome EXCEPT ![w] = "installed"]
                 /\ UNCHANGED text

Refuse(w) == /\ outcome[w] = "pending"
             /\ outcome' = [outcome EXCEPT ![w] = "refused"]
             /\ UNCHANGED <<file, text>>

AtomicNext == \E w \in Writers : Refuse(w) \/ \E f \in Files : Install(w, f)

AtomicInit == outcome = [w \in Writers |-> "pending"]

AtomicSpec == AtomicInit /\ [][AtomicNext]_atomicVars
=============================================================================
