---------------------------- MODULE StopDecision ----------------------------
(***************************************************************************)
(* What the stop owner of one observation promises to everybody who asks   *)
(* it: one verdict, taken once.  A verdict of success may still degrade to *)
(* a failure while the observation is being torn down; a failure and a     *)
(* cancellation are final, and after the owner is sealed nothing changes.  *)
(* A forced process exit needs a verdict and reports it: 130 for a         *)
(* cancellation, 1 for everything else, never 0.                           *)
(*                                                                         *)
(* NatsStop implements this specification (see Decision there).            *)
(***************************************************************************)
EXTENDS Integers

VARIABLES verdict,  \* "open", "success", "failure" or "cancelled"
          sealed,   \* the owner takes no further request
          ended     \* exit status of a forced exit, NoExit before one

decisionVars == <<verdict, sealed, ended>>

NoExit == -1

ForcedStatus(v) == IF v = "cancelled" THEN 130 ELSE 1

DecisionInit == /\ verdict = "open"
                /\ sealed = FALSE
                /\ ended = NoExit

(* The first request decides. *)
Decide(v) == /\ verdict = "open"
             /\ ~sealed
             /\ verdict' = v
             /\ UNCHANGED <<sealed, ended>>

(* A success found to be incomplete becomes a failure. *)
Degrade == /\ verdict = "success"
           /\ ~sealed
           /\ verdict' = "failure"
           /\ UNCHANGED <<sealed, ended>>

Seal == /\ ~sealed
        /\ sealed' = TRUE
        /\ UNCHANGED <<verdict, ended>>

(* The watchdog may still win against a seal that came too late for it. *)
Force == /\ verdict # "open"
         /\ ended = NoExit
         /\ ended' = ForcedStatus(verdict)
         /\ UNCHANGED <<verdict, sealed>>

DecisionNext == \/ \E v \in {"success", "failure", "cancelled"} : Decide(v)
                \/ Degrade
                \/ Seal
                \/ Force

DecisionSpec == DecisionInit /\ [][DecisionNext]_decisionVars
=============================================================================
