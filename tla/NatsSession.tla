---------------------------- MODULE NatsSession ----------------------------
(***************************************************************************)
(* What an observation may rely on in a session (the Session interface of  *)
(* natsinspect, with the onFailure callback given to open): a failure is   *)
(* latched once and told once, it never stems from the session's own       *)
(* close, and trouble that came before anybody stopped the session is      *)
(* latched when Close returns.  NatsClient implements this; NatsObserve    *)
(* uses it.                                                                *)
(***************************************************************************)
VARIABLES
  sessionDone,  \* the context given to open is done
  life,         \* "opening", "open", "failed" (to open) or "closed"
  harm,         \* trouble from outside: "none", or found "late" or "early"
  failure,      \* the session has failed
  told,         \* onFailure: "no", "due", "yes"
  got           \* what the last Next returned

sessionVars == <<sessionDone, life, harm, failure, told, got>>

Results == {"none", "message", "empty", "exhausted", "cancelled", "failed",
            "broken"}

SessionInit == /\ sessionDone = FALSE
               /\ life = "opening" /\ harm = "none"
               /\ failure = FALSE /\ told = "no" /\ got = "none"

(* The context ends. *)
SessionEnds == /\ ~sessionDone /\ sessionDone' = TRUE
               /\ UNCHANGED <<life, harm, failure, told, got>>

(* Trouble, early or late. *)
Suffer == /\ harm' \in {"early", "late"}
          /\ harm = "early" => harm' = "early"
          /\ harm' = "early" /\ harm # "early"
               => ~sessionDone /\ life \in {"opening", "open"}
          /\ UNCHANGED <<sessionDone, life, failure, told, got>>

Latch == /\ ~failure
         /\ harm # "none" \/ life \in {"opening", "failed"}
         /\ failure' = TRUE /\ told' = "due"
         /\ UNCHANGED <<sessionDone, life, harm, got>>

Tell == /\ told = "due" /\ told' = "yes"
        /\ UNCHANGED <<sessionDone, life, harm, failure, got>>

(* A session that failed without trouble does not open. *)
OpenReturns == /\ life = "opening"
               /\ \/ life' = "open" /\ (failure => harm # "none")
                  \/ life' = "failed"
               /\ UNCHANGED <<sessionDone, harm, failure, told, got>>

NextReturns == /\ life = "open"
               /\ \/ got' \in {"message", "empty", "exhausted"}
                  \/ got' = "cancelled" /\ sessionDone
                  \/ got' = "failed" /\ failure
                  \/ got' = "broken" /\ harm # "none"
               /\ UNCHANGED <<sessionDone, life, harm, failure, told>>

CloseReturns == /\ life = "open" /\ life' = "closed"
                /\ harm = "early" => failure
                /\ UNCHANGED <<sessionDone, harm, failure, told, got>>

SessionNext == SessionEnds \/ Suffer \/ Latch \/ Tell \/ OpenReturns
               \/ NextReturns \/ CloseReturns

SessionSpec == SessionInit /\ [][SessionNext]_sessionVars
=============================================================================
