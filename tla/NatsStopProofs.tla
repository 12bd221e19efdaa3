--------------------------- MODULE NatsStopProofs ---------------------------
(***************************************************************************)
(* Proofs about the stop owner (NatsStop), for every set of callers: its   *)
(* types, its two safety invariants and that it implements StopDecision.   *)
(***************************************************************************)
EXTENDS NatsStop, TLAPS

(* SentenceHolds is not inductive: TimerCheck reads the reason, so a       *)
(* running watchdog must imply a decision.                                 *)
ArmedByDecision == timer # "off" => reason # ""

StopIInv == /\ StopTypeOK
            /\ ArmedByDecision
            /\ SentenceHolds
            /\ DecisionIsActedOn

-----------------------------------------------------------------------------
(* What the parts of the actions do to reason, timer and owes. *)

(* 130 is the status of a cancellation and of nothing else. *)
LEMMA OnlyCancelIs130 == \A r : CodeOf(r) = 130 <=> r = "cancel"
  BY DEF CodeOf

(* The locked body of request takes a decision only if there is none, and  *)
(* arms the watchdog with it.                                              *)
LEMMA SettleDecides ==
  ASSUME StopTypeOK, NEW r \in Reasons \ {""}, Settle(r)
  PROVE  \/ reason # "" /\ reason' = reason /\ timer' = timer
         \/ finished /\ reason' = reason /\ timer' = timer
         \/ /\ reason = "" /\ ~finished /\ reason' = r
            /\ timer' = IF hook THEN "armed" ELSE timer
  BY DEF StopTypeOK, Settle, Reasons

(* The three ways to ask the owner, and what they have in common. *)
LEMMA AskSettles ==
  ASSUME StopTypeOK, NEW c \in Callers, NEW r \in Reasons \ {""},
         Ask(c, r), owes[c] # "cancel"
  PROVE  /\ Settle(r)
         /\ UNCHANGED <<hook, parent, finished, ctxDone, killed>>
         /\ owes' \in [Callers -> Debts]
         /\ finished \/ owes'[c] = "cancel"
         /\ \A d \in Callers : owes[d] = "cancel" => owes'[d] = "cancel"
<1>1. Settle(r) /\ UNCHANGED <<hook, parent, finished, ctxDone, killed>>
  BY DEF Ask, world
<1>2. owes' = [owes EXCEPT ![c] = IF finished THEN "nothing" ELSE "cancel"]
  BY DEF Ask, Owe
<1>3. owes \in [Callers -> Debts] /\ finished \in BOOLEAN
  BY DEF StopTypeOK
<1>4. owes' \in [Callers -> Debts]
  BY <1>2, <1>3 DEF Debts
<1>5. finished \/ owes'[c] = "cancel"
  BY <1>2, <1>3
<1>6. \A d \in Callers : owes[d] = "cancel" => owes'[d] = "cancel"
  BY <1>2, <1>3
<1> QED BY <1>1, <1>4, <1>5, <1>6

(* request preserves the invariant, whoever calls it and whatever for. *)
LEMMA AskKeepsIInv ==
  ASSUME StopIInv, NEW c \in Callers, NEW r \in Reasons \ {""},
         Ask(c, r), owes[c] # "cancel", watch' \in {"set", "run", "stopped"}
  PROVE  StopIInv'
<1> USE DEF StopIInv
<1>1. /\ Settle(r)
      /\ UNCHANGED <<hook, parent, finished, ctxDone, killed>>
      /\ owes' \in [Callers -> Debts]
      /\ finished \/ owes'[c] = "cancel"
      /\ \A d \in Callers : owes[d] = "cancel" => owes'[d] = "cancel"
  BY AskSettles
<1>2. \/ reason # "" /\ reason' = reason /\ timer' = timer
      \/ finished /\ reason' = reason /\ timer' = timer
      \/ /\ reason = "" /\ ~finished /\ reason' = r
         /\ timer' = IF hook THEN "armed" ELSE timer
  BY <1>1, SettleDecides
<1>3. StopTypeOK'
  <2>1. reason' \in Reasons /\ timer' \in Timers
    <3>1. timer \in Timers /\ "armed" \in Timers /\ reason \in Reasons
      BY DEF StopTypeOK, Timers
    <3> QED BY <1>2, <3>1
  <2>2. /\ hook' \in BOOLEAN /\ parent' \in {"live", "cancelled"}
        /\ finished' \in BOOLEAN /\ ctxDone' \in BOOLEAN /\ killed' \in {NoExit, 1, 130}
    BY <1>1 DEF StopTypeOK
  <2> QED BY <1>1, <2>1, <2>2 DEF StopTypeOK
<1>4. ArmedByDecision'
  BY <1>2 DEF ArmedByDecision
<1>5. SentenceHolds'
  BY <1>2 DEF SentenceHolds, ArmedByDecision
<1>6. DecisionIsActedOn'
  <2> SUFFICES ASSUME reason' # ""
               PROVE  /\ hook' => timer' # "off"
                      /\ ctxDone' \/ \E d \in Callers : owes'[d] = "cancel"
    BY DEF DecisionIsActedOn
  <2>1. hook' => timer' # "off"
    BY <1>1, <1>2 DEF DecisionIsActedOn
  <2>2. CASE reason = ""
    BY <1>1, <1>2, <2>2
  <2>3. CASE reason # ""
    BY <1>1, <2>1, <2>3 DEF DecisionIsActedOn
  <2> QED BY <2>1, <2>2, <2>3
<1> QED BY <1>3, <1>4, <1>5, <1>6

-----------------------------------------------------------------------------
(* A step that only moves the debts of a goroutine that does not have to   *)
(* cancel anything, or that pays the debt, keeps the decision acted on.    *)
LEMMA DebtsKeepActedOn ==
  ASSUME StopTypeOK, DecisionIsActedOn, NEW c \in Callers, NEW d \in Debts,
         Owe(c, d), owes[c] # "cancel" \/ ctxDone' \/ d = "cancel",
         ctxDone => ctxDone', reason' # "" => reason # "", hook' = hook,
         timer # "off" => timer' # "off"
  PROVE  DecisionIsActedOn' /\ owes' \in [Callers -> Debts]
<1>1. owes \in [Callers -> Debts] /\ owes' = [owes EXCEPT ![c] = d]
  BY DEF StopTypeOK, Owe
<1>2. owes' \in [Callers -> Debts]
  BY <1>1
<1>3. \A e \in Callers : owes[e] = "cancel" /\ ~ctxDone' => owes'[e] = "cancel"
  BY <1>1
<1>4. DecisionIsActedOn'
  BY <1>3 DEF DecisionIsActedOn
<1> QED BY <1>2, <1>4

(* The initial state satisfies the invariant. *)
LEMMA InitIInv == StopInit => StopIInv
  BY DEF StopInit, StopIInv, StopTypeOK, ArmedByDecision, SentenceHolds,
         DecisionIsActedOn, Reasons, Timers, Debts, NoExit

(* Every step preserves the invariant. *)
LEMMA NextIInv == StopIInv /\ [StopNext]_stopVars => StopIInv'
<1> SUFFICES ASSUME StopIInv, [StopNext]_stopVars
             PROVE  StopIInv'
  OBVIOUS
<1>t. StopTypeOK /\ ArmedByDecision /\ SentenceHolds /\ DecisionIsActedOn
  BY DEF StopIInv
<1>m. Main \in Callers /\ Watcher \in Callers
  BY CallersAssumption
<1>1. ASSUME NEW c \in Callers, Incomplete(c)
      PROVE  StopIInv'
  <2>1. DecisionIsActedOn' /\ owes' \in [Callers -> Debts]
    BY <1>t, <1>1, DebtsKeepActedOn
       DEF Incomplete, Free, Downgrade, Debts, Normal, StopTypeOK, world
  <2>2. StopTypeOK'
    <3>1. reason' \in Reasons
      BY <1>t, <1>1 DEF Incomplete, Downgrade, StopTypeOK, Reasons
    <3>2. UNCHANGED <<hook, parent, watch, finished, timer, ctxDone, killed>>
      BY <1>1 DEF Incomplete, world
    <3> QED BY <1>t, <2>1, <3>1, <3>2 DEF StopTypeOK
  <2>3. ArmedByDecision' /\ SentenceHolds'
    BY <1>t, <1>1 DEF Incomplete, Downgrade, Normal, ArmedByDecision, SentenceHolds
  <2> QED BY <2>1, <2>2, <2>3 DEF StopIInv
<1>2. ASSUME NEW c \in Callers, NEW r \in Reasons \ {""}, Request(c, r)
      PROVE  StopIInv'
  BY <1>t, <1>2, AskKeepsIInv DEF Request, Free, StopTypeOK
<1>3. ASSUME NEW c \in Callers, IncompleteRequest(c)
      PROVE  StopIInv'
  BY <1>t, <1>3, AskKeepsIInv DEF IncompleteRequest, Owing, StopTypeOK, Reasons
<1>4. ASSUME NEW c \in Callers, CancelCtx(c)
      PROVE  StopIInv'
  <2>1. DecisionIsActedOn' /\ owes' \in [Callers -> Debts]
    BY <1>t, <1>4, DebtsKeepActedOn DEF CancelCtx, Debts, world
  <2>2. UNCHANGED <<hook, parent, watch, reason, finished, timer, killed>> /\ ctxDone' = TRUE
    BY <1>4 DEF CancelCtx, world
  <2>3. StopTypeOK'
    BY <1>t, <2>1, <2>2 DEF StopTypeOK
  <2>4. ArmedByDecision' /\ SentenceHolds'
    BY <1>t, <2>2 DEF ArmedByDecision, SentenceHolds
  <2> QED BY <2>1, <2>3, <2>4 DEF StopIInv
<1>5. CASE Override
  <2>1. /\ UNCHANGED <<hook, parent, watch, finished, timer, ctxDone, killed, owes>>
        /\ reason # "" /\ reason' = (IF reason = "cancel" THEN reason ELSE "failure")
    BY <1>5, OnlyCancelIs130 DEF Override, Rewrite, world
  <2>2. StopTypeOK'
    <3>1. reason' \in Reasons
      BY <1>t, <2>1 DEF Reasons, StopTypeOK
    <3>2. UNCHANGED <<hook, parent, watch, finished, timer, ctxDone, killed, owes>>
      BY <2>1
    <3> QED BY <1>t, <3>1, <3>2 DEF StopTypeOK
  <2>3. ArmedByDecision' /\ SentenceHolds'
    BY <1>t, <2>1 DEF ArmedByDecision, SentenceHolds
  <2>4. DecisionIsActedOn'
    BY <1>t, <2>1 DEF DecisionIsActedOn
  <2> QED BY <2>2, <2>3, <2>4 DEF StopIInv
<1>6. CASE Finish
  <2>1. DecisionIsActedOn' /\ owes' \in [Callers -> Debts]
    BY <1>t, <1>m, <1>6, DebtsKeepActedOn DEF Finish, StopTimer, Debts, world
  <2>2. /\ UNCHANGED <<hook, parent, reason, ctxDone, killed>>
        /\ finished' = TRUE /\ watch' \in {watch, "stopped"}
        /\ timer' = timer \/ (timer = "armed" /\ timer' = "over")
    BY <1>6 DEF Finish, StopTimer, world
  <2>3. StopTypeOK'
    BY <1>t, <2>1, <2>2 DEF StopTypeOK, Timers
  <2>4. ArmedByDecision' /\ SentenceHolds'
    BY <1>t, <2>2 DEF ArmedByDecision, SentenceHolds
  <2> QED BY <2>1, <2>3, <2>4 DEF StopIInv
<1>7. CASE ParentCancel \/ Propagate
  <2>0. /\ UNCHANGED <<hook, watch, reason, finished, timer, killed, owes>>
        /\ ctxDone' \in {ctxDone, TRUE} /\ parent' \in {parent, "cancelled"}
    BY <1>7 DEF ParentCancel, Propagate, world
  <2>1. StopTypeOK'
    <3>1. parent' \in {"live", "cancelled"} /\ ctxDone' \in BOOLEAN
      BY <1>t, <2>0 DEF StopTypeOK
    <3> QED BY <1>t, <2>0, <3>1 DEF StopTypeOK
  <2>2. ArmedByDecision' /\ SentenceHolds'
    BY <1>t, <2>0 DEF ArmedByDecision, SentenceHolds
  <2>3. DecisionIsActedOn'
    <3>1. ctxDone => ctxDone'
      BY <2>0
    <3> QED BY <1>t, <2>0, <3>1 DEF DecisionIsActedOn
  <2> QED BY <2>1, <2>2, <2>3 DEF StopIInv
<1>8. CASE WatcherRuns
  <2>1. /\ Ask(Watcher, "cancel") /\ owes[Watcher] # "cancel"
        /\ watch' \in {"set", "run", "stopped"}
    BY <1>8 DEF WatcherRuns, Free
  <2>2. "cancel" \in Reasons \ {""}
    BY DEF Reasons
  <2> QED BY <2>1, <2>2, <1>m, AskKeepsIInv
<1>9. CASE TimerDue
  <2>1. /\ timer = "armed" /\ timer' = "due"
        /\ UNCHANGED <<hook, parent, watch, reason, finished, ctxDone, killed, owes>>
    BY <1>9 DEF TimerDue, Tick, world
  <2>2. StopTypeOK'
    <3>1. timer' \in Timers
      BY <2>1 DEF Timers
    <3> QED BY <1>t, <2>1, <3>1 DEF StopTypeOK
  <2>3. ArmedByDecision' /\ SentenceHolds'
    BY <1>t, <2>1 DEF ArmedByDecision, SentenceHolds
  <2>4. DecisionIsActedOn'
    BY <1>t, <2>1 DEF DecisionIsActedOn
  <2> QED BY <2>2, <2>3, <2>4 DEF StopIInv
<1>10. CASE TimerCheck
  <2>1. /\ timer = "due" /\ timer' = Sentence
        /\ UNCHANGED <<hook, parent, watch, reason, finished, ctxDone, killed, owes>>
    BY <1>10 DEF TimerCheck, Tick, world
  <2>2. \/ timer' = "over"
        \/ timer' = "exit1" /\ reason # "cancel"
        \/ timer' = "exit130" /\ reason = "cancel"
    BY <2>1, OnlyCancelIs130 DEF Sentence
  <2>3. StopTypeOK'
    BY <1>t, <2>1, <2>2 DEF StopTypeOK, Timers
  <2>4. ArmedByDecision' /\ SentenceHolds'
    BY <1>t, <2>1, <2>2 DEF ArmedByDecision, SentenceHolds
  <2>5. DecisionIsActedOn'
    BY <1>t, <2>1, <2>2 DEF DecisionIsActedOn
  <2> QED BY <2>3, <2>4, <2>5 DEF StopIInv
<1>11. CASE TimerExit
  <2>1. /\ UNCHANGED <<hook, parent, watch, reason, finished, timer, ctxDone, owes>>
        /\ killed' \in {1, 130}
    BY <1>11 DEF TimerExit, world
  <2>2. StopTypeOK'
    <3>1. killed' \in {NoExit, 1, 130}
      BY <2>1
    <3> QED BY <1>t, <2>1, <3>1 DEF StopTypeOK
  <2>3. ArmedByDecision' /\ SentenceHolds'
    BY <1>t, <2>1 DEF ArmedByDecision, SentenceHolds
  <2>4. DecisionIsActedOn'
    BY <1>t, <2>1 DEF DecisionIsActedOn
  <2> QED BY <2>2, <2>3, <2>4 DEF StopIInv
<1>12. CASE UNCHANGED stopVars
  <2>1. UNCHANGED <<hook, parent, watch, reason, finished, timer, ctxDone, killed, owes>>
    BY <1>12 DEF stopVars, world
  <2>2. StopTypeOK'
    BY <1>t, <2>1 DEF StopTypeOK
  <2>3. ArmedByDecision' /\ SentenceHolds'
    BY <1>t, <2>1 DEF ArmedByDecision, SentenceHolds
  <2>4. DecisionIsActedOn'
    BY <1>t, <2>1 DEF DecisionIsActedOn
  <2> QED BY <2>2, <2>3, <2>4 DEF StopIInv
<1> QED
  BY <1>1, <1>2, <1>3, <1>4, <1>5, <1>6, <1>7, <1>8, <1>9, <1>10, <1>11, <1>12
     DEF StopNext, Call, Watchdog

(* The invariant holds in every reachable state. *)
THEOREM StopInvariant == StopSpec => []StopIInv
  BY InitIInv, NextIInv, PTL DEF StopSpec

(* The state of the owner is well typed. *)
THEOREM StopTypes == StopSpec => []StopTypeOK
  BY StopInvariant, PTL DEF StopIInv

(* A decision is never unguarded or unheard, for any number of callers     *)
(* (request, nats_stop.go).                                                *)
THEOREM DecisionsAreActedOn == StopSpec => []DecisionIsActedOn
  BY StopInvariant, PTL DEF StopIInv

(* What the watchdog read still is the decision when it exits.             *)
THEOREM SentencesHold == StopSpec => []SentenceHolds
  BY StopInvariant, PTL DEF StopIInv

-----------------------------------------------------------------------------
(* The refinement of StopDecision. *)

USE DEF Decision!NoExit, NoExit

(* A reason maps to a verdict. *)
LEMMA Verdicts ==
  ASSUME reason \in Reasons
  PROVE  /\ reason = "" => Verdict = "open"
         /\ reason \in Normal => Verdict = "success"
         /\ reason = "failure" => Verdict = "failure"
         /\ reason = "cancel" => Verdict = "cancelled"
  BY DEF Verdict, Reasons, Normal

(* A step changes the reason only to decide or to degrade, and seals, and  *)
(* exits, separately.                                                      *)
Deciding  == /\ ~finished /\ UNCHANGED <<finished, killed>>
             /\ \/ reason = "" /\ reason' \in Reasons \ {""}
                \/ reason \in Normal /\ reason' = "failure"
Sealing   == ~finished /\ finished' = TRUE /\ UNCHANGED <<reason, killed>>
Exiting   == /\ reason # "" /\ killed = NoExit
             /\ killed' = IF reason = "cancel" THEN 130 ELSE 1
             /\ UNCHANGED <<reason, finished>>
Otherwise == UNCHANGED <<reason, finished, killed>>

(* Each of these is a step of StopDecision, or none. *)
LEMMA DecisionSteps ==
  ASSUME reason \in Reasons, reason' \in Reasons,
         Deciding \/ Sealing \/ Exiting \/ Otherwise
  PROVE  [Decision!DecisionNext]_Decision!decisionVars
<1> USE DEF Decision!DecisionNext, Decision!decisionVars
<1>1. /\ reason' = "" => Verdict' = "open"
      /\ reason' \in Normal => Verdict' = "success"
      /\ reason' = "failure" => Verdict' = "failure"
      /\ reason' = "cancel" => Verdict' = "cancelled"
  BY DEF Verdict, Reasons, Normal
<1>2. ASSUME reason' = reason
      PROVE  Verdict' = Verdict
  BY <1>2 DEF Verdict
<1>3. CASE Deciding /\ reason = ""
  BY <1>1, <1>3, Verdicts DEF Deciding, Decision!Decide, Reasons, Normal
<1>4. CASE Deciding /\ reason # ""
  BY <1>1, <1>4, Verdicts DEF Deciding, Decision!Degrade
<1>5. CASE Sealing
  BY <1>2, <1>5 DEF Sealing, Decision!Seal
<1>6. CASE Exiting
  BY <1>2, <1>6, Verdicts DEF Exiting, Decision!Force, Decision!ForcedStatus,
                              Reasons, Normal
<1>7. CASE Otherwise
  BY <1>2, <1>7 DEF Otherwise
<1> QED BY <1>3, <1>4, <1>5, <1>6, <1>7

(* What a step of the owner is to StopDecision. *)
LEMMA StopSteps ==
  ASSUME StopIInv, [StopNext]_stopVars
  PROVE  Deciding \/ Sealing \/ Exiting \/ Otherwise
<1>t. StopTypeOK /\ ArmedByDecision /\ SentenceHolds
  BY DEF StopIInv
<1>1. ASSUME NEW c \in Callers, NEW r \in Reasons \ {""}, Ask(c, r)
      PROVE  Deciding \/ Otherwise
  <2>1. Settle(r) /\ UNCHANGED <<finished, killed>>
    BY <1>1 DEF Ask
  <2> QED BY <1>t, <2>1, SettleDecides DEF Deciding, Otherwise
<1>2. ASSUME NEW c \in Callers, Incomplete(c)
      PROVE  Deciding \/ Otherwise
  BY <1>t, <1>2 DEF Incomplete, Downgrade, Deciding, Otherwise, StopTypeOK
<1>3. ASSUME NEW c \in Callers, CancelCtx(c)
      PROVE  Otherwise
  BY <1>3 DEF CancelCtx, Otherwise
<1>4. CASE Override
  BY <1>t, <1>4, OnlyCancelIs130
     DEF Override, Rewrite, Deciding, Otherwise, StopTypeOK, Reasons
<1>5. CASE Finish
  BY <1>5 DEF Finish, Sealing
<1>6. CASE ParentCancel \/ Propagate \/ TimerDue \/ TimerCheck
  BY <1>6 DEF ParentCancel, Propagate, TimerDue, TimerCheck, Tick, Otherwise
<1>7. CASE WatcherRuns
  BY <1>1, <1>7, CallersAssumption DEF WatcherRuns, Reasons
<1>8. CASE TimerExit
  BY <1>t, <1>8 DEF TimerExit, SentenceHolds, Exiting
<1>9. CASE UNCHANGED stopVars
  BY <1>9 DEF stopVars, Otherwise
<1> QED
  BY <1>1, <1>2, <1>3, <1>4, <1>5, <1>6, <1>7, <1>8, <1>9
     DEF StopNext, Call, Request, IncompleteRequest, Watchdog, Reasons

(* However its callers interleave, the owner takes one decision, lets it   *)
(* only degrade, keeps it after finish, and exits with it (nats_stop.go).  *)
THEOREM StopRefinesDecision == StopSpec => ImplementsDecision
<1>1. StopInit => Decision!DecisionInit
  BY Verdicts DEF StopInit, Decision!DecisionInit, Reasons
<1>2. StopIInv /\ StopIInv' /\ [StopNext]_stopVars
        => [Decision!DecisionNext]_Decision!decisionVars
  BY StopSteps, DecisionSteps DEF StopIInv, StopTypeOK
<1> QED
  BY <1>1, <1>2, StopInvariant, PTL
     DEF StopSpec, ImplementsDecision, Decision!DecisionSpec
=============================================================================
