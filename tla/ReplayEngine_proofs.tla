-------------------------- MODULE ReplayEngine_proofs --------------------------
(***************************************************************************)
(* Proofs about ReplayEngine, for every capability, every set of recovery   *)
(* rules and every setting of the caller's two flags.                       *)
(***************************************************************************)
EXTENDS ReplayEngine, TLAPS

LEMMA StepNumbers ==
  /\ Len(Plan) \in Nat \ {0}
  /\ 1 \in Steps
  /\ \A i \in 1 .. Len(Plan) + 1 : i \in Steps \/ i = Len(Plan) + 1
  /\ \A i \in Steps : i + 1 \in 1 .. Len(Plan) + 1 /\ i \in 1 .. Len(Plan) + 1
  BY PlanAssumption DEF Steps

LEMMA InitTypeOK == Init => TypeOK
<1> SUFFICES ASSUME Init PROVE TypeOK
  OBVIOUS
<1>1. ConsoleTypeOK(Steps)
  BY DEF Init, ConsoleInit, ConsoleTypeOK, NoRequest, Urls, Holders, Snapshots
<1>2. EngineTypeOK
  BY StepNumbers, RulesAssumption
  DEF Init, EngineTypeOK, Pcs, Origins, ReportStatus
<1> QED BY <1>1, <1>2 DEF TypeOK

LEMMA RaiseTypeOK ==
  ASSUME NEW steps, NEW r \in Reasons, NEW s \in steps, ConsoleTypeOK(steps),
         RaiseIntervention(r, s)
  PROVE  ConsoleTypeOK(steps)'
  BY DEF ConsoleTypeOK, RaiseIntervention, Requests, Holders, Snapshots

LEMMA OperatorTypeOK ==
  ASSUME NEW steps, ConsoleTypeOK(steps), request # NoRequest,
         OperatorCommand \/ ReturnControl
  PROVE  ConsoleTypeOK(steps)'
<1>1. CASE OperatorCommand
  BY <1>1 DEF ConsoleTypeOK, OperatorCommand, Look, Goto, Operate, OperateFails,
              Snapshots, Consulted
<1>2. CASE ReturnControl
  <2>1. PICK r \in Resolutions : EndHandoff(r)
    BY <1>2 DEF ReturnControl
  <2>2. request' \in Requests(steps)
    BY <2>1 DEF EndHandoff, ConsoleTypeOK, Requests
  <2>3. ivLog' \in Seq(Requests(steps))
    BY <2>1, <2>2 DEF EndHandoff, ConsoleTypeOK
  <2>4. ivFile' \in [Reasons -> Requests(steps) \cup {NoRequest}]
    BY <2>1, <2>2 DEF EndHandoff, ConsoleTypeOK
  <2> QED BY <2>1, <2>2, <2>3, <2>4
          DEF EndHandoff, ConsoleTypeOK, Holders, Snapshots
<1> QED BY <1>1, <1>2
--------------------------------------------------------------------------------
(***************************************************************************)
(* The inductive invariant.  RiskyNeedsApproval is not inductive: nothing   *)
(* in it says that the engine reaches "act" with an approval in hand.  The  *)
(* parts below tie the place of the engine's thread to the console's log.   *)
(***************************************************************************)

\* Inside a step: there is a step to run.
InStep ==
  pc \notin {"validate", "entry", "begin", "done"} => step \in Steps

\* The current step has not been carried out yet.
NotYet ==
  \/ pc \in {"validate", "entry", "begin", "resolve", "gate", "confirm",
             "confirming", "act"}
  \/ pc \in {"classify", "recheck", "failing"} /\ origin = "resolve"

ActsInOrder ==
  \A s \in Steps :
    /\ acts[s] \in {0, 1}
    /\ s > step => acts[s] = 0
    /\ s = step /\ NotYet => acts[s] = 0

\* Only an engine that waits for an answer has ceded the page; the answer it
\* waits for is the last one asked for, and the last one logged.
HandoffInv ==
  /\ holder = "human" => pc \in {"confirming", "failing"}
  /\ pc = "confirming" =>
       /\ request.reason = "risky_action_confirmation"
       /\ request.step = step
       /\ holder = "automation" =>
            Len(ivLog) > 0 /\ ivLog[Len(ivLog)] = request
  /\ pc = "failing" =>
       request.reason = "replay_hard_failure"
  /\ pc \in {"confirm", "confirming"} => NeedsPerson

ActApproved ==
  pc = "act" /\ NeedsPerson => \E k \in 1 .. Len(ivLog) : ApprovedFor(k, step)

\* A refusal is in the log only when the engine has been told and is about to
\* fail, or has failed.
RefusalSeen ==
  (\E k \in 1 .. Len(ivLog) : Refusal(k)) =>
    \/ pc = "confirming" /\ holder = "automation"
         /\ request.resolution # "approved" /\ result = "none"
    \/ pc = "done" /\ result = "hard_failure"

RunningInv == pc = "done" <=> result # "none"

IInv ==
  /\ TypeOK
  /\ InStep
  /\ ActsInOrder
  /\ HandoffInv
  /\ ActApproved
  /\ RiskyNeedsApproval
  /\ RefusalSeen
  /\ RunningInv

--------------------------------------------------------------------------------
(* Steps preserve the invariant, conjunct by conjunct. *)
\* The console's variables keep their types, whoever moves.
LEMMA NextConsoleTypeOK ==
  ASSUME IInv, [Next]_vars PROVE ConsoleTypeOK(Steps)'
<1> USE DEF place, ledger, control, consoleVars
<1>1. ConsoleTypeOK(Steps)
  BY DEF IInv, TypeOK
<1>2. CASE Operator
  <2>1. request # NoRequest
    BY <1>2 DEF Operator, OperatorCommand, Look, Goto, Operate, OperateFails,
                ReturnControl, EndHandoff, IInv, HandoffInv, NoRequest
  <2> QED BY <1>1, <1>2, <2>1, OperatorTypeOK DEF Operator
<1>3. CASE AskConfirmation \/ Escalate
  <2>1. step \in Steps
    BY <1>3 DEF AskConfirmation, Escalate, IInv, InStep
  <2> QED BY <1>1, <1>3, <2>1, RaiseTypeOK DEF AskConfirmation, Escalate, Reasons
<1>4. CASE OpenEntry \/ Act \/ ActRaises \/ \E r \in Rules : Recover(r)
  BY <1>1, <1>4 DEF OpenEntry, Act, ActRaises, Recover, ConsoleTypeOK
<1>5. CASE ValidateParams \/ BeginStep \/ Succeed \/ ResolveTarget \/ ResolveFails
           \/ CheckAction \/ Confirmed \/ FillMisread \/ VerifyHolds
           \/ VerifyFails \/ QueryRaises \/ BusinessOutcome \/ RecoveryExhausted
           \/ Recheck \/ Resumed \/ Fail \/ \E r \in Rules : RecoverRaises(r)
  BY <1>1, <1>5
  DEF ValidateParams, BeginStep, Succeed, ResolveTarget, ResolveFails, CheckAction,
      Confirmed, FillMisread, VerifyHolds, VerifyFails, QueryRaises, BusinessOutcome,
      RecoveryExhausted, Recheck, Resumed, Fail, RecoverRaises, ConsoleTypeOK
<1>6. CASE UNCHANGED vars
  BY <1>1, <1>6 DEF vars, ConsoleTypeOK
<1>7. CASE PageMoves
  BY <1>1, <1>7 DEF PageMoves, ConsoleTypeOK, Snapshots
<1> QED BY <1>2, <1>3, <1>4, <1>5, <1>6, <1>7 DEF Next, Engine, Terminated

\* Giving control back is the only thing that writes to the log, and it adds the
\* request as answered.
LEMMA LogGrows ==
  ASSUME ConsoleTypeOK(Steps), ConsoleTypeOK(Steps)', NEW r \in Resolutions,
         EndHandoff(r), request # NoRequest
  PROVE  /\ Len(ivLog) \in Nat
         /\ Len(ivLog') = Len(ivLog) + 1
         /\ ivLog'[Len(ivLog')] = request'
         /\ \A k \in 1 .. Len(ivLog) : ivLog'[k] = ivLog[k]
         /\ request' = [request EXCEPT !.resolution = r]
         /\ request \in Requests(Steps)
  BY DEF EndHandoff, ConsoleTypeOK, Requests

LEMMA OthersKeepLog ==
  ASSUME Engine \/ (Operator /\ OperatorCommand) \/ PageMoves \/ UNCHANGED vars
  PROVE  ivLog' = ivLog
  BY DEF Engine, ValidateParams, OpenEntry, BeginStep, Succeed, ResolveTarget,
      ResolveFails, CheckAction, AskConfirmation, Confirmed, Act, ActRaises,
      FillMisread, VerifyHolds, VerifyFails, QueryRaises, BusinessOutcome,
      RecoveryExhausted, Recover, RecoverRaises, Recheck, Escalate, Resumed, Fail,
      RaiseIntervention, Operator, OperatorCommand, Look, Goto, Operate,
      OperateFails, PageMoves, control, consoleVars, vars

\* The engine's own variables keep their types.
LEMMA NextEngineTypeOK ==
  ASSUME IInv, [Next]_vars PROVE EngineTypeOK'
<1> USE DEF Goes, place, ledger, control, consoleVars
<1>1. CASE ValidateParams
  BY <1>1, StepNumbers
  DEF ValidateParams, Leave, IInv, TypeOK, EngineTypeOK, InStep, Pcs, Origins,
      ReportStatus, Buckets, Exceptions
<1>2. CASE OpenEntry
  BY <1>2, StepNumbers
  DEF OpenEntry, Leave, IInv, TypeOK, EngineTypeOK, InStep, Pcs, Origins,
      ReportStatus, Buckets, Exceptions
<1>3. CASE BeginStep
  BY <1>3, StepNumbers
  DEF BeginStep, IInv, TypeOK, EngineTypeOK, InStep, Pcs, Origins,
      ReportStatus, Buckets, Exceptions
<1>4. CASE Succeed
  BY <1>4, StepNumbers
  DEF Succeed, Finish, IInv, TypeOK, EngineTypeOK, InStep, Pcs, Origins,
      ReportStatus, Buckets, Exceptions
<1>5. CASE ResolveTarget
  BY <1>5, StepNumbers
  DEF ResolveTarget, IInv, TypeOK, EngineTypeOK, InStep, Pcs, Origins,
      ReportStatus, Buckets, Exceptions
<1>6. CASE ResolveFails
  BY <1>6, StepNumbers
  DEF ResolveFails, Classify, IInv, TypeOK, EngineTypeOK, InStep, Pcs,
      Origins, ReportStatus, Buckets, Exceptions
<1>7. CASE CheckAction
  BY <1>7, StepNumbers
  DEF CheckAction, Leave, IInv, TypeOK, EngineTypeOK, InStep, Pcs, Origins,
      ReportStatus, Buckets, Exceptions
<1>8. CASE AskConfirmation
  BY <1>8, StepNumbers
  DEF AskConfirmation, RaiseIntervention, IInv, TypeOK, EngineTypeOK, InStep,
      Pcs, Origins, ReportStatus, Buckets, Exceptions
<1>9. CASE Confirmed
  BY <1>9, StepNumbers
  DEF Confirmed, HardFailure, Finish, IInv, TypeOK, EngineTypeOK, InStep, Pcs,
      Origins, ReportStatus, Buckets, Exceptions
<1>10. CASE Act
  BY <1>10, StepNumbers
  DEF Act, IInv, TypeOK, EngineTypeOK, InStep, Pcs, Origins, ReportStatus,
      Buckets, Exceptions
<1>11. CASE ActRaises
  <2>1. step \in Steps
    BY <1>11 DEF ActRaises, IInv, InStep
  <2>2. acts' \in [Steps -> Nat]
    BY <1>11, <2>1 DEF ActRaises, IInv, TypeOK, EngineTypeOK
  <2> QED
    BY <1>11, <2>2 DEF ActRaises, Classify, IInv, TypeOK, EngineTypeOK, Pcs, Origins
<1>12. CASE FillMisread
  <2>1. step \in Steps
    BY <1>12 DEF FillMisread, IInv, InStep
  <2>2. reports' \in [Steps -> ReportStatus]
    BY <1>12, <2>1 DEF FillMisread, HardFailure, IInv, TypeOK, EngineTypeOK,
                   ReportStatus
  <2> QED
    BY <1>12, <2>2 DEF FillMisread, HardFailure, Finish, IInv, TypeOK, EngineTypeOK,
                   Pcs, Buckets
<1>13. CASE VerifyHolds
  BY <1>13, StepNumbers
  DEF VerifyHolds, StepDone, IInv, TypeOK, EngineTypeOK, InStep, Pcs, Origins,
      ReportStatus, Buckets, Exceptions
<1>14. CASE VerifyFails
  BY <1>14, StepNumbers
  DEF VerifyFails, Classify, IInv, TypeOK, EngineTypeOK, InStep, Pcs, Origins,
      ReportStatus, Buckets, Exceptions
<1>15. CASE BusinessOutcome
  BY <1>15, StepNumbers
  DEF BusinessOutcome, Finish, IInv, TypeOK, EngineTypeOK, InStep, Pcs,
      Origins, ReportStatus, Buckets, Exceptions
<1>16. CASE RecoveryExhausted
  BY <1>16, StepNumbers
  DEF RecoveryExhausted, HardFailure, Finish, IInv, TypeOK, EngineTypeOK,
      InStep, Pcs, Origins, ReportStatus, Buckets, Exceptions
<1>17. CASE Recheck
  BY <1>17, StepNumbers
  DEF Recheck, ClassifiedAway, StepDone, HardFailure, Finish, IInv, TypeOK,
      EngineTypeOK, InStep, Pcs, Origins, ReportStatus, Buckets, Exceptions
<1>18. CASE Escalate
  BY <1>18, StepNumbers
  DEF Escalate, RaiseIntervention, IInv, TypeOK, EngineTypeOK, InStep, Pcs,
      Origins, ReportStatus, Buckets, Exceptions
<1>19. CASE Resumed
  <2>1. step \in Steps
    BY <1>19 DEF Resumed, IInv, InStep
  <2>2. reports' \in [Steps -> ReportStatus]
    BY <1>19, <2>1 DEF Resumed, HardFailure, IInv, TypeOK, EngineTypeOK, ReportStatus
  <2>3. verified' \in SUBSET Steps
    BY <1>19, <2>1 DEF Resumed, IInv, TypeOK, EngineTypeOK
  <2>4. UNCHANGED <<origin, counts, outputs, acts, strayed>>
    BY <1>19 DEF Resumed
  <2>5. CASE ClassifiedAway
    BY <2>1, <2>2, <2>3, <2>4, <2>5, StepNumbers
    DEF ClassifiedAway, StepDone, IInv, TypeOK, EngineTypeOK, Pcs
  <2>6. CASE HardFailure /\ UNCHANGED place
    BY <2>2, <2>3, <2>4, <2>6
    DEF HardFailure, Finish, IInv, TypeOK, EngineTypeOK, Pcs, Buckets
  <2> QED BY <1>19, <2>5, <2>6 DEF Resumed
<1>20. CASE Fail
  BY <1>20, StepNumbers
  DEF Fail, HardFailure, Finish, IInv, TypeOK, EngineTypeOK, InStep, Pcs,
      Origins, ReportStatus, Buckets, Exceptions
<1>21. ASSUME NEW r \in Rules, Recover(r) PROVE EngineTypeOK'
  <2>1. reports' \in [Steps -> ReportStatus]
    BY <1>21 DEF Recover, IInv, TypeOK, EngineTypeOK, InStep, ReportStatus
  <2>2. counts' \in [Rules -> Nat]
    BY <1>21 DEF Recover, IInv, TypeOK, EngineTypeOK
  <2> QED
    BY <1>21, <2>1, <2>2 DEF Recover, IInv, TypeOK, EngineTypeOK, Pcs
<1>22. ASSUME NEW r \in Rules, RecoverRaises(r) PROVE EngineTypeOK'
  BY <1>22, StepNumbers
  DEF RecoverRaises, Leave, IInv, TypeOK, EngineTypeOK, InStep, Pcs, Origins,
      ReportStatus, Buckets, Exceptions
<1>23. CASE Operator
  BY <1>23, StepNumbers
  DEF Operator, OperatorCommand, Look, Goto, Operate, OperateFails,
      ReturnControl, EndHandoff, engineVars, IInv, TypeOK, EngineTypeOK,
      InStep, Pcs, Origins, ReportStatus, Buckets, Exceptions
<1>24. CASE UNCHANGED vars
  BY <1>24, StepNumbers
  DEF vars, engineVars, IInv, TypeOK, EngineTypeOK, InStep, Pcs, Origins,
      ReportStatus, Buckets, Exceptions
<1>25. CASE QueryRaises
  BY <1>25, StepNumbers
  DEF QueryRaises, AsksUnguarded, Leave, IInv, TypeOK, EngineTypeOK, Pcs, Exceptions
<1>26. CASE PageMoves
  BY <1>26, StepNumbers DEF PageMoves, engineVars, IInv, TypeOK, EngineTypeOK
<1> QED BY <1>1, <1>2, <1>3, <1>4, <1>5, <1>6, <1>7, <1>8, <1>9, <1>10, <1>11,
   <1>12, <1>13, <1>14, <1>15, <1>16, <1>17, <1>18, <1>19, <1>20, <1>21,
   <1>22, <1>23, <1>24, <1>25, <1>26
DEF Next, Engine, Terminated

\* The engine stays inside the plan and carries each step out once, in order.
LEMMA NextPlace ==
  ASSUME IInv, [Next]_vars PROVE (InStep /\ ActsInOrder /\ RunningInv)'
<1> USE DEF Goes, place, ledger, control, consoleVars
<1>1. CASE ValidateParams
  BY <1>1, StepNumbers
  DEF ValidateParams, Leave, IInv, TypeOK, EngineTypeOK, InStep, ActsInOrder,
      NotYet, RunningInv
<1>2. CASE OpenEntry
  BY <1>2, StepNumbers
  DEF OpenEntry, Leave, IInv, TypeOK, EngineTypeOK, InStep, ActsInOrder,
      NotYet, RunningInv
<1>3. CASE BeginStep
  BY <1>3, StepNumbers
  DEF BeginStep, IInv, TypeOK, EngineTypeOK, InStep, ActsInOrder, NotYet,
      RunningInv
<1>4. CASE Succeed
  BY <1>4, StepNumbers
  DEF Succeed, Finish, IInv, TypeOK, EngineTypeOK, InStep, ActsInOrder,
      NotYet, RunningInv
<1>5. CASE ResolveTarget
  BY <1>5, StepNumbers
  DEF ResolveTarget, IInv, TypeOK, EngineTypeOK, InStep, ActsInOrder, NotYet,
      RunningInv
<1>6. CASE ResolveFails
  BY <1>6, StepNumbers
  DEF ResolveFails, Classify, IInv, TypeOK, EngineTypeOK, InStep, ActsInOrder,
      NotYet, RunningInv
<1>7. CASE CheckAction
  BY <1>7, StepNumbers
  DEF CheckAction, Leave, IInv, TypeOK, EngineTypeOK, InStep, ActsInOrder,
      NotYet, RunningInv
<1>8. CASE AskConfirmation
  BY <1>8, StepNumbers
  DEF AskConfirmation, RaiseIntervention, IInv, TypeOK, EngineTypeOK, InStep,
      ActsInOrder, NotYet, RunningInv
<1>9. CASE Confirmed
  BY <1>9, StepNumbers
  DEF Confirmed, HardFailure, Finish, IInv, TypeOK, EngineTypeOK, InStep,
      ActsInOrder, NotYet, RunningInv
<1>10. CASE Act
  <2>1. step \in Steps /\ acts[step] = 0
    BY <1>10 DEF Act, IInv, InStep, ActsInOrder, NotYet
  <2>2. \A s \in Steps : acts'[s] = IF s = step THEN 1 ELSE acts[s]
    BY <1>10, <2>1 DEF Act, IInv, TypeOK, EngineTypeOK
  <2>3. pc' = "verify" /\ step' = step /\ result' = result /\ result = "none"
    BY <1>10 DEF Act, IInv, RunningInv
  <2> QED
    BY <2>1, <2>2, <2>3, StepNumbers DEF IInv, InStep, ActsInOrder, NotYet, RunningInv
<1>11. CASE ActRaises
  <2>1. step \in Steps /\ acts[step] = 0
    BY <1>11 DEF ActRaises, IInv, InStep, ActsInOrder, NotYet
  <2>2. \A s \in Steps : acts'[s] = acts[s] \/ (s = step /\ acts'[s] = 1)
    BY <1>11, <2>1 DEF ActRaises, IInv, TypeOK, EngineTypeOK
  <2>3. /\ pc' = "classify" /\ origin' = "act"
        /\ step' = step /\ result' = result /\ result = "none"
    BY <1>11 DEF ActRaises, Classify, IInv, RunningInv
  <2> QED
    BY <2>1, <2>2, <2>3, StepNumbers DEF IInv, InStep, ActsInOrder, NotYet, RunningInv
<1>12. CASE FillMisread
  BY <1>12, StepNumbers
  DEF FillMisread, HardFailure, Finish, IInv, TypeOK, EngineTypeOK, InStep,
      ActsInOrder, NotYet, RunningInv
<1>13. CASE VerifyHolds
  <2>1. step \in Steps /\ pc' = "begin" /\ step' = step + 1 /\ acts' = acts
    BY <1>13 DEF VerifyHolds, StepDone, IInv, InStep
  <2>2. result' = result /\ result = "none"
    BY <1>13 DEF VerifyHolds, StepDone, IInv, RunningInv
  <2> QED
    BY <2>1, <2>2, StepNumbers DEF IInv, InStep, ActsInOrder, NotYet, RunningInv
<1>14. CASE VerifyFails
  BY <1>14, StepNumbers
  DEF VerifyFails, Classify, IInv, TypeOK, EngineTypeOK, InStep, ActsInOrder,
      NotYet, RunningInv
<1>15. CASE BusinessOutcome
  BY <1>15, StepNumbers
  DEF BusinessOutcome, Finish, IInv, TypeOK, EngineTypeOK, InStep,
      ActsInOrder, NotYet, RunningInv
<1>16. CASE RecoveryExhausted
  BY <1>16, StepNumbers
  DEF RecoveryExhausted, HardFailure, Finish, IInv, TypeOK, EngineTypeOK,
      InStep, ActsInOrder, NotYet, RunningInv
<1>17. CASE Recheck
  BY <1>17, StepNumbers
  DEF Recheck, ClassifiedAway, StepDone, HardFailure, Finish, IInv, TypeOK,
      EngineTypeOK, InStep, ActsInOrder, NotYet, RunningInv
<1>18. CASE Escalate
  BY <1>18, StepNumbers
  DEF Escalate, RaiseIntervention, IInv, TypeOK, EngineTypeOK, InStep,
      ActsInOrder, NotYet, RunningInv
<1>19. CASE Resumed
  <2>1. step \in Steps /\ acts' = acts /\ pc = "failing" /\ result = "none"
    BY <1>19 DEF Resumed, IInv, InStep, RunningInv
  <2>2. CASE ClassifiedAway /\ result' = result
    BY <2>1, <2>2, StepNumbers
    DEF ClassifiedAway, StepDone, IInv, InStep, ActsInOrder, NotYet, RunningInv
  <2>3. CASE HardFailure /\ UNCHANGED place
    BY <2>1, <2>3, StepNumbers
    DEF HardFailure, Finish, IInv, InStep, ActsInOrder, NotYet, RunningInv
  <2> QED BY <1>19, <2>2, <2>3 DEF Resumed, ClassifiedAway, StepDone
<1>20. CASE Fail
  BY <1>20, StepNumbers
  DEF Fail, HardFailure, Finish, IInv, TypeOK, EngineTypeOK, InStep,
      ActsInOrder, NotYet, RunningInv
<1>21. ASSUME NEW r \in Rules, Recover(r) PROVE (InStep /\ ActsInOrder /\ RunningInv)'
  BY <1>21, StepNumbers
  DEF Recover, IInv, TypeOK, EngineTypeOK, InStep, ActsInOrder, NotYet,
      RunningInv
<1>22. ASSUME NEW r \in Rules, RecoverRaises(r) PROVE (InStep /\ ActsInOrder /\
RunningInv)'
  BY <1>22, StepNumbers
  DEF RecoverRaises, Leave, IInv, TypeOK, EngineTypeOK, InStep, ActsInOrder,
      NotYet, RunningInv
<1>23. CASE Operator
  BY <1>23, StepNumbers
  DEF Operator, OperatorCommand, Look, Goto, Operate, OperateFails,
      ReturnControl, EndHandoff, engineVars, IInv, TypeOK, EngineTypeOK,
      InStep, ActsInOrder, NotYet, RunningInv
<1>24. CASE UNCHANGED vars
  BY <1>24, StepNumbers
  DEF vars, engineVars, IInv, TypeOK, EngineTypeOK, InStep, ActsInOrder,
      NotYet, RunningInv
<1>25. CASE QueryRaises
  BY <1>25, StepNumbers
  DEF QueryRaises, AsksUnguarded, Leave, IInv, InStep, ActsInOrder, NotYet,
      RunningInv
<1>26. CASE PageMoves
  BY <1>26, StepNumbers
  DEF PageMoves, engineVars, IInv, InStep, ActsInOrder, NotYet, RunningInv
<1> QED BY <1>1, <1>2, <1>3, <1>4, <1>5, <1>6, <1>7, <1>8, <1>9, <1>10, <1>11,
   <1>12, <1>13, <1>14, <1>15, <1>16, <1>17, <1>18, <1>19, <1>20, <1>21,
   <1>22, <1>23, <1>24, <1>25, <1>26
DEF Next, Engine, Terminated

\* What the caller asked for stays what it was.
LEMMA CallerStays ==
  ASSUME [Next]_vars PROVE ConfirmRisky' = ConfirmRisky
  BY DEF Next, vars, ConfirmRisky

\* Waiting for an answer goes with having ceded the page.
LEMMA NextHandoff ==
  ASSUME IInv, [Next]_vars PROVE HandoffInv'
<1>0. ConfirmRisky' = ConfirmRisky
  BY CallerStays
<1> USE <1>0 DEF Goes, place, ledger, control, consoleVars
<1>1. CASE ValidateParams
  BY <1>1 DEF ValidateParams, Leave, IInv, HandoffInv, NeedsPerson
<1>2. CASE OpenEntry
  BY <1>2 DEF OpenEntry, Leave, IInv, HandoffInv, NeedsPerson
<1>3. CASE BeginStep
  BY <1>3 DEF BeginStep, IInv, HandoffInv, NeedsPerson
<1>4. CASE Succeed
  BY <1>4 DEF Succeed, Finish, IInv, HandoffInv, NeedsPerson
<1>5. CASE ResolveTarget
  BY <1>5 DEF ResolveTarget, IInv, HandoffInv, NeedsPerson
<1>6. CASE ResolveFails
  BY <1>6 DEF ResolveFails, Classify, IInv, HandoffInv, NeedsPerson
<1>7. CASE CheckAction
  BY <1>7 DEF CheckAction, Leave, IInv, HandoffInv, NeedsPerson
<1>8. CASE AskConfirmation
  BY <1>8 DEF AskConfirmation, RaiseIntervention, IInv, HandoffInv, NeedsPerson
<1>9. CASE Confirmed
  BY <1>9 DEF Confirmed, HardFailure, Finish, IInv, HandoffInv, NeedsPerson
<1>10. CASE Act
  BY <1>10 DEF Act, IInv, HandoffInv, NeedsPerson
<1>11. CASE ActRaises
  BY <1>11 DEF ActRaises, Classify, IInv, HandoffInv, NeedsPerson
<1>12. CASE FillMisread
  BY <1>12 DEF FillMisread, HardFailure, Finish, IInv, HandoffInv, NeedsPerson
<1>13. CASE VerifyHolds
  BY <1>13 DEF VerifyHolds, StepDone, IInv, HandoffInv, NeedsPerson
<1>14. CASE VerifyFails
  BY <1>14 DEF VerifyFails, Classify, IInv, HandoffInv, NeedsPerson
<1>15. CASE BusinessOutcome
  BY <1>15 DEF BusinessOutcome, Finish, IInv, HandoffInv, NeedsPerson
<1>16. CASE RecoveryExhausted
  BY <1>16
  DEF RecoveryExhausted, HardFailure, Finish, IInv, HandoffInv, NeedsPerson
<1>17. CASE Recheck
  BY <1>17
  DEF Recheck, ClassifiedAway, StepDone, HardFailure, Finish, IInv,
      HandoffInv, NeedsPerson
<1>18. CASE Escalate
  BY <1>18 DEF Escalate, RaiseIntervention, IInv, HandoffInv, NeedsPerson
<1>19. CASE Resumed
  BY <1>19
  DEF Resumed, ClassifiedAway, StepDone, HardFailure, Finish, IInv,
      HandoffInv, NeedsPerson
<1>20. CASE Fail
  BY <1>20 DEF Fail, HardFailure, Finish, IInv, HandoffInv, NeedsPerson
<1>21. ASSUME NEW r \in Rules, Recover(r) PROVE HandoffInv'
  BY <1>21 DEF Recover, IInv, HandoffInv, NeedsPerson
<1>22. ASSUME NEW r \in Rules, RecoverRaises(r) PROVE HandoffInv'
  BY <1>22 DEF RecoverRaises, Leave, IInv, HandoffInv, NeedsPerson
<1>23. CASE Operator
  <2>1. CASE OperatorCommand
    BY <1>23, <2>1 DEF Operator, OperatorCommand, Look, Goto, Operate, OperateFails,
                   engineVars, IInv, HandoffInv, NeedsPerson
  <2>2. CASE ReturnControl
    <3>1. PICK r \in Resolutions : EndHandoff(r)
      BY <2>2 DEF ReturnControl
    <3>2. pc \in {"confirming", "failing"} /\ request # NoRequest
      BY <3>1 DEF EndHandoff, IInv, HandoffInv, NoRequest
    <3>3. /\ Len(ivLog') > 0 /\ ivLog'[Len(ivLog')] = request'
          /\ request'.reason = request.reason /\ request'.step = request.step
      BY <3>1, <3>2, NextConsoleTypeOK, LogGrows DEF IInv, TypeOK, Requests
    <3> QED BY <1>23, <3>1, <3>3 DEF Operator, EndHandoff, engineVars, IInv,
                                 HandoffInv, NeedsPerson
  <2> QED BY <1>23, <2>1, <2>2 DEF Operator
<1>24. CASE UNCHANGED vars
  BY <1>24 DEF vars, engineVars, IInv, HandoffInv, NeedsPerson
<1>25. CASE QueryRaises
  BY <1>25 DEF QueryRaises, AsksUnguarded, Leave, IInv, HandoffInv, NeedsPerson
<1>26. CASE PageMoves
  BY <1>26 DEF PageMoves, engineVars, IInv, HandoffInv, NeedsPerson
<1> QED BY <1>1, <1>2, <1>3, <1>4, <1>5, <1>6, <1>7, <1>8, <1>9, <1>10, <1>11,
   <1>12, <1>13, <1>14, <1>15, <1>16, <1>17, <1>18, <1>19, <1>20, <1>21,
   <1>22, <1>23, <1>24, <1>25, <1>26
DEF Next, Engine, Terminated

\* What is in the log stays there, so an approval once given can be shown later.
LEMMA ApprovalsStay ==
  ASSUME IInv, [Next]_vars, NEW s, NEW k \in 1 .. Len(ivLog), ApprovedFor(k, s)
  PROVE  k \in 1 .. Len(ivLog') /\ ApprovedFor(k, s)'
<1>1. CASE ivLog' = ivLog
  BY <1>1 DEF ApprovedFor
<1>2. CASE Operator /\ ReturnControl
  <2>1. PICK r \in Resolutions : EndHandoff(r)
    BY <1>2 DEF ReturnControl
  <2>2. request # NoRequest
    BY <2>1 DEF EndHandoff, IInv, HandoffInv, NoRequest
  <2>3. /\ Len(ivLog) \in Nat /\ Len(ivLog') = Len(ivLog) + 1
        /\ ivLog'[k] = ivLog[k]
    BY <2>1, <2>2, NextConsoleTypeOK, LogGrows DEF IInv, TypeOK
  <2> QED BY <2>3 DEF ApprovedFor
<1> QED BY <1>1, <1>2, OthersKeepLog DEF Next, Operator, Terminated

\* The engine reaches "act" with the approval it needs.
LEMMA NextActApproved ==
  ASSUME IInv, [Next]_vars PROVE ActApproved'
<1> SUFFICES ASSUME (pc = "act" /\ NeedsPerson)'
             PROVE  (\E k \in 1 .. Len(ivLog) : ApprovedFor(k, step))'
  BY DEF ActApproved
<1>0. ConfirmRisky' = ConfirmRisky
  BY CallerStays
<1> USE <1>0 DEF Goes, place, control, consoleVars, NeedsPerson
<1>1. CASE Confirmed
  <2>1. /\ Len(ivLog) > 0 /\ ivLog[Len(ivLog)] = request
        /\ request.reason = "risky_action_confirmation" /\ request.step = step
    BY <1>1 DEF Confirmed, IInv, HandoffInv
  <2>2. request.resolution = "approved" /\ step' = step /\ ivLog' = ivLog
    BY <1>1 DEF Confirmed, HardFailure, Finish
  <2>3. Len(ivLog) \in Nat
    BY DEF IInv, TypeOK, ConsoleTypeOK
  <2> QED BY <2>1, <2>2, <2>3 DEF ApprovedFor
<1>2. CASE Operator \/ PageMoves \/ UNCHANGED vars
  <2>1. pc = "act" /\ step' = step /\ NeedsPerson
    BY <1>2 DEF Operator, PageMoves, engineVars, vars
  <2>2. PICK k \in 1 .. Len(ivLog) : ApprovedFor(k, step)
    BY <2>1 DEF IInv, ActApproved
  <2> QED BY <2>1, <2>2, ApprovalsStay DEF ApprovedFor
<1>3. CASE CheckAction
  BY <1>3 DEF CheckAction, Leave
<1>4. CASE Engine /\ ~Confirmed /\ ~CheckAction
  BY <1>4 DEF Engine, ValidateParams, OpenEntry, BeginStep, Succeed, ResolveTarget,
      ResolveFails, AskConfirmation, Act, ActRaises, FillMisread, VerifyHolds,
      VerifyFails, QueryRaises, BusinessOutcome, RecoveryExhausted, Recover,
      RecoverRaises, Recheck, Escalate, Resumed, Fail, Finish, Leave, HardFailure,
      StepDone, ClassifiedAway, Classify
<1> QED BY <1>1, <1>2, <1>3, <1>4 DEF Next, Terminated

\* Only Act and ActRaises carry a step out, and they do so at "act".
LEMMA ActsChange ==
  ASSUME IInv, [Next]_vars
  PROVE  acts' = acts \/ (pc = "act" /\ acts' = [acts EXCEPT ![step] = @ + 1])
  BY DEF Next, Engine, Operator, PageMoves, Terminated, vars, engineVars, ledger,
      ValidateParams, OpenEntry, BeginStep, Succeed, ResolveTarget, ResolveFails,
      CheckAction, AskConfirmation, Confirmed, Act, ActRaises, FillMisread,
      VerifyHolds, VerifyFails, QueryRaises, BusinessOutcome, RecoveryExhausted,
      Recover, RecoverRaises, Recheck, Escalate, Resumed, Fail

LEMMA NextRiskyNeedsApproval ==
  ASSUME IInv, [Next]_vars PROVE RiskyNeedsApproval'
<1> SUFFICES ASSUME NEW s \in Steps, acts'[s] > 0, Plan[s].risky, ~ConfirmRisky
             PROVE  \E k \in 1 .. Len(ivLog') : ApprovedFor(k, s)'
  BY CallerStays DEF RiskyNeedsApproval, Steps
<1>1. CASE acts[s] > 0
  <2>1. PICK k \in 1 .. Len(ivLog) : ApprovedFor(k, s)
    BY <1>1 DEF IInv, RiskyNeedsApproval
  <2> QED BY <2>1, ApprovalsStay
<1>2. CASE ~(acts[s] > 0)
  <2>1. pc = "act" /\ s = step
    BY <1>2, ActsChange DEF IInv, TypeOK, EngineTypeOK
  <2>2. PICK k \in 1 .. Len(ivLog) : ApprovedFor(k, step)
    BY <2>1 DEF IInv, ActApproved, NeedsPerson
  <2> QED BY <2>1, <2>2, ApprovalsStay
<1> QED BY <1>1, <1>2

\* A refusal is followed by the failure of the run and by nothing else.
LEMMA NextRefusalSeen ==
  ASSUME IInv, [Next]_vars PROVE RefusalSeen'
<1> USE DEF Goes, place, control, consoleVars
<1>1. CASE Operator /\ ReturnControl
  <2>1. PICK r \in Resolutions : EndHandoff(r)
    BY <1>1 DEF ReturnControl
  <2>2. request # NoRequest /\ pc \in {"confirming", "failing"} /\ holder = "human"
    BY <2>1 DEF EndHandoff, IInv, HandoffInv, NoRequest
  <2>3. /\ Len(ivLog) \in Nat /\ Len(ivLog') = Len(ivLog) + 1
        /\ ivLog'[Len(ivLog')] = request'
        /\ \A k \in 1 .. Len(ivLog) : ivLog'[k] = ivLog[k]
        /\ request'.reason = request.reason
    BY <2>1, <2>2, NextConsoleTypeOK, LogGrows DEF IInv, TypeOK, Requests
  <2>4. \A k \in 1 .. Len(ivLog) : ~Refusal(k)
    BY <2>2 DEF IInv, RefusalSeen
  <2>5. ASSUME NEW k \in 1 .. Len(ivLog'), Refusal(k)'
        PROVE  request'.reason = "risky_action_confirmation"
                 /\ request'.resolution # "approved"
    <3>1. k = Len(ivLog')
      BY <2>3, <2>4, <2>5 DEF Refusal
    <3> QED BY <2>3, <2>5, <3>1 DEF Refusal
  <2>6. pc' = pc /\ result' = result /\ result = "none"
          /\ (pc = "failing" => request.reason = "replay_hard_failure")
    BY <1>1, <2>2 DEF Operator, engineVars, IInv, HandoffInv, RunningInv
  <2>7. holder' = "automation"
    BY <2>1 DEF EndHandoff
  <2> QED BY <2>2, <2>3, <2>5, <2>6, <2>7 DEF RefusalSeen
<1>2. CASE ~(Operator /\ ReturnControl)
  <2>1. ivLog' = ivLog
    BY <1>2, OthersKeepLog DEF Next, Operator, Terminated
  <2> SUFFICES ASSUME NEW k \in 1 .. Len(ivLog), Refusal(k)
               PROVE  \/ pc' = "confirming" /\ holder' = "automation"
                           /\ request'.resolution # "approved" /\ result' = "none"
                      \/ pc' = "done" /\ result' = "hard_failure"
    BY <2>1 DEF RefusalSeen, Refusal
  <2>2. \/ pc = "confirming" /\ holder = "automation"
             /\ request.resolution # "approved" /\ result = "none"
        \/ pc = "done" /\ result = "hard_failure"
    BY DEF IInv, RefusalSeen
  <2>3. CASE Confirmed
    BY <2>2, <2>3 DEF Confirmed, HardFailure, Finish
  <2>4. CASE Engine /\ ~Confirmed
    BY <2>2, <2>4 DEF Engine, ValidateParams, OpenEntry, BeginStep, Succeed,
        ResolveTarget, ResolveFails, CheckAction, AskConfirmation, Act, ActRaises,
        FillMisread, VerifyHolds, VerifyFails, QueryRaises, AsksUnguarded,
        BusinessOutcome, RecoveryExhausted, Recover, RecoverRaises, Recheck,
        Escalate, Resumed, Fail
  <2>5. CASE Operator
    <3>1. holder = "human"
      BY <1>2, <2>5 DEF Operator, OperatorCommand, Look, Goto, Operate, OperateFails
    <3> QED BY <2>2, <3>1 DEF IInv, HandoffInv
  <2>6. CASE PageMoves \/ UNCHANGED vars
    BY <2>2, <2>6 DEF PageMoves, vars, engineVars
  <2> QED BY <2>3, <2>4, <2>5, <2>6 DEF Next, Terminated
<1> QED BY <1>1, <1>2

LEMMA InitIInv == Init => IInv
<1> SUFFICES ASSUME Init PROVE IInv
  OBVIOUS
<1>1. TypeOK
  BY InitTypeOK
<1>2. \A k \in 1 .. Len(ivLog) : FALSE
  BY DEF Init, ConsoleInit
<1>3. InStep /\ ActsInOrder /\ RunningInv
  BY DEF Init, InStep, ActsInOrder, RunningInv
<1>4. HandoffInv
  BY DEF Init, ConsoleInit, HandoffInv
<1>5. ActApproved /\ RefusalSeen
  BY <1>2 DEF Init, ActApproved, RefusalSeen
<1>6. RiskyNeedsApproval
  BY DEF Init, RiskyNeedsApproval
<1> QED BY <1>1, <1>3, <1>4, <1>5, <1>6 DEF IInv

LEMMA NextIInv == IInv /\ [Next]_vars => IInv'
  BY NextConsoleTypeOK, NextEngineTypeOK, NextPlace, NextHandoff, NextActApproved,
     NextRiskyNeedsApproval, NextRefusalSeen
  DEF IInv, TypeOK

THEOREM Invariance == Spec => []IInv
  BY InitIInv, NextIInv, PTL DEF Spec

\* Every variable has its type, through exceptions, retries and handoffs.
THEOREM TypeCorrect == Spec => []TypeOK
<1>1. IInv => TypeOK
  BY DEF IInv
<1> QED BY <1>1, Invariance, PTL

\* A RISKY step is carried out only with the caller's confirmation or with a
\* person's approval of that very step.
THEOREM RiskyIsApproved == Spec => []RiskyNeedsApproval
<1>1. IInv => RiskyNeedsApproval
  BY DEF IInv
<1> QED BY <1>1, Invariance, PTL

\* No step is carried out twice, or after one behind it.
THEOREM ActsOnce == Spec => []NeverActsTwice
<1>1. IInv => NeverActsTwice
  BY StepNumbers DEF IInv, TypeOK, EngineTypeOK, ActsInOrder, NeverActsTwice, Steps
<1> QED BY <1>1, Invariance, PTL

--------------------------------------------------------------------------------
(* Action properties and the contract. *)

LEMMA AfterRefusal ==
  ASSUME IInv, [Next]_vars, Refused
  PROVE  /\ UNCHANGED <<acts, counts, ivLog, holder>>
         /\ result' \in {"none", "hard_failure"}
<1> USE DEF Goes, consoleVars
<1>1. \/ pc = "confirming" /\ holder = "automation"
           /\ request.resolution # "approved" /\ result = "none"
      \/ pc = "done" /\ result = "hard_failure" /\ holder = "automation"
  BY DEF IInv, RefusalSeen, HandoffInv, Refused, TypeOK, ConsoleTypeOK, Holders
<1>2. CASE Confirmed
  BY <1>1, <1>2 DEF Confirmed, HardFailure, Finish, ledger
<1>3. CASE Engine /\ ~Confirmed
  BY <1>1, <1>3 DEF Engine, ValidateParams, OpenEntry, BeginStep, Succeed,
      ResolveTarget, ResolveFails, CheckAction, AskConfirmation, Act, ActRaises,
      FillMisread, VerifyHolds, VerifyFails, QueryRaises, AsksUnguarded,
      BusinessOutcome, RecoveryExhausted, Recover, RecoverRaises, Recheck, Escalate,
      Resumed, Fail
<1>4. CASE Operator
  BY <1>1, <1>4 DEF Operator, OperatorCommand, Look, Goto, Operate, OperateFails,
      ReturnControl, EndHandoff
<1>5. CASE PageMoves \/ UNCHANGED vars
  BY <1>1, <1>5 DEF PageMoves, vars, consoleVars, engineVars
<1> QED BY <1>2, <1>3, <1>4, <1>5 DEF Next, Terminated

\* After a refusal automation carries out nothing more, no recovery either, asks
\* nobody again, and the run fails.
THEOREM RefusalEndsRun == Spec => RefusalIsFinal
<1>1. IInv /\ [Next]_vars =>
        [Refused => /\ UNCHANGED <<acts, counts, ivLog, holder>>
                    /\ result' \in {"none", "hard_failure"}]_vars
  BY AfterRefusal
<1>2. RefusalIsFinal <=>
        [][Refused => /\ UNCHANGED <<acts, counts, ivLog, holder>>
                      /\ result' \in {"none", "hard_failure"}]_vars
  BY DEF RefusalIsFinal, Refused
<1> QED BY <1>1, <1>2, Invariance, PTL DEF Spec

LEMMA InitContract == Init => Contract!Init
<1> SUFFICES ASSUME Init PROVE Contract!Init
  OBVIOUS
<1>1. ConfirmRisky \in BOOLEAN
  BY CallerAssumption DEF CallerAssumption, Init, ConfirmRisky
<1> QED BY <1>1 DEF Init, ConsoleInit, Contract!Init, Acted, Granted, Refused

\* A step carried out is a step the contract lets be carried out.
LEMMA ActIsAllowed ==
  ASSUME IInv, [Next]_vars, acts' # acts
  PROVE  Contract!Act(step) /\ step \in Steps
<1>1. pc = "act" /\ acts' = [acts EXCEPT ![step] = @ + 1]
  BY ActsChange
<1>2. step \in Steps
  BY <1>1 DEF IInv, InStep
<1>3. result = "none" /\ ~Refused
  BY <1>1 DEF IInv, RunningInv, RefusalSeen, Refused
<1>4. result' = result /\ ivLog' = ivLog
  <2>1. CASE Act \/ ActRaises
    BY <2>1 DEF Act, ActRaises, Classify, Goes, control
  <2>2. CASE ~(Act \/ ActRaises)
    BY <2>2, <1>1 DEF Next, Engine, Operator, PageMoves, Terminated, vars, engineVars,
        ValidateParams, OpenEntry, BeginStep, Succeed, ResolveTarget, ResolveFails,
        CheckAction, AskConfirmation, Confirmed, FillMisread, VerifyHolds,
        VerifyFails, QueryRaises, AsksUnguarded, BusinessOutcome, RecoveryExhausted,
        Recover, RecoverRaises, Recheck, Escalate, Resumed, Fail, OperatorCommand,
        Look, Goto, Operate, OperateFails, ReturnControl, EndHandoff, HandoffInv,
        IInv
  <2> QED BY <2>1, <2>2
<1>5. \A t \in Acted : t < step
  BY <1>1, <1>2 DEF IInv, TypeOK, EngineTypeOK, ActsInOrder, NotYet, Acted, Steps
<1>6. step \in {s \in Steps : Plan[s].risky} => ConfirmRisky \/ step \in Granted
  BY <1>1, <1>2 DEF IInv, ActApproved, NeedsPerson, Granted
<1>7. Acted' = Acted \cup {step}
  BY <1>1, <1>2 DEF Acted, IInv, TypeOK, EngineTypeOK, Steps
<1>8. Granted' = Granted /\ Refused' = Refused
  BY <1>4 DEF Granted, Refused, ApprovedFor, Refusal, Steps
<1> QED BY <1>2, <1>3, <1>4, <1>5, <1>6, <1>7, <1>8 DEF Contract!Act

\* An answer given is a grant or a refusal of the contract, or means nothing to it.
LEMMA AnswerIsAllowed ==
  ASSUME IInv, [Next]_vars, ivLog' # ivLog
  PROVE  \/ step \in Steps /\ (Contract!Grant(step) \/ Contract!Refuse(step))
         \/ UNCHANGED Contract!contractVars
<1>1. Operator /\ ReturnControl
  BY OthersKeepLog DEF Next, Operator, Terminated
<1>2. PICK r \in Resolutions : EndHandoff(r)
  BY <1>1 DEF ReturnControl
<1>3. /\ pc \in {"confirming", "failing"} /\ request # NoRequest
      /\ holder = "human"
  BY <1>2 DEF EndHandoff, IInv, HandoffInv, NoRequest
<1>4. /\ Len(ivLog) \in Nat /\ Len(ivLog') = Len(ivLog) + 1
      /\ ivLog'[Len(ivLog')] = request'
      /\ \A k \in 1 .. Len(ivLog) : ivLog'[k] = ivLog[k]
      /\ request'.reason = request.reason /\ request'.step = request.step
      /\ request'.resolution = r
  BY <1>2, <1>3, NextConsoleTypeOK, LogGrows DEF IInv, TypeOK, Requests
<1>5. ~Refused /\ result = "none" /\ step \in Steps
  BY <1>3 DEF IInv, RefusalSeen, Refused, RunningInv, InStep
<1>6. result' = result /\ acts' = acts /\ Acted' = Acted
  BY <1>1 DEF Operator, engineVars, Acted, Steps
<1>7. \A k \in 1 .. Len(ivLog), s \in Steps :
         (ApprovedFor(k, s)' <=> ApprovedFor(k, s)) /\ (Refusal(k)' <=> Refusal(k))
  BY <1>4 DEF ApprovedFor, Refusal
<1>8. PICK last \in Nat :
         /\ ivLog'[last] = request'
         /\ 1 .. Len(ivLog') = (1 .. Len(ivLog)) \cup {last}
  BY <1>4
<1>9. CASE pc = "failing"
  <2>1. ~Refusal(last)' /\ \A s \in Steps : ~ApprovedFor(last, s)'
    BY <1>4, <1>8, <1>9 DEF Refusal, ApprovedFor, IInv, HandoffInv
  <2>2. Granted' = Granted
    BY <1>7, <1>8, <2>1 DEF Granted, Steps
  <2>3. Refused' = Refused
    <3>1. 1 \in Steps
      BY StepNumbers
    <3> QED BY <1>7, <1>8, <2>1, <3>1 DEF Refused
  <2> QED BY <1>6, <2>2, <2>3, CallerStays DEF Contract!contractVars
<1>10. CASE pc = "confirming"
  <2>1. NeedsPerson /\ request.reason = "risky_action_confirmation"
          /\ request.step = step
    BY <1>10 DEF IInv, HandoffInv
  <2>2. step \notin Acted /\ step \in {s \in Steps : Plan[s].risky} /\ ~ConfirmRisky
    BY <1>5, <1>10, <2>1 DEF Acted, IInv, ActsInOrder, NotYet, NeedsPerson
  <2>3. CASE r = "approved"
    <3>1. \A s \in Steps : ApprovedFor(last, s)' <=> s = step
      BY <1>4, <1>8, <2>1, <2>3 DEF ApprovedFor
    <3>2. ~Refusal(last)'
      BY <1>4, <1>8, <2>3 DEF Refusal
    <3>3. Granted' = Granted \cup {step} /\ Refused' = Refused
      BY <1>5, <1>7, <1>8, <3>1, <3>2 DEF Granted, Refused, Steps
    <3> QED BY <1>5, <1>6, <2>2, <3>3 DEF Contract!Grant
  <2>4. CASE r # "approved"
    <3>1. Refusal(last)' /\ \A s \in Steps : ~ApprovedFor(last, s)'
      BY <1>4, <1>8, <2>1, <2>4 DEF ApprovedFor, Refusal
    <3>2. Granted' = Granted /\ Refused' = TRUE
      BY <1>7, <1>8, <3>1 DEF Granted, Refused, Steps
    <3> QED BY <1>5, <1>6, <2>2, <3>2 DEF Contract!Refuse
  <2> QED BY <2>3, <2>4
<1> QED BY <1>3, <1>9, <1>10

LEMMA NextContract ==
  ASSUME IInv, [Next]_vars PROVE [Contract!Next]_(Contract!contractVars)
<1>1. CASE acts' # acts
  BY <1>1, ActIsAllowed, CallerStays DEF Contract!Next
<1>2. CASE acts' = acts /\ ivLog' # ivLog
  BY <1>2, AnswerIsAllowed, CallerStays DEF Contract!Next
<1>3. CASE acts' = acts /\ ivLog' = ivLog
  <2>1. Acted' = Acted /\ Granted' = Granted /\ Refused' = Refused
    BY <1>3 DEF Acted, Granted, Refused, ApprovedFor, Refusal, Steps
  <2>2. CASE result' = result
    BY <2>1, <2>2, CallerStays DEF Contract!contractVars
  <2>3. CASE result' # result
    <3>1. result = "none"
      <4>1. pc # "done"
        BY <2>3
        DEF IInv, HandoffInv, Next, Engine, Operator, PageMoves, Terminated, vars,
            engineVars, ValidateParams, OpenEntry, BeginStep, Succeed,
            ResolveTarget, ResolveFails, CheckAction, AskConfirmation, Confirmed,
            Act, ActRaises, FillMisread, VerifyHolds, VerifyFails, QueryRaises,
            AsksUnguarded, BusinessOutcome, RecoveryExhausted, Recover,
            RecoverRaises, Recheck, Escalate, Resumed, Fail
      <4> QED BY <4>1 DEF IInv, RunningInv
    <3>2. result' \in Buckets \cup Exceptions
      <4>1. pc' = "done"
        BY <2>3, <3>1, NextPlace DEF RunningInv
      <4>2. EngineTypeOK' /\ (RunningInv)'
        BY NextEngineTypeOK, NextPlace
      <4> QED BY <4>1, <4>2 DEF EngineTypeOK, RunningInv
    <3>3. Refused => result' = "hard_failure"
      BY <2>3, <3>1, AfterRefusal
    <3> QED BY <2>1, <3>1, <3>2, <3>3, CallerStays DEF Contract!Next, Contract!End
  <2> QED BY <2>2, <2>3
<1> QED BY <1>1, <1>2, <1>3

\* Every run of the engine, with whatever page and operators, is a run the
\* contract allows.
THEOREM Refinement == Spec => KeepsContract
<1>1. IInv /\ [Next]_vars => [Contract!Next]_(Contract!contractVars)
  BY NextContract
<1> QED BY <1>1, InitContract, Invariance, PTL
        DEF Spec, KeepsContract, Contract!Spec

--------------------------------------------------------------------------------
(***************************************************************************)
(* What the records say.  Reported ties the step reports to the place of the *)
(* engine's thread: the steps behind it have passed, those ahead have no     *)
(* report, and a result is as its last step left it.                         *)
(***************************************************************************)

Passing == {"ok", "degraded_locator", "recovered"}

Underway == pc \notin {"validate", "entry", "begin", "done"}

Reported ==
  /\ \A s \in Steps : s < step => s \in verified /\ reports[s] \in Passing
  /\ \A s \in Steps : s > step => reports[s] = "absent"
  /\ Underway => reports[step] \in Passing
  /\ pc \in {"validate", "entry"} => step = 1 /\ reports[1] = "absent"
  /\ pc # "done" => ~saved

Concluded ==
  /\ result = "success" => step = Len(Plan) + 1
  /\ result = "hard_failure" /\ saved => step \in Steps /\ reports[step] = "failed"
  /\ result \in Exceptions => ~saved
  /\ result = "policy_violation" => acts[step] = 0 \/ \E r \in Rules : counts[r] > 0

LEMMA NextReported ==
  ASSUME IInv, Reported, [Next]_vars PROVE Reported'
<1> USE DEF Goes, place, ledger, control, consoleVars, Passing, Underway
<1>1. /\ reports \in [Steps -> ReportStatus] /\ verified \in SUBSET Steps
      /\ step \in 1 .. Len(Plan) + 1 /\ Len(Plan) \in Nat /\ Steps = 1 .. Len(Plan)
      /\ Underway => step \in Steps
  BY StepNumbers DEF IInv, TypeOK, EngineTypeOK, InStep, Steps
<1>2. CASE ValidateParams \/ OpenEntry \/ Succeed
  BY <1>1, <1>2 DEF ValidateParams, OpenEntry, Succeed, Finish, Leave, Reported
<1>3. CASE BeginStep
  BY <1>1, <1>3 DEF BeginStep, Reported
<1>4. CASE ResolveTarget \/ ResolveFails \/ CheckAction \/ AskConfirmation
           \/ Act \/ ActRaises \/ VerifyFails \/ QueryRaises \/ Escalate
  BY <1>1, <1>4 DEF ResolveTarget, ResolveFails, CheckAction, AskConfirmation, Act,
     ActRaises, VerifyFails, QueryRaises, Escalate, Classify, Leave, Reported
<1>5. CASE VerifyHolds
  BY <1>1, <1>5 DEF VerifyHolds, StepDone, Reported
<1>6. CASE Confirmed \/ FillMisread \/ RecoveryExhausted \/ Fail
  BY <1>1, <1>6 DEF Confirmed, FillMisread, RecoveryExhausted, Fail, HardFailure,
     Finish, Reported
<1>7. CASE BusinessOutcome
  BY <1>1, <1>7 DEF BusinessOutcome, Finish, Reported
<1>8. CASE \E r \in Rules : Recover(r) \/ RecoverRaises(r)
  BY <1>1, <1>8 DEF Recover, RecoverRaises, Leave, Reported
<1>9. CASE Recheck
  BY <1>1, <1>9 DEF Recheck, ClassifiedAway, StepDone, HardFailure, Finish, Reported
<1>10. CASE Resumed
  BY <1>1, <1>10 DEF Resumed, ClassifiedAway, StepDone, HardFailure, Finish, Reported
<1>11. CASE Operator \/ PageMoves \/ UNCHANGED vars
  BY <1>1, <1>11 DEF Operator, PageMoves, vars, engineVars, Reported
<1> QED BY <1>2, <1>3, <1>4, <1>5, <1>6, <1>7, <1>8, <1>9, <1>10, <1>11
        DEF Next, Engine, Terminated

LEMMA NextConcluded ==
  ASSUME IInv, Reported, Concluded, [Next]_vars PROVE Concluded'
<1> USE DEF Goes, place, ledger, control, consoleVars, Underway, Exceptions
<1>1. /\ step \in 1 .. Len(Plan) + 1 /\ 1 \in Steps
      /\ reports \in [Steps -> ReportStatus]
      /\ counts \in [Rules -> Nat]
      /\ Underway => step \in Steps
      /\ pc = "done" <=> result # "none"
  BY StepNumbers DEF IInv, TypeOK, EngineTypeOK, InStep, RunningInv
<1>2. CASE Operator \/ PageMoves
  <2>1. UNCHANGED <<pc, step, reports, acts, counts, result, saved>>
    BY <1>2 DEF Operator, PageMoves, engineVars
  <2> QED BY <2>1 DEF Concluded
<1>3. CASE UNCHANGED vars
  BY <1>3 DEF vars, engineVars, Concluded
<1>4. CASE Engine /\ result' = "none"
  BY <1>4 DEF Concluded
<1>5. CASE Engine /\ result' # "none"
  <2>1. result = "none" /\ pc # "done" /\ ~saved
    BY <1>1, <1>5 DEF Engine, ValidateParams, OpenEntry, BeginStep, Succeed,
       ResolveTarget, ResolveFails, CheckAction, AskConfirmation, Confirmed, Act,
       ActRaises, FillMisread, VerifyHolds, VerifyFails, QueryRaises, AsksUnguarded,
       BusinessOutcome, RecoveryExhausted, Recover, RecoverRaises, Recheck, Escalate,
       Resumed, Fail, Reported
  <2>2. CASE ValidateParams \/ OpenEntry
    <3>1. acts[step] = 0 /\ acts' = acts /\ step' = step
      BY <1>1, <2>2 DEF ValidateParams, OpenEntry, Reported, IInv, ActsInOrder, NotYet
    <3> QED BY <2>1, <2>2, <3>1 DEF ValidateParams, OpenEntry, Leave, Concluded
  <2>3. CASE Succeed \/ BusinessOutcome
    BY <2>3 DEF Succeed, BusinessOutcome, Finish, Concluded
  <2>4. CASE Confirmed \/ FillMisread \/ RecoveryExhausted \/ Recheck \/ Resumed \/ Fail
    <3>1. HardFailure /\ step' = step /\ Underway
      BY <1>5, <2>1, <2>4
      DEF Confirmed, FillMisread, RecoveryExhausted, Recheck, Resumed, Fail,
          ClassifiedAway, StepDone
    <3> QED BY <1>1, <3>1 DEF HardFailure, Finish, Concluded
  <2>5. CASE CheckAction
    <3>1. acts[step] = 0 /\ acts' = acts /\ step' = step
      BY <1>1, <2>5 DEF CheckAction, IInv, ActsInOrder, NotYet
    <3> QED BY <1>5, <2>1, <2>5, <3>1 DEF CheckAction, Leave, Concluded
  <2>6. CASE \E r \in Rules : Recover(r) \/ RecoverRaises(r)
    <3>1. PICK r \in Rules : RecoverRaises(r)
      BY <1>5, <2>1, <2>6 DEF Recover
    <3>2. counts'[r] > 0
      BY <1>1, <3>1 DEF RecoverRaises
    <3> QED BY <2>1, <3>1, <3>2 DEF RecoverRaises, Leave, Concluded
  <2>7. CASE QueryRaises
    BY <2>1, <2>7 DEF QueryRaises, Leave, Concluded
  <2>8. CASE BeginStep \/ ResolveTarget \/ ResolveFails \/ AskConfirmation \/ Act
             \/ ActRaises \/ VerifyHolds \/ VerifyFails \/ Escalate
    BY <1>5, <2>1, <2>8 DEF BeginStep, ResolveTarget, ResolveFails, AskConfirmation,
       Act, ActRaises, VerifyHolds, VerifyFails, Escalate, StepDone, Classify
  <2> QED BY <1>5, <2>2, <2>3, <2>4, <2>5, <2>6, <2>7, <2>8 DEF Engine
<1> QED BY <1>2, <1>3, <1>4, <1>5 DEF Next, Terminated

LEMMA NextLastIsOnFile ==
  ASSUME IInv, LastIsOnFile, [Next]_vars PROVE LastIsOnFile'
<1>1. ConsoleTypeOK(Steps) /\ Len(ivLog) \in Nat
  BY DEF IInv, TypeOK, ConsoleTypeOK
<1>2. CASE AskConfirmation \/ Escalate
  <2>1. PICK reason \in Reasons : RaiseIntervention(reason, step)
    BY <1>2 DEF AskConfirmation, Escalate, Reasons
  <2>2. holder # "human"
    BY <1>2 DEF AskConfirmation, Escalate, Goes, IInv, HandoffInv
  <2> QED BY <1>1, <2>1, <2>2 DEF RaiseIntervention, ConsoleTypeOK, LastIsOnFile
<1>3. CASE Operator /\ ReturnControl
  <2>1. PICK res \in Resolutions : EndHandoff(res)
    BY <1>3 DEF ReturnControl
  <2>2. request # NoRequest
    BY <2>1 DEF EndHandoff, IInv, HandoffInv, NoRequest
  <2>3. /\ Len(ivLog') = Len(ivLog) + 1
        /\ ivLog'[Len(ivLog')] = request'
        /\ \A k \in 1 .. Len(ivLog) : ivLog'[k] = ivLog[k]
        /\ request'.reason = request.reason
    BY <1>1, <2>1, <2>2, NextConsoleTypeOK, LogGrows DEF Requests
  <2> SUFFICES ASSUME NEW r \in Reasons
               PROVE  \/ \E k \in 1 .. Len(ivLog') :
                           /\ ivFile'[r] = ivLog'[k] /\ ivLog'[k].reason = r
                           /\ \A j \in k + 1 .. Len(ivLog') : ivLog'[j].reason # r
                      \/ ivFile'[r] = NoRequest
                           /\ \A k \in 1 .. Len(ivLog') : ivLog'[k].reason # r
    BY DEF LastIsOnFile
  <2>4. CASE r = request.reason
    <3>1. ivFile'[r] = request'
      BY <1>1, <2>1, <2>4 DEF EndHandoff, ConsoleTypeOK
    <3> QED BY <1>1, <2>3, <2>4, <3>1
  <2>5. CASE r # request.reason
    <3>1. ivFile'[r] = ivFile[r]
      BY <1>1, <2>1, <2>5 DEF EndHandoff, ConsoleTypeOK
    <3>2. CASE \E k \in 1 .. Len(ivLog) :
                 /\ ivFile[r] = ivLog[k] /\ ivLog[k].reason = r
                 /\ \A j \in k + 1 .. Len(ivLog) : ivLog[j].reason # r
      <4>1. PICK k \in 1 .. Len(ivLog) :
                 /\ ivFile[r] = ivLog[k] /\ ivLog[k].reason = r
                 /\ \A j \in k + 1 .. Len(ivLog) : ivLog[j].reason # r
        BY <3>2
      <4>2. ivFile'[r] = ivLog'[k] /\ ivLog'[k].reason = r /\ k \in 1 .. Len(ivLog')
        BY <1>1, <2>3, <3>1, <4>1
      <4>3. \A j \in k + 1 .. Len(ivLog') : ivLog'[j].reason # r
        BY <1>1, <2>3, <2>5, <4>1
      <4> QED BY <4>2, <4>3
    <3>3. CASE ivFile[r] = NoRequest /\ \A k \in 1 .. Len(ivLog) : ivLog[k].reason # r
      BY <1>1, <2>3, <2>5, <3>1, <3>3
    <3> QED BY <2>5, <3>2, <3>3 DEF LastIsOnFile
  <2> QED BY <2>4, <2>5
<1>4. CASE ~(AskConfirmation \/ Escalate) /\ ~(Operator /\ ReturnControl)
  <2>1. UNCHANGED <<holder, request, ivLog, ivFile>>
    BY <1>4
    DEF Next, Engine, Operator, PageMoves, Terminated, vars, consoleVars, control,
        ValidateParams, OpenEntry, BeginStep, Succeed, ResolveTarget, ResolveFails,
        CheckAction, Confirmed, Act, ActRaises, FillMisread, VerifyHolds,
        VerifyFails, QueryRaises, BusinessOutcome, RecoveryExhausted, Recover,
        RecoverRaises, Recheck, Resumed, Fail, OperatorCommand, Look, Goto, Operate,
        OperateFails
  <2> QED BY <2>1 DEF LastIsOnFile
<1> QED BY <1>2, <1>3, <1>4

\* The bucket, the reports and the intervention files of a run say what happened.
THEOREM RecordsAreTrue == Spec => []RecordsTellTheTruth
<1> DEFINE RInv == Reported /\ Concluded /\ LastIsOnFile
<1>1. Init => RInv
  <2> SUFFICES ASSUME Init PROVE RInv
    OBVIOUS
  <2>1. Reported /\ Concluded
    BY StepNumbers DEF Init, Reported, Underway, Concluded, Exceptions
  <2>2. ivLog = <<>> /\ \A r \in Reasons : ivFile[r] = NoRequest
    BY DEF Init, ConsoleInit
  <2> QED BY <2>1, <2>2 DEF LastIsOnFile
<1>2. IInv /\ RInv /\ [Next]_vars => RInv'
  BY NextReported, NextConcluded, NextLastIsOnFile
<1>3. IInv /\ RInv => RecordsTellTheTruth
  <2> SUFFICES ASSUME IInv, RInv PROVE RecordsTellTheTruth
    OBVIOUS
  <2>1. SuccessIsVerified
    <3>1. /\ Steps = 1 .. Len(Plan) /\ Len(Plan) \in Nat /\ verified \in SUBSET Steps
          /\ result = "success" => step = Len(Plan) + 1
      BY StepNumbers DEF IInv, TypeOK, EngineTypeOK, Concluded, Steps
    <3>2. \A s \in Steps : s < step => s \in verified /\ reports[s] \in Passing
      BY DEF Reported
    <3>3. result = "success" => \A s \in Steps : s \in verified /\ reports[s] \in Passing
      BY <3>1, <3>2
    <3>4. result = "success" => verified = Steps
      BY <3>1, <3>3
    <3> QED BY <3>3, <3>4 DEF SuccessIsVerified, Passing
  <2>2. FailureIsLocated
    BY DEF Reported, Concluded, Passing, FailureIsLocated
  <2>3. RaisesAreLocated
    BY StepNumbers
    DEF Reported, Concluded, Passing, RaisesAreLocated, IInv, ActsInOrder
  <2> QED BY <2>1, <2>2, <2>3 DEF RecordsTellTheTruth
<1> HIDE DEF RInv
<1> QED BY <1>1, <1>2, <1>3, Invariance, PTL DEF Spec

--------------------------------------------------------------------------------
\* Past the gate, the action is of a type the policy permits.
TypeGated ==
  pc \in {"confirm", "confirming", "act"} => Plan[step].action \in AllowedActions

\* At "act" without a person's word, the gate has just passed this very page, or
\* the page has moved by itself since.
ActGated ==
  pc = "act" /\ ~NeedsPerson /\ Plan[step].action # "navigate" =>
    CheckUrl(page) \/ strayed

LEMMA NextTypeGated ==
  ASSUME IInv, TypeGated, [Next]_vars PROVE TypeGated'
<1> USE DEF Goes, place, control, consoleVars
<1>1. AllowedActions' = AllowedActions
  BY DEF Next, vars, AllowedActions
<1>2. CASE CheckAction
  BY <1>1, <1>2 DEF CheckAction, Leave, GateAllows, TypeGated
<1>3. CASE AskConfirmation \/ Confirmed
  BY <1>1, <1>3 DEF AskConfirmation, Confirmed, HardFailure, Finish, TypeGated
<1>4. CASE Operator \/ PageMoves \/ UNCHANGED vars
  BY <1>1, <1>4 DEF Operator, PageMoves, vars, engineVars, TypeGated
<1>5. CASE Engine /\ ~CheckAction /\ ~AskConfirmation /\ ~Confirmed
  BY <1>5 DEF Engine, ValidateParams, OpenEntry, BeginStep, Succeed, ResolveTarget,
     ResolveFails, Act, ActRaises, FillMisread, VerifyHolds,
     VerifyFails, QueryRaises, BusinessOutcome, RecoveryExhausted, Recover,
     RecoverRaises, Recheck, Escalate, Resumed, Fail, Finish, Leave, HardFailure,
     StepDone, ClassifiedAway, Classify, TypeGated
<1> QED BY <1>2, <1>3, <1>4, <1>5 DEF Next, Terminated

LEMMA NextActGated ==
  ASSUME IInv, ActGated, [Next]_vars PROVE ActGated'
<1> SUFFICES ASSUME pc' = "act", ~NeedsPerson', Plan[step'].action # "navigate"
             PROVE  CheckUrl(page') \/ strayed'
  BY DEF ActGated, CheckUrl
<1> USE DEF Goes, place, control, consoleVars
<1>1. CASE CheckAction
  <2>1. page' = page /\ step' = step /\ CheckUrl(page)
    BY <1>1 DEF CheckAction, Leave, GateAllows
  <2> QED BY <2>1
<1>2. CASE Confirmed
  <2>1. NeedsPerson /\ step' = step
    BY <1>2 DEF Confirmed, HardFailure, Finish, IInv, HandoffInv
  <2> QED BY <2>1, CallerStays DEF NeedsPerson
<1>3. CASE Operator
  BY <1>3 DEF Operator, engineVars, OperatorCommand, Look, Goto, Operate,
     OperateFails, ReturnControl, EndHandoff, IInv, HandoffInv
<1>4. CASE PageMoves
  BY <1>4 DEF PageMoves
<1>5. CASE UNCHANGED vars
  BY <1>5, CallerStays DEF vars, engineVars, ActGated, NeedsPerson
<1>6. CASE Engine /\ ~CheckAction /\ ~Confirmed
  BY <1>6 DEF Engine, ValidateParams, OpenEntry, BeginStep, Succeed, ResolveTarget,
     ResolveFails, AskConfirmation, Act, ActRaises, FillMisread, VerifyHolds,
     VerifyFails, QueryRaises, BusinessOutcome, RecoveryExhausted, Recover,
     RecoverRaises, Recheck, Escalate, Resumed, Fail, Finish, Leave, HardFailure,
     StepDone, ClassifiedAway, Classify
<1> QED BY <1>1, <1>2, <1>3, <1>4, <1>5, <1>6 DEF Next, Terminated

\* Automation carries out only what the policy permits, and acts on a page the gate
\* rejects only where the page moved by itself after the gate was asked or a person
\* approved that very step.
THEOREM ActsOnlyWhereAllowed == Spec => ActsWhereAllowed
<1> DEFINE Where ==
      \A s \in Steps : acts'[s] # acts[s] =>
        /\ Plan[s].action \in AllowedActions
        /\ \/ Plan[s].action = "navigate"
           \/ CheckUrl(page)
           \/ strayed
           \/ \E k \in 1 .. Len(ivLog) : ApprovedFor(k, s)
<1>1. Init => TypeGated /\ ActGated
  BY DEF Init, TypeGated, ActGated
<1>2. IInv /\ TypeGated /\ ActGated /\ [Next]_vars => TypeGated' /\ ActGated'
  BY NextTypeGated, NextActGated
<1>3. IInv /\ TypeGated /\ ActGated /\ [Next]_vars => [Where]_vars
  <2> SUFFICES ASSUME IInv, TypeGated, ActGated, [Next]_vars, NEW s \in Steps,
                      acts'[s] # acts[s]
               PROVE  /\ Plan[s].action \in AllowedActions
                      /\ \/ Plan[s].action = "navigate"
                         \/ CheckUrl(page)
                         \/ strayed
                         \/ \E k \in 1 .. Len(ivLog) : ApprovedFor(k, s)
    OBVIOUS
  <2>1. pc = "act" /\ s = step
    BY ActsChange DEF IInv, TypeOK, EngineTypeOK
  <2> QED BY <2>1 DEF IInv, ActApproved, ActGated, TypeGated
<1>4. ActsWhereAllowed <=> [][Where]_vars
  BY DEF ActsWhereAllowed
<1> HIDE DEF Where
<1> QED BY <1>1, <1>2, <1>3, <1>4, Invariance, PTL DEF Spec
================================================================================
