------------------------------ MODULE ReplayEngine -----------------------------
(***************************************************************************)
(* cua/replay/engine.py: one call of ReplayEngine.run over a recorded       *)
(* capability, together with the operator console it cedes the page to.     *)
(*                                                                          *)
(* A capability is its sequence of steps (Plan); a step is what the engine  *)
(* branches on.  Everything the page decides -- whether a target resolves,  *)
(* a detector or a checkpoint holds, an action raises, where a click leads  *)
(* -- is a choice of the step that asks, made afresh each time it asks,     *)
(* because the page changes under the engine, and may go elsewhere by        *)
(* itself between any two steps (PageMoves).  The strict order of the       *)
(* triage is kept: an action for bucket (b) or (c) is the run of            *)
(* _classify_or_fail in which the earlier probes did not hold.              *)
(***************************************************************************)
EXTENDS OperatorConsole, FiniteSets

CONSTANTS
  Plan,              \* Capability.steps
  Rules,             \* ids of Capability.recovery_rules
  RuleKind,          \* [Rules -> RecoveryActionKind]
  MaxApplications,   \* [Rules -> Nat], RecoveryRule.max_applications
  Callers            \* the flags and the policy an engine may be built with

ActionTypes == {"navigate", "click", "fill", "select", "press", "read"}
RuleKinds == {"click", "reload", "wait_retry"}

StepRecords ==
  [action : ActionTypes,    \* Step.action
   target : BOOLEAN,        \* Step.target is not None
   risky  : BOOLEAN,        \* Step.risk == RISKY
   output : BOOLEAN]        \* Step.output_name names a declared output

ASSUME PlanAssumption == Plan \in Seq(StepRecords) /\ Len(Plan) > 0
ASSUME RulesAssumption ==
  /\ RuleKind \in [Rules -> RuleKinds]
  /\ MaxApplications \in [Rules -> Nat]
ASSUME CallerAssumption ==
  Callers \subseteq [confirm_risky : BOOLEAN, escalate_on_failure : BOOLEAN,
                     allowed_actions : SUBSET ActionTypes]

VARIABLES
  caller,    \* confirm_risky, escalate_on_failure and the gate's policy,
             \* which never change
  pc,        \* where the engine's thread is
  step,      \* index in Plan of the step being run
  attempt,   \* the loop variable of _resolve_with_classification
  origin,    \* which part of the step called _classify_or_fail
  handle,    \* whether the step holds a resolved element
  counts,    \* _recovery_counts
  reports,   \* _step_reports: the status of each report
  outputs,   \* steps whose output is in _outputs
  result,    \* the terminal status, or how run was left without one
  saved,     \* whether result.json is in the run directory
  acts,      \* history: how often automation carried out each step's action
  verified,  \* history: steps whose checkpoint was seen to hold
  strayed    \* history: the page has moved by itself since the gate was asked

engineVars == <<pc, step, attempt, origin, handle, counts, reports, outputs,
                result, saved, acts, verified>>
vars == <<consoleVars, engineVars, strayed, caller>>

ConfirmRisky == caller.confirm_risky
EscalateOnFailure == caller.escalate_on_failure
AllowedActions == caller.allowed_actions

\* PolicyGate.check_action: a PolicyViolation is raised when this is false.
GateAllows(action, url) == action \in AllowedActions /\ CheckUrl(url)

\* Parts of vars that most actions leave alone together.
control == <<holder, request, snapshot, ivLog, ivFile>>
place == <<step, attempt, handle>>
ledger == <<outputs, acts, verified, strayed>>

Steps == 1 .. Len(Plan)
Pcs == {"validate", "entry", "begin", "resolve", "classify", "recheck", "gate",
        "confirm", "confirming", "failing", "act", "verify", "done"}
Origins == {"resolve", "act", "verify"}
Buckets == {"success", "business_outcome", "hard_failure"}
Exceptions == {"param_error", "policy_violation", "exception"}
ReportStatus == {"absent", "ok", "degraded_locator", "recovered",
                 "business_outcome", "failed"}

EngineTypeOK ==
  /\ pc \in Pcs
  /\ step \in 1 .. Len(Plan) + 1
  /\ attempt \in {1, 2}
  /\ origin \in Origins
  /\ handle \in BOOLEAN
  /\ counts \in [Rules -> Nat]
  /\ reports \in [Steps -> ReportStatus]
  /\ outputs \in SUBSET Steps
  /\ result \in Buckets \cup Exceptions \cup {"none"}
  /\ saved \in BOOLEAN
  /\ acts \in [Steps -> Nat]
  /\ verified \in SUBSET Steps
  /\ strayed \in BOOLEAN

\* Every variable has its type, through exceptions, retries and handoffs.
TypeOK == ConsoleTypeOK(Steps) /\ EngineTypeOK

Init ==
  /\ ConsoleInit
  /\ caller \in Callers
  /\ pc = "validate"
  /\ step = 1
  /\ attempt = 1
  /\ origin = "resolve"
  /\ handle = FALSE
  /\ counts = [r \in Rules |-> 0]
  /\ reports = [s \in Steps |-> "absent"]
  /\ outputs = {}
  /\ result = "none"
  /\ saved = FALSE
  /\ acts = [s \in Steps |-> 0]
  /\ verified = {}
  /\ strayed = FALSE

--------------------------------------------------------------------------------
(* Ways to leave a step.                                                    *)
(*                                                                          *)
(* An operator named ..._Fault is its neighbour with a bug this code could   *)
(* plausibly have had.  Nothing uses it: it stands in for the neighbour when *)
(* a property is tested for being able to fail.                              *)

Goes(label) ==
  /\ pc' = label
  /\ UNCHANGED <<result, saved>>

\* A terminal result reached inside the step loop, made durable by _finalize.
Finish(bucket) ==
  /\ pc' = "done"
  /\ result' = bucket
  /\ saved' = TRUE

\* run left without _finalize, nothing written: by an exception no handler of
\* run catches, or by an early return.
Leave(how) ==
  /\ pc' = "done"
  /\ result' = how
  /\ UNCHANGED saved

\* _hard_failure returned from a step, then _finalize.
HardFailure ==
  /\ Finish("hard_failure")
  /\ reports' = [reports EXCEPT ![step] = "failed"]

\* _run_step returned None: the loop of run moves on.
StepDone ==
  /\ step' = step + 1
  /\ Goes("begin")

\* Resolution is tried for as long as it is classified away.
ClassifiedAway_EndlessFault ==
  \/ /\ origin = "resolve"
     /\ attempt' = attempt + 1
     /\ Goes("resolve")
     /\ UNCHANGED <<step, handle>>
  \/ /\ origin # "resolve"
     /\ StepDone
     /\ UNCHANGED <<attempt, handle>>

\* The whole step is tried again, whoever called for the triage.
ClassifiedAway_RetryFault ==
  /\ Goes("gate")
  /\ UNCHANGED <<place>>

\* _classify_or_fail returned None to its caller.  Resolution tries a second
\* time and then falls out of its loop with no element; the other two callers
\* return None to run, which counts the step as finished.
ClassifiedAway ==
  \/ /\ origin = "resolve" /\ attempt = 1
     /\ attempt' = 2
     /\ Goes("resolve")
     /\ UNCHANGED <<step, handle>>
  \/ /\ origin = "resolve" /\ attempt = 2
     /\ handle' = FALSE
     /\ Goes("gate")
     /\ UNCHANGED <<step, attempt>>
  \/ /\ origin # "resolve"
     /\ StepDone
     /\ UNCHANGED <<attempt, handle>>

--------------------------------------------------------------------------------
(* ReplayEngine.run *)

\* _validate_params: a missing or an unknown parameter is rejected before the
\* browser moves.
ValidateParams ==
  /\ pc = "validate"
  /\ Goes("entry") \/ Leave("param_error")
  /\ UNCHANGED <<consoleVars, place, origin, counts, reports, ledger>>

\* Gate and load the entry page.  A PolicyViolation is raised again; any other
\* error is a hard failure that run returns without calling _finalize.
OpenEntry ==
  /\ pc = "entry"
  /\ \/ /\ Goes("begin")
        /\ page' \in Urls
     \/ /\ Leave("policy_violation")
        /\ UNCHANGED page
     \/ /\ Leave("hard_failure")
        /\ page' \in Urls
  /\ UNCHANGED <<control, place, origin, counts, reports, ledger>>

BeginStep ==
  /\ pc = "begin"
  /\ step \in Steps
  /\ reports' = [reports EXCEPT ![step] = "ok"]
  /\ attempt' = 1
  /\ handle' = FALSE
  /\ Goes(IF Plan[step].target THEN "resolve" ELSE "gate")
  /\ UNCHANGED <<consoleVars, step, origin, counts, ledger>>

\* The loop of run is over.
Succeed ==
  /\ pc = "begin"
  /\ step = Len(Plan) + 1
  /\ Finish("success")
  /\ UNCHANGED <<consoleVars, place, origin, counts, reports, ledger>>

--------------------------------------------------------------------------------
(* _run_step *)

Classify(from) ==
  /\ origin' = from
  /\ Goes("classify")

\* resolve_target: one element, by the first locator or by a later one.
ResolveTarget ==
  /\ pc = "resolve"
  /\ handle' = TRUE
  /\ \/ UNCHANGED reports
     \/ reports' = [reports EXCEPT ![step] = "degraded_locator"]
  /\ Goes("gate")
  /\ UNCHANGED <<consoleVars, step, attempt, origin, counts, ledger>>

ResolveFails ==
  /\ pc = "resolve"
  /\ Classify("resolve")
  /\ UNCHANGED <<consoleVars, place, counts, reports, ledger>>

\* A step is confirmed only on its first resolution attempt.
NeedsPerson_AttemptFault == Plan[step].risky /\ ~ConfirmRisky /\ attempt = 1

\* A RISKY step waits for a person unless the caller confirmed it.
NeedsPerson == Plan[step].risky /\ ~ConfirmRisky

\* The gate is asked for navigations only.
CheckAction_Fault ==
  /\ pc = "gate"
  /\ \E url \in IF Plan[step].action = "navigate" THEN Urls ELSE {"allowed"} :
       \/ /\ GateAllows(Plan[step].action, url)
          /\ Goes(IF NeedsPerson THEN "confirm" ELSE "act")
       \/ /\ ~GateAllows(Plan[step].action, url)
          /\ Leave("policy_violation")
  /\ strayed' = FALSE
  /\ UNCHANGED <<consoleVars, place, origin, counts, reports, outputs, acts, verified>>

\* The pre-action gate: the action must be of a type the policy permits; a
\* navigation is judged by the URL it goes to (it comes from the parameters),
\* every other action by the page it runs on.
CheckAction ==
  /\ pc = "gate"
  /\ \E url \in IF Plan[step].action = "navigate" THEN Urls ELSE {page} :
       \/ /\ GateAllows(Plan[step].action, url)
          /\ Goes(IF NeedsPerson THEN "confirm" ELSE "act")
       \/ /\ ~GateAllows(Plan[step].action, url)
          /\ Leave("policy_violation")
  /\ strayed' = FALSE
  /\ UNCHANGED <<consoleVars, place, origin, counts, reports, outputs, acts, verified>>

AskConfirmation ==
  /\ pc = "confirm"
  /\ RaiseIntervention("risky_action_confirmation", step)
  /\ Goes("confirming")
  /\ UNCHANGED <<place, origin, counts, reports, ledger>>

\* Anything but a refusal counts as approval.
Confirmed_ResumeFault ==
  /\ pc = "confirming"
  /\ holder = "automation"
  /\ \/ /\ request.resolution \in {"approved", "resumed"}
        /\ Goes("act")
        /\ UNCHANGED reports
     \/ /\ request.resolution \in {"denied", "aborted"}
        /\ HardFailure
  /\ UNCHANGED <<consoleVars, place, origin, counts, ledger>>

\* ... and go on only if the answer was "approve".
Confirmed ==
  /\ pc = "confirming"
  /\ holder = "automation"
  /\ \/ /\ request.resolution = "approved"
        /\ Goes("act")
        /\ UNCHANGED reports
     \/ /\ request.resolution # "approved"
        /\ HardFailure
  /\ UNCHANGED <<consoleVars, place, origin, counts, ledger>>

\* Only a step with an element can act on it; a navigation needs none.
CanAct == handle \/ Plan[step].action = "navigate"

MovesPage(action) == action # "read"

\* The action goes through.  Reading fills the step's output; everything else
\* may take the page anywhere.
Act ==
  /\ pc = "act"
  /\ CanAct
  /\ acts' = [acts EXCEPT ![step] = @ + 1]
  /\ IF MovesPage(Plan[step].action) THEN page' \in Urls ELSE UNCHANGED page
  /\ outputs' = IF Plan[step].action = "read" /\ Plan[step].output
                THEN outputs \cup {step} ELSE outputs
  /\ Goes("verify")
  /\ UNCHANGED <<control, place, origin, counts, reports, verified, strayed>>

\* The action raises: at once when there is no element, else possibly after it
\* took effect.
ActRaises ==
  /\ pc = "act"
  /\ \/ /\ CanAct
        /\ acts' = [acts EXCEPT ![step] = @ + 1]
        /\ IF MovesPage(Plan[step].action) THEN page' \in Urls ELSE UNCHANGED page
     \/ UNCHANGED <<acts, page>>
  /\ Classify("act")
  /\ UNCHANGED <<control, place, counts, reports, outputs, verified, strayed>>

\* A fill is read back before the checkpoint is looked at.
FillMisread ==
  /\ pc = "verify"
  /\ Plan[step].action = "fill"
  /\ HardFailure
  /\ UNCHANGED <<consoleVars, place, origin, counts, ledger>>

VerifyHolds ==
  /\ pc = "verify"
  /\ verified' = verified \cup {step}
  /\ StepDone
  /\ UNCHANGED <<consoleVars, attempt, origin, handle, counts, reports, outputs,
                 acts, strayed>>

VerifyFails ==
  /\ pc = "verify"
  /\ Classify("verify")
  /\ UNCHANGED <<consoleVars, place, counts, reports, ledger>>

\* Where the engine asks the page something outside every handler: the settle
\* wait of resolve_target, in a step's own resolution and in any probe with a
\* target, the poll of probe_holds, and the title in _observed_summary.
AsksUnguarded ==
  \/ pc \in {"resolve", "verify", "classify", "recheck"}
  \/ pc = "failing" /\ holder = "automation" /\ request.resolution = "resumed"

\* The page does not answer (it navigates, it crashed, it was closed): the
\* browser's error goes through run to its caller.
QueryRaises ==
  /\ AsksUnguarded
  /\ Leave("exception")
  /\ UNCHANGED <<consoleVars, place, origin, counts, reports, ledger>>

--------------------------------------------------------------------------------
(* _classify_or_fail *)

\* Bucket (a): a declared business outcome shows.
BusinessOutcome ==
  /\ pc = "classify"
  /\ reports' = [reports EXCEPT ![step] = "business_outcome"]
  /\ Finish("business_outcome")
  /\ UNCHANGED <<consoleVars, place, origin, counts, ledger>>

\* Bucket (b): the first rule whose detector holds has used up its budget.
RecoveryExhausted ==
  /\ pc = "classify"
  /\ \E r \in Rules : counts[r] >= MaxApplications[r]
  /\ HardFailure
  /\ UNCHANGED <<consoleVars, place, origin, counts, ledger>>

\* The action type _apply_recovery tells the gate.
GatedAs(r) == IF RuleKind[r] = "click" THEN "click" ELSE "navigate"

\* Resolution is retried while a rule matches, and nothing counts how often.
Recover_Fault(r) ==
  /\ pc = "classify"
  /\ GateAllows(GatedAs(r), page)
  /\ reports' = [reports EXCEPT ![step] = "recovered"]
  /\ Goes(IF origin = "resolve" THEN "resolve" ELSE "recheck")
  /\ UNCHANGED <<consoleVars, place, origin, counts, ledger>>

\* ... or is counted and applied, gated as a click or a navigation on the page
\* it finds.  The first resolution attempt is then made again; elsewhere the
\* checkpoint decides.
Recover(r) ==
  /\ pc = "classify"
  /\ counts[r] < MaxApplications[r]
  /\ GateAllows(GatedAs(r), page)
  /\ counts' = [counts EXCEPT ![r] = @ + 1]
  /\ IF RuleKind[r] = "wait_retry" THEN UNCHANGED page ELSE page' \in Urls
  /\ reports' = [reports EXCEPT ![step] = "recovered"]
  /\ IF origin = "resolve" /\ attempt = 1
     THEN attempt' = 2 /\ Goes("resolve")
     ELSE UNCHANGED attempt /\ Goes("recheck")
  /\ UNCHANGED <<control, step, origin, handle, ledger>>

\* ... or is counted and fails: the gate rejects it, or the click, the reload
\* or the wait itself raises.  Neither exception is caught.
RecoverRaises(r) ==
  /\ pc = "classify"
  /\ counts[r] < MaxApplications[r]
  /\ counts' = [counts EXCEPT ![r] = @ + 1]
  /\ \/ ~GateAllows(GatedAs(r), page) /\ Leave("policy_violation")
     \/ GateAllows(GatedAs(r), page) /\ Leave("exception")
  /\ UNCHANGED <<consoleVars, place, origin, reports, ledger>>

\* The checkpoint after a recovery.
Recheck ==
  /\ pc = "recheck"
  /\ \/ /\ ClassifiedAway
        /\ verified' = verified \cup {step}
        /\ UNCHANGED reports
     \/ /\ HardFailure
        /\ UNCHANGED <<place, verified>>
  /\ UNCHANGED <<consoleVars, origin, counts, outputs, acts, strayed>>

\* Bucket (c), attended: cede the page to a person.
Escalate ==
  /\ pc = "classify"
  /\ EscalateOnFailure
  /\ RaiseIntervention("replay_hard_failure", step)
  /\ Goes("failing")
  /\ UNCHANGED <<place, origin, counts, reports, ledger>>

\* A resumed step is not verified again.
Resumed_Fault ==
  /\ pc = "failing"
  /\ holder = "automation"
  /\ IF request.resolution = "resumed"
     THEN /\ ClassifiedAway
          /\ reports' = [reports EXCEPT ![step] = "recovered"]
     ELSE HardFailure /\ UNCHANGED <<place>>
  /\ UNCHANGED <<consoleVars, origin, counts, ledger>>

\* ... and go on only if the answer was "resume" and the checkpoint now holds.
Resumed ==
  /\ pc = "failing"
  /\ holder = "automation"
  /\ \/ /\ request.resolution = "resumed"
        /\ ClassifiedAway
        /\ reports' = [reports EXCEPT ![step] = "recovered"]
        /\ verified' = verified \cup {step}
     \/ /\ HardFailure
        /\ UNCHANGED <<place, verified>>
  /\ UNCHANGED <<consoleVars, origin, counts, outputs, acts, strayed>>

\* Bucket (c), unattended.
Fail ==
  /\ pc = "classify"
  /\ ~EscalateOnFailure
  /\ HardFailure
  /\ UNCHANGED <<consoleVars, place, origin, counts, ledger>>

--------------------------------------------------------------------------------
Engine ==
  \/ ValidateParams \/ OpenEntry \/ BeginStep \/ Succeed
  \/ ResolveTarget \/ ResolveFails \/ CheckAction
  \/ AskConfirmation \/ Confirmed
  \/ Act \/ ActRaises \/ FillMisread \/ VerifyHolds \/ VerifyFails \/ QueryRaises
  \/ BusinessOutcome \/ RecoveryExhausted \/ Recheck
  \/ \E r \in Rules : Recover(r) \/ RecoverRaises(r)
  \/ Escalate \/ Resumed \/ Fail

Operator ==
  /\ OperatorCommand \/ ReturnControl
  /\ UNCHANGED <<engineVars, strayed>>

\* The page goes elsewhere by itself: a redirect, a timer, a slow response.  A
\* snapshot the operator holds is then of a page that has gone.
PageMoves ==
  /\ pc \notin {"validate", "entry", "done"}
  /\ page' \in Urls
  /\ snapshot' = IF snapshot = "none" THEN "none" ELSE "stale"
  /\ strayed' = TRUE
  /\ UNCHANGED <<holder, request, ivLog, ivFile, engineVars>>

Terminated == pc = "done" /\ UNCHANGED vars

Next ==
  /\ Engine \/ Operator \/ PageMoves \/ Terminated
  /\ UNCHANGED caller

Spec == Init /\ [][Next]_vars

\* The engine's thread always goes on; nothing is asked of the operator.
FairSpec == Spec /\ WF_vars(Engine /\ UNCHANGED caller)
--------------------------------------------------------------------------------
(* Properties the engine has *)

\* The intervention at place k of the log approved the risky step s.
ApprovedFor(k, s) ==
  /\ ivLog[k].reason = "risky_action_confirmation"
  /\ ivLog[k].step = s
  /\ ivLog[k].resolution = "approved"

Refusal(k) ==
  /\ ivLog[k].reason = "risky_action_confirmation"
  /\ ivLog[k].resolution # "approved"

\* A RISKY step is carried out by automation only if the caller confirmed risky
\* steps or a person approved an intervention raised for that very step: an
\* approval given for another step, or to another question, is not one.
RiskyNeedsApproval ==
  \A s \in Steps : acts[s] > 0 /\ Plan[s].risky /\ ~ConfirmRisky =>
    \E k \in 1 .. Len(ivLog) : ApprovedFor(k, s)

\* No retry, recovery or handoff makes automation carry the same step out twice
\* or go back to an earlier one, so a committed write is never repeated blindly.
NeverActsTwice ==
  \A s \in Steps : acts[s] > 0 => acts[s] = 1 /\ s <= step

\* Once a person has answered a confirmation with anything but "approve",
\* automation carries out no further step or recovery and asks nobody again, and
\* the run ends as a hard failure.
RefusalIsFinal ==
  [][(\E k \in 1 .. Len(ivLog) : Refusal(k))
       => /\ UNCHANGED <<acts, counts, ivLog, holder>>
          /\ result' \in {"none", "hard_failure"}]_vars

\* The gate is the choke point: automation carries out only actions of a type the
\* policy permits, and acts on a page the gate rejects only if the page got there
\* by itself after the gate was asked, or a person who approved that very step
\* had it in hand since (the gate is asked once, before the confirmation).
ActsWhereAllowed ==
  [][\A s \in Steps : acts'[s] # acts[s] =>
       /\ Plan[s].action \in AllowedActions
       /\ \/ Plan[s].action = "navigate"
          \/ CheckUrl(page)
          \/ strayed
          \/ \E k \in 1 .. Len(ivLog) : ApprovedFor(k, s)]_vars

\* SUCCESS is reported only when the checkpoint of every step was seen to hold,
\* after whatever recoveries and handoffs the step needed, and no step report
\* says it failed.
SuccessIsVerified ==
  result = "success" =>
    /\ verified = Steps
    /\ \A s \in Steps : reports[s] \in {"ok", "degraded_locator", "recovered"}

\* A hard failure names one step, the last one begun, and the reports agree:
\* those before it passed and those behind it were never begun.
FailureIsLocated ==
  result = "hard_failure" /\ saved =>
    /\ reports[step] = "failed"
    /\ \A s \in Steps :
         /\ s < step => reports[s] \in {"ok", "degraded_locator", "recovered"}
         /\ s > step => reports[s] = "absent"

\* A run left by an exception wrote no result, and its reports say how far it got:
\* every step before the one it was at had passed and none behind it was begun.  A
\* gate that raises for a step stops it before automation carried it out; if it
\* was carried out, the gate raised for a recovery, and that is counted.
RaisesAreLocated ==
  result \in Exceptions =>
    /\ ~saved
    /\ \A s \in Steps :
         /\ s < step => reports[s] \in {"ok", "degraded_locator", "recovered"}
         /\ s > step => reports[s] = "absent" /\ acts[s] = 0
    /\ result = "policy_violation" =>
         \/ acts[step] = 0
         \/ \E r \in Rules : counts[r] > 0

\* Interventions of one reason share an id and a file (intervention.py:92); the file
\* has the last of them, open or as it was answered, and never an older one.
LastIsOnFile ==
  \A r \in Reasons :
    \/ holder = "human" /\ request.reason = r /\ ivFile[r] = request
    \/ \E k \in 1 .. Len(ivLog) :
         /\ ivFile[r] = ivLog[k] /\ ivLog[k].reason = r
         /\ \A j \in k + 1 .. Len(ivLog) : ivLog[j].reason # r
    \/ ivFile[r] = NoRequest /\ \A k \in 1 .. Len(ivLog) : ivLog[k].reason # r

\* "Every replay terminates in exactly one of three buckets" (replay/result.py): the
\* bucket, the step reports and the intervention files of a run say what happened.
RecordsTellTheTruth ==
  SuccessIsVerified /\ FailureIsLocated /\ RaisesAreLocated /\ LastIsOnFile

\* Recoveries, retries and interventions cannot keep a run going for ever: it
\* ends, or it stays with an operator who never gives control back; and a caller
\* who confirms risky steps and asks for no escalation always sees it end.
EndsOrWaits ==
  /\ <>[](pc = "done" \/ holder = "human")
  /\ <>(pc = "done" \/ ~ConfirmRisky \/ EscalateOnFailure)

\* What of the run ReplayContract speaks about.
Acted == {s \in Steps : acts[s] > 0}
Granted == {s \in Steps : \E k \in 1 .. Len(ivLog) : ApprovedFor(k, s)}
Refused == \E k \in 1 .. Len(ivLog) : Refusal(k)

Contract == INSTANCE ReplayContract WITH
  Risky       <- {s \in Steps : Plan[s].risky},
  preapproved <- ConfirmRisky,
  Outcomes    <- Buckets \cup Exceptions,
  acted       <- Acted,
  granted     <- Granted,
  refused     <- Refused,
  outcome     <- result

\* The run keeps the promise of ReplayContract: steps in order and once, risky
\* ones only with a word from the caller or a person, nothing after a refusal but
\* a hard failure, and one outcome.
KeepsContract == Contract!Spec
--------------------------------------------------------------------------------
(* Statements of the docs the engine does not keep; each is refuted by a run. *)

\* "SUCCESS: flow completed, all checkpoints held; outputs carries the declared
\* extracted values" (replay/result.py).
SuccessCarriesOutputs ==
  result = "success" =>
    outputs = {s \in Steps : Plan[s].action = "read" /\ Plan[s].output}

\* "Never a blind retry after a possibly committed write" (README.md): automation
\* does not carry out a risky step whose checkpoint it has already seen to hold.
NeverRedoesVerified ==
  [][\A s \in verified : Plan[s].risky => acts'[s] = acts[s]]_vars
================================================================================
