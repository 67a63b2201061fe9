----------------------------- MODULE DiscoveryAgent ----------------------------
(***************************************************************************)
(* One call of DiscoveryAgent.run (cua/discovery/agent.py): the model picks *)
(* an action a turn, the agent carries it out and records it, and at the    *)
(* end the recorder (cua/discovery/recorder.py) keeps of the recording what *)
(* makes a replayable flow.                                                 *)
(*                                                                          *)
(* The page is its URL.  The model's choice, where it leads, and whether a  *)
(* text shows (the expected one, a declared interstitial's) are choices made *)
(* where the code asks.  "fill" stands for select too.  Selectors, templates *)
(* and the wording of observations are left out.                            *)
(***************************************************************************)
EXTENDS Naturals, Sequences

CONSTANTS
  Urls,
  entry_url,        \* spec.entry_url
  Blank,            \* the URL of a new browser's page
  Allowed,          \* the URLs PolicyGate.check_url accepts
  Outputs,          \* the names spec.outputs declares
  max_steps,
  approve_risky

ASSUME AgentAssumptions ==
  /\ entry_url \in Urls /\ Blank \in Urls
  /\ max_steps \in Nat \ {0}
  /\ approve_risky \in BOOLEAN

VARIABLES
  pc,          \* where run is
  turn,
  page,        \* the URL of the live page
  decision,    \* what the model decided this turn
  risky,       \* PolicyGate.classify of the element it picked
  url_before, on_interstitial,   \* locals of _execute
  recording,   \* Recording.actions
  collected,   \* the names in collected_outputs
  outcome, capability,           \* DiscoveryOutcome, [] until there is a capability
  approved,    \* history: the operator has approved this turn's risky action
  strayed      \* history: since the last action kept, the page was moved by
               \* something no artifact holds

locals == <<decision, risky, url_before, on_interstitial, approved>>
results == <<outcome, capability>>
vars == <<pc, turn, page, locals, recording, collected, results, strayed>>

NoOutput == "none"
Moving == {"navigate", "click"}
Decisions ==
  {d \in [tool : {"navigate", "click", "fill", "read"}, expects : BOOLEAN,
          output : Outputs \cup {NoOutput}] :
     /\ d.expects => d.tool \in Moving
     /\ d.output # NoOutput <=> d.tool = "read"}
NoDecision == [tool |-> "none", expects |-> FALSE, output |-> NoOutput]

\* Between two turns the locals of _execute hold nothing.
ClearLocals ==
  /\ decision' = NoDecision /\ risky' = FALSE
  /\ url_before' = Blank /\ on_interstitial' = FALSE
  /\ approved' = FALSE

ExecutedActions ==
  [tool : {"navigate", "click", "fill", "read"}, output : Outputs \cup {NoOutput},
   before : Urls, after : Urls, verified : BOOLEAN, dismissal : BOOLEAN,
   strayed : BOOLEAN]  \* history: strayed, when it was carried out

Handoffs == {"confirm", "blocked", "exhausted"}
Pcs == {"entry", "decide", "execute", "act", "done"} \cup Handoffs
Resolutions == {"approved", "denied", "resumed", "aborted"}
Outcomes == {"none", "success", "aborted", "missing_outputs", "max_steps", "exception"}

TypeOK ==
  /\ pc \in Pcs
  /\ turn \in 1 .. max_steps
  /\ page \in Urls
  /\ decision \in Decisions \cup {NoDecision}
  /\ risky \in BOOLEAN
  /\ url_before \in Urls
  /\ on_interstitial \in BOOLEAN
  /\ recording \in Seq(ExecutedActions)
  /\ collected \subseteq Outputs
  /\ outcome \in Outcomes
  /\ capability \in Seq(ExecutedActions)
  /\ approved \in BOOLEAN
  /\ strayed \in BOOLEAN

Init ==
  /\ pc = "entry" /\ turn = 1
  /\ page = Blank
  /\ decision = NoDecision /\ risky = FALSE
  /\ url_before = Blank /\ on_interstitial = FALSE
  /\ recording = <<>> /\ collected = {}
  /\ outcome = "none" /\ capability = <<>>
  /\ approved = FALSE /\ strayed = FALSE

--------------------------------------------------------------------------------
(* Turns.  An operator named ..._Fault is its neighbour with a bug this code *)
(* could have had; nothing uses it.                                          *)

\* FAULT: one turn too many.
EndTurn_Fault(actions) ==
  /\ pc' = IF turn > max_steps THEN "exhausted" ELSE "decide"
  /\ turn' = turn + 1
  /\ recording' = actions
  /\ ClearLocals
  /\ UNCHANGED results

\* The next round of the loop, or the escalation behind it, when nothing will be
\* made of the actions recorded any more.
EndTurn(actions) ==
  /\ IF turn = max_steps
     THEN pc' = "exhausted" /\ recording' = <<>> /\ UNCHANGED turn
     ELSE pc' = "decide" /\ recording' = actions /\ turn' = turn + 1
  /\ ClearLocals
  /\ UNCHANGED results

Goes(label) == pc' = label /\ UNCHANGED <<turn, recording, results>>

\* run returns or raises without a capability.
Return(how) ==
  /\ pc' = "done" /\ outcome' = how /\ recording' = <<>>
  /\ ClearLocals
  /\ UNCHANGED <<turn, capability>>

Ignored == UNCHANGED <<page, collected, strayed>>

\* The entry URL passes the gate and is opened; the site may redirect.
Enter ==
  /\ pc = "entry" /\ entry_url \in Allowed
  /\ Goes("decide")
  /\ page' \in Urls
  /\ strayed' = (page' # entry_url)
  /\ UNCHANGED <<locals, collected>>

Decide ==
  /\ pc = "decide"
  /\ Goes("execute")
  /\ decision' \in Decisions
  /\ UNCHANGED <<risky, url_before, on_interstitial, approved>>
  /\ Ignored

DecideBlocked ==
  /\ pc = "decide"
  /\ Goes("blocked")
  /\ UNCHANGED locals
  /\ Ignored

--------------------------------------------------------------------------------
(* _execute *)

\* FAULT: a turn that comes to nothing is not counted.
RefMissing_Fault ==
  /\ pc = "execute" /\ decision.tool # "navigate"
  /\ Goes("decide") /\ ClearLocals
  /\ Ignored

\* The reference names no element of the page as it is now.
RefMissing == pc = "execute" /\ decision.tool # "navigate" /\ EndTurn(recording) /\ Ignored

\* PolicyViolation: the page the action runs on, or the URL to navigate to.
PolicyBlocks ==
  /\ pc = "execute"
  /\ decision.tool # "navigate" => page \notin Allowed
  /\ EndTurn(recording) /\ Ignored

\* The gate passes it; a click is classified by the name of its element.
GatePasses ==
  /\ pc = "execute"
  /\ decision.tool # "navigate" => page \in Allowed
  /\ url_before' = page
  /\ on_interstitial' \in BOOLEAN
  /\ risky' \in {FALSE, decision.tool = "click"}
  /\ Goes(IF risky' /\ ~approve_risky THEN "confirm" ELSE "act")
  /\ UNCHANGED <<decision, approved>>
  /\ Ignored

\* FAULT: an action whose expectation failed counts as a detour, wherever it led.
Kept_Fault(a) == a.verified /\ ~a.dismissal

\* build_capability: _advanced, and no step of an interstitial.
Kept(a) ==
  /\ a.verified \/ (a.tool \in Moving /\ a.after # a.before)
  /\ ~a.dismissal

\* The action runs, its expectation is probed, and it is recorded.
Act ==
  /\ pc = "act"
  /\ page' \in IF decision.tool \in Moving THEN Urls ELSE {page}
  /\ collected' = collected \cup ({decision.output} \ {NoOutput})
  /\ \E held \in BOOLEAN :
       LET action == [tool |-> decision.tool, output |-> decision.output,
                      before |-> url_before, after |-> page',
                      verified |-> decision.expects => held,
                      dismissal |-> on_interstitial,
                      strayed |-> strayed]
       IN /\ EndTurn(Append(recording, action))
          /\ strayed' = (~Kept(action) /\ (strayed \/ on_interstitial))

\* FAULT: the output is noted before it is read.
ActRaises_Fault ==
  /\ pc = "act"
  /\ page' \in IF decision.tool \in Moving THEN Urls ELSE {page}
  /\ strayed' = (strayed \/ page' # page)
  /\ collected' = collected \cup ({decision.output} \ {NoOutput})
  /\ EndTurn(recording)

\* The action raises, before or after the page moved: it is not recorded.
ActRaises ==
  /\ pc = "act"
  /\ page' \in IF decision.tool \in Moving THEN Urls ELSE {page}
  /\ strayed' = (strayed \/ page' # page)
  /\ EndTurn(recording)
  /\ UNCHANGED collected

--------------------------------------------------------------------------------
(* Handoffs: the operator console as the agent sees it. *)

\* The operator moves the page; while the model thinks and between the checks and
\* the action it may move by itself.
PageMoves ==
  /\ pc \in Handoffs \cup {"execute", "act"}
  /\ page' \in Urls \ {page}
  /\ strayed' = TRUE
  /\ UNCHANGED <<pc, turn, locals, recording, collected, results>>

Approved ==
  /\ Goes("act")
  /\ approved' = TRUE
  /\ UNCHANGED <<decision, risky, url_before, on_interstitial>>

\* FAULT: only a refusal stops the action.
Confirmed_Fault(resolution) ==
  /\ pc = "confirm"
  /\ CASE resolution = "denied" -> EndTurn(recording)
       [] resolution = "approved" -> Approved
       [] OTHER -> Goes("act") /\ UNCHANGED locals
  /\ Ignored

\* A risky action goes ahead on "approve" only; any other answer denies it.
Confirmed(resolution) ==
  /\ pc = "confirm"
  /\ IF resolution = "approved" THEN Approved ELSE EndTurn(recording)
  /\ Ignored

\* Blocked: any answer but "abort" is a reason to go on.
Unblocked(resolution) ==
  /\ pc = "blocked"
  /\ IF resolution = "aborted" THEN Return("aborted") ELSE EndTurn(recording)
  /\ Ignored

\* Out of turns: the answer does not matter.
Exhausted ==
  /\ pc = "exhausted"
  /\ Return("max_steps")
  /\ Ignored

Operator == Exhausted \/ \E r \in Resolutions : Confirmed(r) \/ Unblocked(r)

--------------------------------------------------------------------------------
(* Ways out *)

\* at lists the positions of the actions that are kept, in their order.
Keeps(at, n) ==
  /\ \A j, k \in 1 .. n : j < k => at[j] < at[k]
  /\ {at[k] : k \in 1 .. n} = {i \in 1 .. Len(recording) : Kept(recording[i])}

\* "done": the contract is met, and the schema wants a step at least.
Finish ==
  /\ pc = "decide" /\ Outputs \subseteq collected
  /\ \E n \in 0 .. Len(recording) : \E at \in [1 .. n -> 1 .. Len(recording)] :
       /\ Keeps(at, n)
       /\ capability' = [k \in 1 .. n |-> recording[at[k]]]
  /\ pc' = "done"
  /\ outcome' = IF capability' = <<>> THEN "exception" ELSE "success"
  /\ ClearLocals
  /\ UNCHANGED <<turn, recording>>
  /\ Ignored

FinishMissing ==
  /\ pc = "decide" /\ ~(Outputs \subseteq collected)
  /\ Return("missing_outputs")
  /\ Ignored

\* An exception no handler of run catches: the gate on the entry URL, the model's
\* service, the browser outside the action itself.
Raises ==
  /\ pc \in {"entry", "decide", "execute", "act"}
  /\ Return("exception")
  /\ Ignored

Terminated == pc = "done" /\ UNCHANGED vars

Agent ==
  \/ Enter \/ Decide \/ DecideBlocked \/ RefMissing \/ PolicyBlocks \/ GatePasses
  \/ Act \/ ActRaises \/ Finish \/ FinishMissing \/ Raises

Next == Agent \/ Operator \/ PageMoves \/ Terminated

Spec == Init /\ [][Next]_vars

\* The agent's thread runs, and the operator answers in the end (the end of the
\* console's input is an answer too).
FairSpec == Spec /\ WF_vars(Agent) /\ WF_vars(Operator)
--------------------------------------------------------------------------------
(* Properties *)

\* Automation carries out what the model chose: an action runs or raises.
CarriesOut == Act \/ ActRaises

\* A risky action is carried out only if the operator started the agent so, or
\* approved this very action in this very turn.
RiskyIsApproved == [][CarriesOut /\ risky /\ ~approve_risky => approved]_vars

\* The recorded flow has no gap: each step starts on the URL where the one before it
\* ended, unless in between the page was moved by something the artifact does not
\* hold on purpose -- the operator, the page itself, an action that raised, a step of
\* an interstitial.  No action that led somewhere is dropped.
FlowHasNoGaps ==
  \A i \in 1 .. Len(capability) :
    capability[i].strayed \/
    capability[i].before = IF i = 1 THEN entry_url ELSE capability[i - 1].after

\* Every declared output has a step that reads it, but for those only read while an
\* interstitial showed, whose steps are left out.
ArtifactReadsOutputs ==
  outcome = "success" =>
    \A o \in Outputs : \E i \in 1 .. Len(recording) :
      /\ recording[i].output = o
      /\ \/ recording[i].dismissal
         \/ \E j \in 1 .. Len(capability) : capability[j] = recording[i]

\* The agent ends, whatever the model, the page and the operator do.
Ends == <>(pc = "done")
================================================================================
