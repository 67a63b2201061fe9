----------------------------- MODULE MCReplayEngine ----------------------------
(***************************************************************************)
(* Small capabilities for TLC; the kinds of their steps are those of the    *)
(* recorded artifacts.                                                      *)
(***************************************************************************)
EXTENDS ReplayEngine

\* Open a page, press its risky button, fill the form it leads to.
MCPlan ==
  <<[action |-> "navigate", target |-> FALSE, risky |-> FALSE, output |-> FALSE],
    [action |-> "click", target |-> TRUE, risky |-> TRUE,  output |-> FALSE],
    [action |-> "fill",  target |-> TRUE, risky |-> FALSE, output |-> FALSE]>>

\* Fill a form, press its risky button, read the result.
FormPlan ==
  <<[action |-> "fill",  target |-> TRUE, risky |-> FALSE, output |-> FALSE],
    [action |-> "click", target |-> TRUE, risky |-> TRUE,  output |-> FALSE],
    [action |-> "read",  target |-> TRUE, risky |-> FALSE, output |-> TRUE]>>

\* Every pair of flags under a policy that permits every type of action.
AnyAction == [confirm_risky : BOOLEAN, escalate_on_failure : BOOLEAN,
               allowed_actions : {ActionTypes}]

\* ... and an attended run whose policy permits no clicks.
AllCallers ==
  AnyAction \cup [confirm_risky : {TRUE}, escalate_on_failure : {TRUE},
                  allowed_actions : {ActionTypes \ {"click"}}]

MCRules == {"session_interstitial", "slow_host"}
MCRuleKind == [session_interstitial |-> "click", slow_host |-> "wait_retry"]
MCMaxApplications == [session_interstitial |-> 1, slow_host |-> 1]
NoRules == {}
NoRuleKind == [r \in {} |-> "click"]
NoMaxApplications == [r \in {} |-> 0]
================================================================================
