----------------------------- MODULE ReplayContract ----------------------------
(***************************************************************************)
(* What a replay promises its caller, whatever the page does and whoever    *)
(* answers the interventions: the contract of cua/replay/result.py and of   *)
(* the risk model of cua/safety/policy.py, without pages, probes, retries   *)
(* or consoles.  ReplayEngine is shown to implement it.                     *)
(***************************************************************************)
EXTENDS Naturals

CONSTANTS
  Steps,       \* the steps of the capability, numbered in order
  Risky,       \* the steps stamped RISKY
  Outcomes     \* the ways a run can end

VARIABLES
  preapproved, \* the caller signed risky steps off in advance
  acted,    \* steps automation has carried out
  granted,  \* risky steps a person has approved
  refused,  \* a person has refused a risky step
  outcome   \* how the run ended, "none" while it runs

contractVars == <<preapproved, acted, granted, refused, outcome>>

Init ==
  /\ preapproved \in BOOLEAN
  /\ acted = {}
  /\ granted = {}
  /\ refused = FALSE
  /\ outcome = "none"

Grant(s) ==
  /\ outcome = "none"
  /\ s \in Risky /\ ~preapproved
  /\ s \notin acted
  /\ granted' = granted \cup {s}
  /\ UNCHANGED <<acted, refused, outcome>>

Refuse(s) ==
  /\ outcome = "none"
  /\ s \in Risky /\ ~preapproved
  /\ s \notin acted
  /\ refused' = TRUE
  /\ UNCHANGED <<acted, granted, outcome>>

\* A step is carried out once, after the steps before it and not after one
\* behind it, and a risky one only with a person's or the caller's word.
Act(s) ==
  /\ outcome = "none"
  /\ ~refused
  /\ \A t \in acted : t < s
  /\ s \in Risky => preapproved \/ s \in granted
  /\ acted' = acted \cup {s}
  /\ UNCHANGED <<granted, refused, outcome>>

End(how) ==
  /\ outcome = "none"
  /\ refused => how = "hard_failure"
  /\ outcome' = how
  /\ UNCHANGED <<acted, granted, refused>>

Next ==
  /\ \/ \E s \in Steps : Grant(s) \/ Refuse(s) \/ Act(s)
     \/ \E how \in Outcomes : End(how)
  /\ UNCHANGED preapproved

Spec == Init /\ [][Next]_contractVars
================================================================================
