---------------------------- MODULE OperatorConsole ----------------------------
(***************************************************************************)
(* The human side of a run: cua/escalation/console.py (the command loop),   *)
(* cua/escalation/intervention.py (the intervention request) and the URL    *)
(* half of cua/safety/policy.py.  ReplayEngine EXTENDS this module: the     *)
(* console runs on the engine's own thread, over the engine's own page.     *)
(*                                                                          *)
(* Data kept: a URL is "allowed" or "off" (the allowlist rejects it); an    *)
(* intervention request is its reason, step and resolution; the console's   *)
(* local snapshot is absent, taken of the current page, or of an earlier    *)
(* page.  Commands that change nothing (status, help, screenshot, blank or  *)
(* unknown lines, a goto the gate blocks) are stuttering steps.  Which of   *)
(* the operations an operator tries is not told apart: one of a type the    *)
(* policy does not permit is an operation refused (OperateFails).           *)
(***************************************************************************)
EXTENDS Naturals, Sequences

VARIABLES
  page,      \* where the one live page is: a member of Urls
  holder,    \* who holds control of that page
  request,   \* the last InterventionRequest raised (NoRequest before any)
  snapshot,  \* OperatorConsole.handle's local snapshot
  ivLog,     \* handoff_ended events, oldest first: the requests as resolved
  ivFile     \* the iv-*.json files of the run directory, by reason

consoleVars == <<page, holder, request, snapshot, ivLog, ivFile>>

Urls == {"allowed", "off"}
Holders == {"automation", "human"}
Reasons == {"risky_action_confirmation", "replay_hard_failure"}
Resolutions == {"approved", "denied", "resumed", "aborted"}
Snapshots == {"none", "fresh", "stale"}

Requests(steps) ==
  [reason : Reasons, step : steps, resolution : Resolutions \cup {"none"}]

NoRequest == [reason |-> "none", step |-> 0, resolution |-> "none"]

\* PolicyGate.check_url: a PolicyViolation is raised when this is false.
CheckUrl(url) == url = "allowed"

ConsoleTypeOK(steps) ==
  /\ page \in Urls
  /\ holder \in Holders
  /\ request \in Requests(steps) \cup {NoRequest}
  /\ snapshot \in Snapshots
  /\ ivLog \in Seq(Requests(steps))
  /\ ivFile \in [Reasons -> Requests(steps) \cup {NoRequest}]

ConsoleInit ==
  /\ page = "off"                        \* about:blank is on no allowlist
  /\ holder = "automation"
  /\ request = NoRequest
  /\ snapshot = "none"
  /\ ivLog = <<>>
  /\ ivFile = [r \in Reasons |-> NoRequest]

(***************************************************************************)
(* build_intervention, then the first lines of OperatorConsole.handle.  The *)
(* file name is a function of the run and the reason only, so a second      *)
(* intervention with the same reason writes over the first one's file.      *)
(***************************************************************************)
RaiseIntervention(reason, at) ==
  /\ request' = [reason |-> reason, step |-> at, resolution |-> "none"]
  /\ ivFile' = [ivFile EXCEPT ![reason] = request']
  /\ holder' = "human"
  /\ snapshot' = "none"
  /\ UNCHANGED <<page, ivLog>>

\* "look": a new snapshot of the page as it is now.
Look ==
  /\ holder = "human"
  /\ snapshot' = "fresh"
  /\ UNCHANGED <<page, holder, request, ivLog, ivFile>>

\* "goto <url>": the gate checks the URL typed, the server may redirect it
\* anywhere; the snapshot is kept, now of a page that has gone.
Goto ==
  /\ holder = "human"
  /\ page' \in Urls
  /\ snapshot' = IF snapshot = "none" THEN "none" ELSE "stale"
  /\ UNCHANGED <<holder, request, ivLog, ivFile>>

\* The snapshot "click", "fill" and "select" look their reference up in.
Consulted == IF snapshot = "none" THEN "fresh" ELSE snapshot

\* "click", "fill" or "select" that goes through: the page may have moved,
\* and the snapshot is dropped.
Operate ==
  /\ holder = "human"
  /\ CheckUrl(page)
  /\ page' \in Urls
  /\ snapshot' = "none"
  /\ UNCHANGED <<holder, request, ivLog, ivFile>>

\* The same commands refused (an unknown reference, a page the gate rejects)
\* or raising in the browser, before or after the page moved: the exception
\* is reported and the snapshot is kept.
OperateFails ==
  /\ holder = "human"
  /\ \/ /\ CheckUrl(page)
        /\ page' \in Urls
        /\ snapshot' = "stale"
     \/ /\ snapshot' = Consulted
        /\ UNCHANGED page
  /\ UNCHANGED <<holder, request, ivLog, ivFile>>

\* "approve", "deny", "resume" and "abort"; the end of the command stream is
\* read as "abort".
EndHandoff(resolution) ==
  /\ holder = "human"
  /\ request' = [request EXCEPT !.resolution = resolution]
  /\ ivLog' = Append(ivLog, request')
  /\ ivFile' = [ivFile EXCEPT ![request.reason] = request']
  /\ holder' = "automation"
  /\ snapshot' = "none"
  /\ UNCHANGED page

OperatorCommand == Look \/ Goto \/ Operate \/ OperateFails

ReturnControl == \E r \in Resolutions : EndHandoff(r)
================================================================================
