------------------------- MODULE DiscoveryAgent_proofs -------------------------
(***************************************************************************)
(* For any site, policy and turn budget: no risky action of the model is    *)
(* carried out without an approval; the steps build_capability keeps are    *)
(* one path from the entry URL; and every output declared and collected has *)
(* a recorded action that read it.                                          *)
(***************************************************************************)
EXTENDS DiscoveryAgent, SequenceTheorems, TLAPS

\* Who is about to act has either nothing risky in hand or an approval of this turn;
\* who is about to ask has none yet.
Cleared ==
  /\ pc = "act" /\ risky /\ ~approve_risky => approved
  /\ pc # "act" => ~approved

LEMMA EndTurnClears == ASSUME NEW actions, EndTurn(actions) PROVE Cleared'
<1>1. pc' # "act" /\ approved' = FALSE
  BY DEF EndTurn, ClearLocals
<1> QED BY <1>1 DEF Cleared

LEMMA ReturnClears == ASSUME NEW how, Return(how) PROVE Cleared'
<1>1. pc' # "act" /\ approved' = FALSE
  BY DEF Return, ClearLocals
<1> QED BY <1>1 DEF Cleared

LEMMA ClearedStays == Cleared /\ [Next]_vars => Cleared'
<1> SUFFICES ASSUME Cleared, [Next]_vars PROVE Cleared'
  OBVIOUS
<1>1. CASE Agent
  <2>1. CASE Enter \/ Decide \/ DecideBlocked
    <3>1. pc # "act" /\ pc' # "act" /\ UNCHANGED approved
      BY <2>1 DEF Enter, Decide, DecideBlocked, Goes, locals
    <3> QED BY <3>1 DEF Cleared
  <2>2. CASE RefMissing \/ PolicyBlocks \/ ActRaises
    BY <2>2, EndTurnClears DEF RefMissing, PolicyBlocks, ActRaises
  <2>3. CASE Act
    BY <2>3, EndTurnClears DEF Act
  <2>4. CASE GatePasses
    <3>1. pc = "execute" /\ UNCHANGED approved
      BY <2>4 DEF GatePasses
    <3>2. pc' = IF risky' /\ ~approve_risky THEN "confirm" ELSE "act"
      BY <2>4 DEF GatePasses, Goes
    <3> QED BY <3>1, <3>2 DEF Cleared
  <2>5. CASE Finish
    <3>1. pc' # "act" /\ approved' = FALSE
      BY <2>5 DEF Finish, ClearLocals
    <3> QED BY <3>1 DEF Cleared
  <2>6. CASE FinishMissing \/ Raises
    BY <2>6, ReturnClears DEF FinishMissing, Raises
  <2> QED BY <1>1, <2>1, <2>2, <2>3, <2>4, <2>5, <2>6 DEF Agent
<1>2. CASE Operator
  <2>1. CASE Exhausted
    BY <2>1, ReturnClears DEF Exhausted
  <2>2. ASSUME NEW r \in Resolutions, Confirmed(r) PROVE Cleared'
    <3>1. CASE r = "approved"
      <4>1. approved' = TRUE
        BY <3>1, <2>2 DEF Confirmed, Approved
      <4>2. pc' = "act"
        BY <3>1, <2>2 DEF Confirmed, Approved, Goes
      <4> QED BY <4>1, <4>2 DEF Cleared
    <3>2. CASE r # "approved"
      BY <3>2, <2>2, EndTurnClears DEF Confirmed
    <3> QED BY <3>1, <3>2
  <2>3. ASSUME NEW r \in Resolutions, Unblocked(r) PROVE Cleared'
    BY <2>3, EndTurnClears, ReturnClears DEF Unblocked
  <2> QED BY <1>2, <2>1, <2>2, <2>3 DEF Operator
<1>3. CASE PageMoves
  <2>1. UNCHANGED <<pc, risky, approved>>
    BY <1>3 DEF PageMoves, locals
  <2> QED BY <2>1 DEF Cleared
<1>4. CASE Terminated \/ UNCHANGED vars
  <2>1. UNCHANGED <<pc, risky, approved>>
    BY <1>4 DEF Terminated, vars, locals
  <2> QED BY <2>1 DEF Cleared
<1> QED BY <1>1, <1>2, <1>3, <1>4 DEF Next

\* RiskyIsApproved: whatever the model chooses and the operator answers, _execute
\* carries out a risky action only under approve_risky or after an approval given in
\* that very turn.
THEOREM RiskyNeedsApproval == Spec => RiskyIsApproved
<1>1. Init => Cleared
  BY DEF Init, Cleared
<1>2. Cleared /\ [Next]_vars => Cleared'
  BY ClearedStays
<1>3. Cleared => [CarriesOut /\ risky /\ ~approve_risky => approved]_vars
  BY DEF Cleared, CarriesOut, Act, ActRaises
<1> QED BY <1>1, <1>2, <1>3, PTL DEF Spec, RiskyIsApproved

--------------------------------------------------------------------------------
(* Types *)

Typed ==
  /\ TypeOK
  /\ pc \in {"execute", "confirm", "act"} => decision \in Decisions
  /\ pc # "done" => capability = <<>> /\ outcome = "none"

ClearTyped ==
  /\ decision \in Decisions \cup {NoDecision} /\ risky \in BOOLEAN /\ url_before \in Urls
  /\ on_interstitial \in BOOLEAN /\ approved \in BOOLEAN

LEMMA ClearForm == ClearLocals => ClearTyped'
  BY AgentAssumptions DEF AgentAssumptions, ClearLocals, ClearTyped

LEMMA EndTurnForm ==
  ASSUME Typed, NEW actions \in Seq(ExecutedActions), EndTurn(actions), pc # "done"
  PROVE  /\ \/ pc' = "exhausted" /\ recording' = <<>>
            \/ pc' = "decide" /\ recording' = actions
         /\ recording' \in Seq(ExecutedActions) /\ turn' \in 1 .. max_steps
         /\ ClearTyped'
         /\ capability' = <<>> /\ outcome' = "none"
<1>1. turn \in 1 .. max_steps /\ max_steps \in Nat /\ capability = <<>> /\ outcome = "none"
  BY AgentAssumptions DEF AgentAssumptions, Typed, TypeOK
<1>2. ClearLocals /\ UNCHANGED results
  BY DEF EndTurn
<1>3. <<>> \in Seq(ExecutedActions)
  OBVIOUS
<1>4. ClearTyped' /\ capability' = <<>> /\ outcome' = "none"
  BY <1>1, <1>2, ClearForm DEF results
<1>5. CASE turn = max_steps
  <2>1. pc' = "exhausted" /\ recording' = <<>> /\ turn' = turn
    BY <1>5 DEF EndTurn
  <2> QED BY <1>1, <1>3, <1>4, <2>1
<1>6. CASE turn # max_steps
  <2>1. pc' = "decide" /\ recording' = actions /\ turn' = turn + 1
    BY <1>6 DEF EndTurn
  <2>2. turn' \in 1 .. max_steps
    BY <1>1, <1>6, <2>1
  <2> QED BY <1>4, <2>1, <2>2
<1> QED BY <1>5, <1>6

LEMMA EndTurnTyped ==
  ASSUME Typed, NEW actions \in Seq(ExecutedActions), EndTurn(actions), pc # "done",
         page' \in Urls, collected' \subseteq Outputs, strayed' \in BOOLEAN
  PROVE  Typed'
  BY EndTurnForm DEF Typed, TypeOK, ClearTyped, Pcs, Handoffs, Outcomes

LEMMA ReturnTyped ==
  ASSUME Typed, NEW how \in Outcomes, Return(how), Ignored
  PROVE  Typed' /\ pc' = "done" /\ recording' = <<>> /\ UNCHANGED capability
<1>1. ClearTyped'
  BY ClearForm DEF Return
<1>2. <<>> \in Seq(ExecutedActions)
  OBVIOUS
<1> QED BY <1>1, <1>2 DEF Return, Ignored, Typed, TypeOK, ClearTyped, Pcs

\* What Act records.
Recorded(held) ==
  [tool |-> decision.tool, output |-> decision.output, before |-> url_before, after |-> page',
   verified |-> decision.expects => held, dismissal |-> on_interstitial, strayed |-> strayed]

LEMMA ActForm ==
  ASSUME Typed, Act
  PROVE  /\ pc = "act" /\ page' \in Urls
         /\ decision.tool \notin Moving => page' = page
         /\ collected' = collected \cup ({decision.output} \ {NoOutput})
         /\ collected' \subseteq Outputs
         /\ \E action \in ExecutedActions :
              /\ action.tool = decision.tool /\ action.output = decision.output
              /\ action.before = url_before /\ action.after = page'
              /\ action.dismissal = on_interstitial /\ action.strayed = strayed
              /\ action.output # NoOutput => action.verified
              /\ action.tool \notin Moving => action.verified
              /\ EndTurn(Append(recording, action))
              /\ strayed' = (~Kept(action) /\ (strayed \/ on_interstitial))
<1>1. /\ pc = "act" /\ decision \in Decisions /\ page \in Urls /\ url_before \in Urls
      /\ on_interstitial \in BOOLEAN /\ strayed \in BOOLEAN /\ collected \subseteq Outputs
  BY DEF Act, Typed, TypeOK
<1>2. /\ page' \in IF decision.tool \in Moving THEN Urls ELSE {page}
      /\ collected' = collected \cup ({decision.output} \ {NoOutput})
  BY DEF Act
<1>3. PICK held \in BOOLEAN :
        /\ EndTurn(Append(recording, Recorded(held)))
        /\ strayed' = (~Kept(Recorded(held)) /\ (strayed \/ on_interstitial))
  BY DEF Act, Recorded
<1>4. /\ decision.tool \in {"navigate", "click", "fill", "read"}
      /\ decision.output \in Outputs \cup {NoOutput} /\ decision.expects \in BOOLEAN
      /\ decision.expects => decision.tool \in Moving
      /\ decision.output # NoOutput => decision.tool = "read"
  BY <1>1 DEF Decisions
<1>5. page' \in Urls /\ (decision.tool \notin Moving => page' = page) /\ collected' \subseteq Outputs
  BY <1>1, <1>2, <1>4
<1> DEFINE action == Recorded(held)
<1>6. action \in ExecutedActions
  BY <1>1, <1>4, <1>5 DEF Recorded, ExecutedActions
<1>7. /\ action.tool = decision.tool /\ action.output = decision.output
      /\ action.before = url_before /\ action.after = page'
      /\ action.dismissal = on_interstitial /\ action.strayed = strayed
      /\ action.verified = (decision.expects => held)
  BY DEF Recorded
<1>8. /\ action.output # NoOutput => action.verified
      /\ action.tool \notin Moving => action.verified
  BY <1>4, <1>7 DEF Moving
<1>9. EndTurn(Append(recording, action))
      /\ strayed' = (~Kept(action) /\ (strayed \/ on_interstitial))
  BY <1>3
<1> HIDE DEF action
<1> QED BY <1>1, <1>2, <1>5, <1>6, <1>7, <1>8, <1>9

LEMMA FinishForm ==
  ASSUME Typed, Finish
  PROVE  \E n \in 0 .. Len(recording) : \E at \in [1 .. n -> 1 .. Len(recording)] :
           /\ Keeps(at, n)
           /\ capability' = [k \in 1 .. n |-> recording[at[k]]]
           /\ capability' \in Seq(ExecutedActions)
           /\ Len(capability') = n
           /\ \A k \in 1 .. n : capability'[k] = recording[at[k]]
<1>1. PICK n \in 0 .. Len(recording) : \E at \in [1 .. n -> 1 .. Len(recording)] :
        Keeps(at, n) /\ capability' = [k \in 1 .. n |-> recording[at[k]]]
  BY DEF Finish
<1>2. PICK at \in [1 .. n -> 1 .. Len(recording)] :
        Keeps(at, n) /\ capability' = [k \in 1 .. n |-> recording[at[k]]]
  BY <1>1
<1>3. recording \in Seq(ExecutedActions) /\ n \in Nat
  BY DEF Typed, TypeOK
<1>4. \A k \in 1 .. n : at[k] \in 1 .. Len(recording) /\ recording[at[k]] \in ExecutedActions
  BY <1>3
<1>5. capability' \in [1 .. n -> ExecutedActions]
  BY <1>2, <1>4
<1>6. capability' \in Seq(ExecutedActions)
  BY <1>3, <1>5, SeqDef
<1>7. Len(capability') = n /\ \A k \in 1 .. n : capability'[k] = recording[at[k]]
  BY <1>2, <1>3, <1>6
<1> QED BY <1>2, <1>6, <1>7

LEMMA FinishTyped == ASSUME Typed, Finish PROVE Typed'
<1>1. capability' \in Seq(ExecutedActions)
  BY FinishForm
<1>2. ClearTyped'
  BY ClearForm DEF Finish
<1>3. /\ pc' = "done" /\ outcome' \in {"exception", "success"}
      /\ UNCHANGED <<turn, recording, page, collected, strayed>>
  BY DEF Finish, Ignored
<1> QED BY <1>1, <1>2, <1>3 DEF Typed, TypeOK, ClearTyped, Pcs, Outcomes

LEMMA TypedStays == Typed /\ [Next]_vars => Typed'
<1> SUFFICES ASSUME Typed, [Next]_vars PROVE Typed'
  OBVIOUS
<1>1. /\ recording \in Seq(ExecutedActions) /\ page \in Urls /\ collected \subseteq Outputs
      /\ strayed \in BOOLEAN
  BY DEF Typed, TypeOK
<1>2. ASSUME EndTurn(recording), Ignored, pc # "done" PROVE Typed'
  BY <1>1, <1>2, EndTurnTyped DEF Ignored
<1>3. ASSUME NEW label \in Pcs \ {"execute", "done"}, Goes(label), UNCHANGED locals, pc # "done",
             page' \in Urls, collected' = collected, strayed' \in BOOLEAN,
             label \in {"confirm", "act"} => decision \in Decisions
      PROVE  Typed'
  BY <1>3 DEF Typed, TypeOK, Goes, locals, results, Pcs, Handoffs
<1>4. ASSUME NEW how \in {"aborted", "missing_outputs", "max_steps", "exception"}, Return(how), Ignored
      PROVE  Typed'
  BY <1>4, ReturnTyped DEF Outcomes
<1>5. CASE Agent
  <2>1. CASE Enter
    <3>1. Goes("decide") /\ UNCHANGED locals /\ page' \in Urls /\ collected' = collected
          /\ strayed' \in BOOLEAN /\ pc # "done"
      BY <2>1 DEF Enter
    <3> QED BY <1>3, <3>1 DEF Pcs
  <2>2. CASE Decide
    BY <2>2 DEF Decide, Typed, TypeOK, Goes, results, Ignored, Pcs, Handoffs
  <2>3. CASE DecideBlocked
    <3>1. Goes("blocked") /\ UNCHANGED locals /\ page' \in Urls /\ collected' = collected
          /\ strayed' \in BOOLEAN /\ pc # "done"
      BY <1>1, <2>3 DEF DecideBlocked, Ignored
    <3> QED BY <1>3, <3>1 DEF Pcs, Handoffs
  <2>4. CASE RefMissing \/ PolicyBlocks
    BY <1>2, <2>4 DEF RefMissing, PolicyBlocks
  <2>5. CASE GatePasses
    <3>1. /\ pc = "execute" /\ pc' \in {"confirm", "act"} /\ decision \in Decisions
          /\ url_before' \in Urls /\ on_interstitial' \in BOOLEAN /\ risky' \in BOOLEAN
          /\ UNCHANGED <<decision, approved, page, collected, strayed, turn, recording, results>>
      BY <1>1, <2>5 DEF GatePasses, Goes, Ignored, Typed
    <3> QED BY <3>1 DEF Typed, TypeOK, results, Pcs, Handoffs
  <2>6. CASE Act
    <3>1. PICK action \in ExecutedActions :
            /\ EndTurn(Append(recording, action))
            /\ strayed' = (~Kept(action) /\ (strayed \/ on_interstitial))
      BY <2>6, ActForm
    <3>2. Append(recording, action) \in Seq(ExecutedActions)
      BY <1>1
    <3>3. page' \in Urls /\ collected' \subseteq Outputs /\ strayed' \in BOOLEAN /\ pc # "done"
      BY <2>6, <3>1, ActForm
    <3> QED BY <3>1, <3>2, <3>3, EndTurnTyped
  <2>7. CASE ActRaises
    <3>1. EndTurn(recording) /\ page' \in Urls /\ collected' \subseteq Outputs
          /\ strayed' \in BOOLEAN /\ pc # "done"
      BY <1>1, <2>7 DEF ActRaises
    <3> QED BY <1>1, <3>1, EndTurnTyped
  <2>8. CASE Finish
    BY <2>8, FinishTyped
  <2>9. CASE FinishMissing \/ Raises
    BY <1>4, <2>9 DEF FinishMissing, Raises
  <2> QED BY <1>5, <2>1, <2>2, <2>3, <2>4, <2>5, <2>6, <2>7, <2>8, <2>9 DEF Agent
<1>6. CASE Operator
  <2>1. CASE Exhausted
    BY <1>4, <2>1 DEF Exhausted
  <2>2. ASSUME NEW r \in Resolutions, Confirmed(r) PROVE Typed'
    <3>1. pc = "confirm" /\ Ignored /\ (Approved \/ EndTurn(recording))
      BY <2>2 DEF Confirmed
    <3>2. CASE Approved
      BY <3>1, <3>2 DEF Approved, Goes, Ignored, Typed, TypeOK, results, Pcs
    <3> QED BY <1>2, <3>1, <3>2
  <2>3. ASSUME NEW r \in Resolutions, Unblocked(r) PROVE Typed'
    BY <1>2, <1>4, <2>3 DEF Unblocked
  <2> QED BY <1>6, <2>1, <2>2, <2>3 DEF Operator
<1>7. CASE PageMoves
  <2>1. page' \in Urls /\ strayed' = TRUE
        /\ UNCHANGED <<pc, turn, locals, recording, collected, results>>
    BY <1>7 DEF PageMoves
  <2> QED BY <2>1 DEF Typed, TypeOK, locals, results
<1>8. CASE Terminated \/ UNCHANGED vars
  BY <1>8 DEF Terminated, vars, locals, results, Typed, TypeOK
<1> QED BY <1>5, <1>6, <1>7, <1>8 DEF Next

LEMMA InitTyped == Init => Typed
<1>1. <<>> \in Seq(ExecutedActions) /\ 1 \in 1 .. max_steps
  BY AgentAssumptions DEF AgentAssumptions
<1> QED BY <1>1, AgentAssumptions DEF AgentAssumptions, Init, Typed, TypeOK, Pcs, Outcomes

LEMMA SpecTyped == Spec => []Typed
<1>1. Typed /\ [Next]_vars => Typed'
  BY TypedStays
<1> QED BY <1>1, InitTyped, PTL DEF Spec

\* Every reachable state is of its type, for any site, policy and budget of turns.
THEOREM TypeCorrect == Spec => []TypeOK
<1>1. Typed => TypeOK
  BY DEF Typed
<1> QED BY <1>1, SpecTyped, PTL

--------------------------------------------------------------------------------
(* The recorded flow.  As long as nothing strays, the page is where the last   *)
(* action to be kept led; so the next one starts there.                        *)

\* url is where the actions to be kept, of the first n, lead.
Reached(actions, n, url) ==
  /\ \A i \in 1 .. n :
       Kept(actions[i]) /\ (\A h \in i + 1 .. n : ~Kept(actions[h])) => url = actions[i].after
  /\ (\A h \in 1 .. n : ~Kept(actions[h])) => url = entry_url

Unbroken(actions) ==
  \A j \in 1 .. Len(actions) :
    Kept(actions[j]) => actions[j].strayed \/ Reached(actions, j - 1, actions[j].before)

OnTrack ==
  /\ Unbroken(recording)
  /\ ~strayed /\ pc \notin {"entry", "exhausted", "done"} =>
       Reached(recording, Len(recording), page)
  /\ ~strayed /\ pc \in {"confirm", "act"} => url_before = page
  /\ pc = "entry" => recording = <<>>

LEMMA AppendReached ==
  ASSUME NEW actions \in Seq(ExecutedActions), NEW a \in ExecutedActions
  PROVE  LET longer == Append(actions, a)
             n == Len(actions)
         IN /\ Len(longer) = n + 1
            /\ Kept(a) => Reached(longer, n + 1, a.after)
            /\ \A url : ~Kept(a) /\ Reached(actions, n, url) => Reached(longer, n + 1, url)
            /\ Unbroken(actions) /\ (Kept(a) => a.strayed \/ Reached(actions, n, a.before))
                 => Unbroken(longer)
<1> DEFINE longer == Append(actions, a)
           n == Len(actions)
<1>1. n \in Nat /\ Len(longer) = n + 1 /\ longer[n + 1] = a /\ \A i \in 1 .. n : longer[i] = actions[i]
  BY AppendProperties, LenProperties
<1> HIDE DEF longer, n
<1>2. Kept(a) => Reached(longer, n + 1, a.after)
  <2> SUFFICES ASSUME Kept(a) PROVE Reached(longer, n + 1, a.after)
    OBVIOUS
  <2>1. n + 1 \in 1 .. n + 1 /\ Kept(longer[n + 1])
    BY <1>1
  <2>2. ASSUME NEW i \in 1 .. n + 1, \A h \in i + 1 .. n + 1 : ~Kept(longer[h])
        PROVE  i = n + 1
    BY <1>1, <2>1, <2>2
  <2> QED BY <1>1, <2>1, <2>2 DEF Reached
<1>3. ASSUME NEW url, NEW m \in 0 .. n
      PROVE  Reached(actions, m, url) => Reached(longer, m, url)
  <2>1. \A i \in 1 .. m : longer[i] = actions[i]
    BY <1>1
  <2>2. \A i \in 1 .. m : \A h \in i + 1 .. m : longer[h] = actions[h]
    BY <1>1, <2>1
  <2> QED BY <2>1, <2>2 DEF Reached
<1>4. ASSUME NEW url, ~Kept(a), Reached(actions, n, url)
      PROVE  Reached(longer, n + 1, url)
  <2>1. Reached(longer, n, url) /\ ~Kept(longer[n + 1])
    BY <1>1, <1>3, <1>4
  <2>2. ASSUME NEW i \in 1 .. n + 1, Kept(longer[i]), \A h \in i + 1 .. n + 1 : ~Kept(longer[h])
        PROVE  url = longer[i].after
    <3>1. i \in 1 .. n /\ \A h \in i + 1 .. n : h \in i + 1 .. n + 1
      BY <1>1, <2>1, <2>2
    <3> QED BY <2>1, <2>2, <3>1 DEF Reached
  <2>3. ASSUME \A h \in 1 .. n + 1 : ~Kept(longer[h]) PROVE url = entry_url
    <3>1. \A h \in 1 .. n : h \in 1 .. n + 1
      BY <1>1
    <3> QED BY <2>1, <2>3, <3>1 DEF Reached
  <2> QED BY <2>2, <2>3 DEF Reached
<1>5. ASSUME Unbroken(actions), Kept(a) => a.strayed \/ Reached(actions, n, a.before)
      PROVE  Unbroken(longer)
  <2> SUFFICES ASSUME NEW j \in 1 .. n + 1, Kept(longer[j])
               PROVE  longer[j].strayed \/ Reached(longer, j - 1, longer[j].before)
    BY <1>1 DEF Unbroken
  <2>1. CASE j = n + 1
    <3>1. j - 1 = n /\ n \in 0 .. n
      BY <1>1, <2>1
    <3> QED BY <1>1, <1>3, <1>5, <2>1, <3>1
  <2>2. CASE j # n + 1
    <3>1. j \in 1 .. n /\ j - 1 \in 0 .. n /\ longer[j] = actions[j]
      BY <1>1, <2>2
    <3> QED BY <1>3, <1>5, <3>1 DEF Unbroken, n
  <2> QED BY <2>1, <2>2
<1> QED BY <1>1, <1>2, <1>4, <1>5 DEF longer, n

LEMMA EmptyUnbroken == Unbroken(<<>>) /\ Reached(<<>>, 0, entry_url)
  BY DEF Unbroken, Reached

LEMMA EndTurnOnTrack ==
  ASSUME Typed, NEW actions \in Seq(ExecutedActions), EndTurn(actions), pc # "done",
         Unbroken(actions), ~strayed' => Reached(actions, Len(actions), page')
  PROVE  OnTrack'
<1>1. \/ pc' = "exhausted" /\ recording' = <<>>
      \/ pc' = "decide" /\ recording' = actions
  BY EndTurnForm
<1>2. CASE pc' = "exhausted" /\ recording' = <<>>
  BY <1>2, EmptyUnbroken DEF OnTrack
<1>3. CASE pc' = "decide" /\ recording' = actions
  BY <1>3 DEF OnTrack
<1> QED BY <1>1, <1>2, <1>3

\* A capability, and a success, is made by Finish alone, and not touched afterwards.
LEMMA OnlyFinishSucceeds ==
  ASSUME Typed, [Next]_vars
  PROVE  \/ Finish
         \/ UNCHANGED capability /\ outcome' # "success"
         \/ UNCHANGED <<capability, outcome, recording>>
<1>1. ASSUME NEW how, how # "success", Return(how) PROVE UNCHANGED capability /\ outcome' # "success"
  BY <1>1 DEF Return
<1>2. ASSUME NEW actions, EndTurn(actions), pc # "done"
      PROVE  UNCHANGED capability /\ outcome' # "success"
  BY <1>2 DEF EndTurn, results, Typed
<1>3. ASSUME NEW label, Goes(label) PROVE UNCHANGED <<capability, outcome, recording>>
  BY <1>3 DEF Goes, results
<1>4. CASE Agent
  BY <1>1, <1>2, <1>3, <1>4 DEF Agent, Enter, Decide, DecideBlocked, RefMissing, PolicyBlocks,
     GatePasses, Act, ActRaises, FinishMissing, Raises
<1>5. CASE Operator
  BY <1>1, <1>2, <1>3, <1>5 DEF Operator, Exhausted, Confirmed, Unblocked, Approved
<1>6. CASE PageMoves \/ Terminated \/ UNCHANGED vars
  BY <1>6 DEF PageMoves, Terminated, vars, results
<1> QED BY <1>4, <1>5, <1>6 DEF Next

LEMMA OnTrackStays ==
  ASSUME Typed, OnTrack, [Next]_vars
  PROVE  OnTrack'
<1>1. recording \in Seq(ExecutedActions) /\ Unbroken(recording) /\ strayed \in BOOLEAN
  BY DEF Typed, TypeOK, OnTrack
<1>2. ASSUME EndTurn(recording), Ignored, pc \in {"execute", "confirm", "blocked"} PROVE OnTrack'
  BY <1>1, <1>2, EndTurnOnTrack DEF Ignored, OnTrack
<1>3. ASSUME UNCHANGED <<page, strayed, recording>>, pc' = "done" \/ pc' \in {"execute", "blocked"},
             pc \notin {"entry", "exhausted", "done"} \/ pc' = "done"
      PROVE  OnTrack'
  BY <1>3 DEF OnTrack
<1>4. ASSUME NEW how, Return(how), Ignored PROVE OnTrack'
  BY <1>4, EmptyUnbroken DEF Return, Ignored, OnTrack
<1>5. CASE Agent
  <2>1. CASE Enter
    <3>1. /\ recording' = <<>> /\ pc' = "decide" /\ strayed' = (page' # entry_url)
      BY <2>1 DEF Enter, Goes, OnTrack
    <3>2. Len(<<>>) = 0
      OBVIOUS
    <3> QED BY <3>1, <3>2, EmptyUnbroken DEF OnTrack
  <2>2. CASE Decide \/ DecideBlocked
    BY <1>3, <2>2 DEF Decide, DecideBlocked, Goes, Ignored
  <2>3. CASE RefMissing \/ PolicyBlocks
    BY <1>2, <2>3 DEF RefMissing, PolicyBlocks
  <2>4. CASE GatePasses
    <3>1. /\ pc = "execute" /\ pc' \in {"confirm", "act"} /\ url_before' = page
          /\ UNCHANGED <<page, strayed, recording>>
      BY <2>4 DEF GatePasses, Goes, Ignored
    <3> QED BY <3>1 DEF OnTrack
  <2>5. CASE Act
    <3>1. PICK action \in ExecutedActions :
            /\ action.tool = decision.tool
            /\ action.before = url_before /\ action.after = page'
            /\ action.dismissal = on_interstitial /\ action.strayed = strayed
            /\ action.tool \notin Moving => action.verified
            /\ EndTurn(Append(recording, action))
            /\ strayed' = (~Kept(action) /\ (strayed \/ on_interstitial))
      BY <2>5, ActForm
    <3> DEFINE longer == Append(recording, action)
               n == Len(recording)
    <3>2. pc = "act" /\ (~strayed => url_before = page /\ Reached(recording, n, page))
      BY <2>5, ActForm DEF OnTrack
    <3>3. /\ longer \in Seq(ExecutedActions) /\ Len(longer) = n + 1
          /\ Unbroken(longer)
      BY <1>1, <3>1, <3>2, AppendReached
    <3>4. ~strayed' => Reached(longer, Len(longer), page')
      <4>1. CASE Kept(action)
        BY <1>1, <3>1, <3>3, <4>1, AppendReached
      <4>2. CASE ~Kept(action) /\ ~strayed'
        <5>1. ~strayed /\ ~action.dismissal
          BY <1>1, <3>1, <4>2
        <5>2. page' = page
          BY <3>1, <3>2, <4>2, <5>1 DEF Kept
        <5> QED BY <1>1, <3>2, <3>3, <4>2, <5>1, <5>2, AppendReached
      <4> QED BY <4>1, <4>2
    <3> QED BY <3>1, <3>2, <3>3, <3>4, EndTurnOnTrack
  <2>6. CASE ActRaises
    <3>1. EndTurn(recording) /\ pc = "act" /\ strayed' = (strayed \/ page' # page)
      BY <2>6 DEF ActRaises
    <3>2. ~strayed' => Reached(recording, Len(recording), page')
      BY <3>1 DEF OnTrack
    <3> QED BY <1>1, <3>1, <3>2, EndTurnOnTrack
  <2>7. CASE Finish
    BY <1>3, <2>7 DEF Finish, Ignored
  <2>8. CASE FinishMissing \/ Raises
    BY <1>4, <2>8 DEF FinishMissing, Raises
  <2> QED BY <1>5, <2>1, <2>2, <2>3, <2>4, <2>5, <2>6, <2>7, <2>8 DEF Agent
<1>6. CASE Operator
  <2>1. CASE Exhausted
    BY <1>4, <2>1 DEF Exhausted
  <2>2. ASSUME NEW r \in Resolutions, Confirmed(r) PROVE OnTrack'
    <3>1. pc = "confirm" /\ Ignored /\ (Approved \/ EndTurn(recording))
      BY <2>2 DEF Confirmed
    <3>2. CASE Approved
      BY <3>1, <3>2 DEF Approved, Goes, Ignored, OnTrack
    <3> QED BY <1>2, <3>1, <3>2
  <2>3. ASSUME NEW r \in Resolutions, Unblocked(r) PROVE OnTrack'
    BY <1>2, <1>4, <2>3 DEF Unblocked
  <2> QED BY <1>6, <2>1, <2>2, <2>3 DEF Operator
<1>7. CASE PageMoves
  BY <1>7 DEF PageMoves, OnTrack
<1>8. CASE Terminated \/ UNCHANGED vars
  BY <1>8 DEF Terminated, vars, locals, results, OnTrack
<1> QED BY <1>5, <1>6, <1>7, <1>8 DEF Next

\* What Finish keeps of an unbroken recording has no gap.
LEMMA KeptHasNoGaps == ASSUME Typed, OnTrack, Finish PROVE FlowHasNoGaps'
<1>1. PICK n \in 0 .. Len(recording) : \E at \in [1 .. n -> 1 .. Len(recording)] :
        /\ Keeps(at, n) /\ Len(capability') = n
        /\ \A k \in 1 .. n : capability'[k] = recording[at[k]]
  BY FinishForm
<1>2. PICK at \in [1 .. n -> 1 .. Len(recording)] :
        /\ Keeps(at, n) /\ Len(capability') = n
        /\ \A k \in 1 .. n : capability'[k] = recording[at[k]]
  BY <1>1
<1>3. Len(recording) \in Nat /\ n \in Nat
  BY DEF Typed, TypeOK
<1>4. /\ \A j, k \in 1 .. n : j < k => at[j] < at[k]
      /\ \A k \in 1 .. n : at[k] \in 1 .. Len(recording) /\ Kept(recording[at[k]])
      /\ \A h \in 1 .. Len(recording) : Kept(recording[h]) => \E k \in 1 .. n : at[k] = h
  BY <1>2 DEF Keeps
<1> SUFFICES ASSUME NEW i \in 1 .. n, ~capability'[i].strayed
             PROVE  capability'[i].before = IF i = 1 THEN entry_url ELSE capability'[i - 1].after
  BY <1>2 DEF FlowHasNoGaps
<1> DEFINE j == at[i]
<1>5. /\ j \in 1 .. Len(recording) /\ capability'[i] = recording[j]
      /\ Reached(recording, j - 1, recording[j].before)
  BY <1>2, <1>4 DEF OnTrack, Unbroken
<1>6. CASE i = 1
  <2>1. ASSUME NEW h \in 1 .. j - 1, Kept(recording[h]) PROVE FALSE
    <3>1. h \in 1 .. Len(recording) /\ h < j
      BY <1>3, <1>5
    <3>2. PICK k \in 1 .. n : at[k] = h
      BY <1>4, <2>1, <3>1
    <3>3. k = 1 \/ 1 < k
      BY <1>3
    <3> QED BY <1>3, <1>4, <1>5, <1>6, <3>1, <3>2, <3>3
  <2> QED BY <1>5, <1>6, <2>1 DEF Reached
<1>7. CASE i # 1
  <2>1. i - 1 \in 1 .. n /\ i - 1 < i
    BY <1>3, <1>7
  <2>2. at[i - 1] \in 1 .. j - 1 /\ Kept(recording[at[i - 1]])
    BY <1>3, <1>4, <1>5, <2>1
  <2>3. ASSUME NEW h \in at[i - 1] + 1 .. j - 1, Kept(recording[h]) PROVE FALSE
    <3>1. h \in 1 .. Len(recording)
      BY <1>3, <1>5, <2>2
    <3>2. PICK k \in 1 .. n : at[k] = h
      BY <1>4, <2>3, <3>1
    <3>3. k < i - 1 \/ k = i - 1 \/ k = i \/ i < k
      BY <1>3
    <3> QED BY <1>3, <1>4, <1>5, <2>1, <2>2, <3>2, <3>3
  <2>4. recording[j].before = recording[at[i - 1]].after
    BY <1>5, <2>2, <2>3 DEF Reached
  <2> QED BY <1>2, <1>5, <1>7, <2>1, <2>4
<1> QED BY <1>6, <1>7

\* FlowHasNoGaps: however the model's detours, the interstitials and the actions that
\* raise are spread over the recording, what build_capability keeps of it is one path
\* from the entry URL, but for the steps before which something else moved the page.
THEOREM RecordedFlowHasNoGaps == Spec => []FlowHasNoGaps
<1>1. Init => OnTrack /\ FlowHasNoGaps
  BY EmptyUnbroken DEF Init, OnTrack, FlowHasNoGaps
<1>2. Typed /\ OnTrack /\ [Next]_vars => OnTrack'
  BY TypedStays, OnTrackStays
<1>3. Typed /\ OnTrack /\ FlowHasNoGaps /\ [Next]_vars => FlowHasNoGaps'
  <2> SUFFICES ASSUME Typed, OnTrack, FlowHasNoGaps, [Next]_vars PROVE FlowHasNoGaps'
    OBVIOUS
  <2>1. CASE Finish
    BY <2>1, KeptHasNoGaps
  <2>2. CASE UNCHANGED capability
    BY <2>2 DEF FlowHasNoGaps
  <2>3. Finish \/ UNCHANGED capability
    BY OnlyFinishSucceeds
  <2> QED BY <2>1, <2>2, <2>3
<1> QED BY <1>1, <1>2, <1>3, SpecTyped, PTL DEF Spec

--------------------------------------------------------------------------------
(* The outputs.  What is collected was read by an action that is recorded.     *)

Reads(actions, o) ==
  \E i \in 1 .. Len(actions) : o # NoOutput /\ actions[i].output = o /\ actions[i].verified

Noted ==
  pc \notin {"exhausted", "done"} => \A o \in collected : Reads(recording, o)

LEMMA AppendReads ==
  ASSUME NEW actions \in Seq(ExecutedActions), NEW a \in ExecutedActions
  PROVE  /\ \A o : Reads(actions, o) => Reads(Append(actions, a), o)
         /\ a.output # NoOutput /\ a.verified => Reads(Append(actions, a), a.output)
<1> DEFINE longer == Append(actions, a)
           n == Len(actions)
<1>1. n \in Nat /\ Len(longer) = n + 1 /\ longer[n + 1] = a /\ \A i \in 1 .. n : longer[i] = actions[i]
  BY AppendProperties, LenProperties
<1> HIDE DEF longer, n
<1>2. 1 .. n \subseteq 1 .. n + 1 /\ n + 1 \in 1 .. n + 1
  BY <1>1
<1>3. \A o : Reads(actions, o) => Reads(longer, o)
  BY <1>1, <1>2 DEF Reads, n
<1>4. a.output # NoOutput /\ a.verified => Reads(longer, a.output)
  BY <1>1, <1>2 DEF Reads
<1> QED BY <1>3, <1>4 DEF longer

LEMMA NotedStays ==
  ASSUME Typed, Noted, [Next]_vars
  PROVE  Noted'
<1>1. recording \in Seq(ExecutedActions)
  BY DEF Typed, TypeOK
<1>2. ASSUME NEW actions \in Seq(ExecutedActions), EndTurn(actions), pc # "done",
             \A o \in collected' : Reads(actions, o)
      PROVE  Noted'
  BY <1>2, EndTurnForm DEF Noted
<1>3. ASSUME EndTurn(recording), UNCHANGED collected, pc \in {"execute", "confirm", "blocked", "act"}
      PROVE  Noted'
  BY <1>1, <1>2, <1>3 DEF Noted
<1>4. ASSUME UNCHANGED <<collected, recording>>, pc \notin {"exhausted", "done"} PROVE Noted'
  BY <1>4 DEF Noted
<1>5. ASSUME NEW how, Return(how) PROVE Noted'
  BY <1>5 DEF Return, Noted
<1>6. CASE Agent
  <2>1. CASE Enter \/ Decide \/ DecideBlocked \/ GatePasses
    BY <1>4, <2>1 DEF Enter, Decide, DecideBlocked, GatePasses, Goes, Ignored
  <2>2. CASE RefMissing \/ PolicyBlocks \/ ActRaises
    BY <1>3, <2>2 DEF RefMissing, PolicyBlocks, ActRaises, Ignored
  <2>3. CASE Act
    <3>1. PICK action \in ExecutedActions :
            /\ action.output = decision.output
            /\ action.output # NoOutput => action.verified
            /\ EndTurn(Append(recording, action))
      BY <2>3, ActForm
    <3>2. /\ pc = "act" /\ collected' = collected \cup ({action.output} \ {NoOutput})
      BY <2>3, <3>1, ActForm
    <3>3. Append(recording, action) \in Seq(ExecutedActions)
      BY <1>1
    <3>4. ASSUME NEW o \in collected' PROVE Reads(Append(recording, action), o)
      <4>1. CASE o \in collected
        BY <1>1, <3>2, <4>1, AppendReads DEF Noted
      <4>2. CASE o = action.output /\ o # NoOutput
        BY <1>1, <3>1, <4>2, AppendReads
      <4> QED BY <3>2, <4>1, <4>2
    <3> QED BY <1>2, <3>1, <3>2, <3>3, <3>4
  <2>4. CASE Finish
    BY <2>4 DEF Finish, Noted
  <2>5. CASE FinishMissing \/ Raises
    BY <1>5, <2>5 DEF FinishMissing, Raises
  <2> QED BY <1>6, <2>1, <2>2, <2>3, <2>4, <2>5 DEF Agent
<1>7. CASE Operator
  <2>1. CASE Exhausted
    BY <1>5, <2>1 DEF Exhausted
  <2>2. ASSUME NEW r \in Resolutions, Confirmed(r) PROVE Noted'
    BY <1>3, <1>4, <2>2 DEF Confirmed, Approved, Goes, Ignored
  <2>3. ASSUME NEW r \in Resolutions, Unblocked(r) PROVE Noted'
    BY <1>3, <1>5, <2>3 DEF Unblocked, Ignored
  <2> QED BY <1>7, <2>1, <2>2, <2>3 DEF Operator
<1>8. CASE PageMoves
  BY <1>8 DEF PageMoves, Noted
<1>9. CASE Terminated \/ UNCHANGED vars
  BY <1>9 DEF Terminated, vars, Noted
<1> QED BY <1>6, <1>7, <1>8, <1>9 DEF Next

\* ArtifactReadsOutputs: whichever of the actions that read a declared output raised,
\* were repeated or stood among detours, a successful run's artifact has a step that
\* reads it, unless an interstitial showed.
THEOREM OutputsAreRead == Spec => []ArtifactReadsOutputs
<1>1. Init => Noted /\ ArtifactReadsOutputs
  BY DEF Init, Noted, ArtifactReadsOutputs
<1>2. Typed /\ Noted /\ [Next]_vars => Noted'
  BY NotedStays
<1>3. Typed /\ Noted /\ ArtifactReadsOutputs /\ [Next]_vars => ArtifactReadsOutputs'
  <2> SUFFICES ASSUME Typed, Noted, ArtifactReadsOutputs, [Next]_vars
               PROVE  ArtifactReadsOutputs'
    OBVIOUS
  <2>1. CASE Finish
    <3>1. PICK n \in 0 .. Len(recording) : \E at \in [1 .. n -> 1 .. Len(recording)] :
            /\ Keeps(at, n) /\ Len(capability') = n
            /\ \A k \in 1 .. n : capability'[k] = recording[at[k]]
      BY <2>1, FinishForm
    <3>2. PICK at \in [1 .. n -> 1 .. Len(recording)] :
            /\ Keeps(at, n) /\ Len(capability') = n
            /\ \A k \in 1 .. n : capability'[k] = recording[at[k]]
      BY <3>1
    <3>3. Outputs \subseteq collected /\ recording' = recording /\ pc = "decide"
      BY <2>1 DEF Finish
    <3> SUFFICES ASSUME NEW o \in Outputs
                 PROVE  \E i \in 1 .. Len(recording) :
                          /\ recording[i].output = o
                          /\ \/ recording[i].dismissal
                             \/ \E j \in 1 .. Len(capability') : capability'[j] = recording[i]
      BY <3>3 DEF ArtifactReadsOutputs
    <3>4. PICK i \in 1 .. Len(recording) : recording[i].output = o /\ recording[i].verified
      BY <3>3 DEF Noted, Reads
    <3>5. CASE ~recording[i].dismissal
      <4>1. Kept(recording[i])
        BY <3>4, <3>5 DEF Kept
      <4>2. PICK j \in 1 .. n : at[j] = i
        BY <3>2, <4>1 DEF Keeps
      <4> QED BY <3>2, <3>4, <4>2
    <3> QED BY <3>4, <3>5
  <2>2. CASE ~Finish
    <3>1. outcome' = "success" => UNCHANGED <<outcome, recording, capability>>
      BY <2>2, OnlyFinishSucceeds DEF Typed
    <3> QED BY <3>1 DEF ArtifactReadsOutputs
  <2> QED BY <2>1, <2>2
<1> QED BY <1>1, <1>2, <1>3, SpecTyped, PTL DEF Spec
================================================================================
