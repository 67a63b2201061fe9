# A formal model of the computer-use automation service

This directory holds TLA+ modules for the program in `src/`: a service that
replays recorded flows ("capabilities") in a legacy banking UI with a browser,
lets a person step in when a step is risky or stuck, and offers the flows to
customers (chat), employees (dashboard) and callers (API). The modules are
translated from the source; each definition's lines are listed in
`PROJECT.json` under `map`. TLC checks small instances, TLAPS proves the
theorems of the `*_proofs` modules for every value of the constants.

## Inventory

| Component | State it keeps | Operations | What is hard about it |
| --- | --- | --- | --- |
| Replay engine (`cua/replay`) | step index, resolution attempt, recovery counts, reports, outputs, intervention id | run: per step resolve, gate, confirm, act, verify; triage into outcome, recovery, handoff, failure | exceptions between act and verify, retries after a write, what was checked before a handoff and is used after it |
| Operator console (`cua/escalation`) | the open request, a page snapshot, the intervention files | look, goto, click/fill/select, approve/deny/resume/abort | runs on the engine's thread over the engine's page; references to an earlier page; an id shared by two requests |
| Policy gate (`cua/safety/policy.py`) | none (configuration) | check_url, check_action, classify | that every action passes it, at the time of the action |
| Browser seam (`cua/browser.py`) | the live page | build_locator_chain, resolve_target, probe_holds, take_snapshot | ambiguity and fallbacks, rows that look alike, a page that moves under the caller |
| Discovery agent, recorder (`cua/discovery`) | trace, turn counter, outputs read | turn loop, escalations; building the artifact from the trace | pruned steps and the outputs read in them, ignored answers |
| Run service (`meridian_service/app.py`) | RUNS (status, result, intervention, queue), sessions, pending chat run | start_replay, run command, chat, status, login | a worker thread per run against eight request threads: check-then-push, torn status, two messages on one pending run |
| Customer and employee surfaces (the same file) | one signed cookie: customer, employee, unanswered question | logins, logouts, chat: routing, validation, launch | a chat answers after its replay, so responses arrive in any order and each brings back the whole cookie of its time |
| Platform primitives (`meridian_service/platform.py`) | hit queues, cached value, breaker counters, idempotency items | check, get_or_load, call, get, put | a clock read outside the lock, late completions, get and put that are two steps |
| Mock bank (`mock_app`) | accounts, balances, cards, loans | transfer, close, pay, hold, open, apply, toggle | read-modify-write under four threads, statuses that are not looked at, amounts that are NaN or less than a cent |
| Run log, redactor, CLI, schema validators | files, patterns | write, substitute, parse | text only |

How they interact: the service starts a thread per run; the thread owns the
browser, the engine and a console whose input is a queue that employees' command
requests fill. The engine calls the console synchronously: while the console
loop runs, the engine is inside it. The chat keeps one pending run per
customer session and hands later messages to it. The primitives guard the
service's endpoints and its call to the language model; the mock bank is the
page at the other end of the browser.

What makes each part correct:

- Replay engine: a risky step needs a word from the caller or a person for that
  step; no step is carried out twice; SUCCESS only with every checkpoint seen to
  hold; a failure names the step it happened at; a refusal is final; the run ends
  or waits for a person.
- Console: one holder of the page at a time; an answer belongs to the question it
  was given to; operator's actions pass the gate like automation's.
- Locators: the element found is the one recorded, in the row the caller asked
  for, or none; what is less certain is reported as drift.
- Discovery: the recorded flow can be walked from the entry to the end, reads
  every output it declares, and did nothing risky without approval.
- Run service: one key, one execution; a status never promises a result that is
  not there; a run that waits can be found and answered; no run stays behind.
- Surfaces: a question, its answer and the replay they lead to belong to one
  customer; every route to a launch passes the validation of accounts and the
  rule for writes; logging in to one surface leaves the other alone.
- Primitives: at most `limit` admissions in any window; nothing served older than
  its time to live; a circuit open for cause that probes alone and recovers.
- Mock bank: money is neither lost nor made; no balance goes below zero; a closed
  account is empty.

## Modules

Definitions keep the source's names where TLA+ allows it; an operator named
`..._Fault` is its neighbour with a bug the code could have had. Nothing uses
these operators: they document what each property is able to notice, and
`PROJECT.json` pairs each with the property it breaks (`mutants`).

| Module | Models | State and actions, against the code |
| --- | --- | --- |
| `OperatorConsole` | `cua/escalation`, `check_url` of `cua/safety/policy.py` | One live page (`page`, allowed or not), who holds it (`holder`), the open request, the console's snapshot, the handoff log and the intervention files. `OperatorCommand` is one line of input: look, goto, an operation, an operation that raises, or one of the four answers. Lines that only print are stuttering. |
| `ReplayEngine` | `cua/replay/engine.py`, extends the console because the console runs inside the engine's thread | `pc` names the place inside `run`/`_run_step`/`_classify_or_fail`; `attempt` and `origin` say which of the three callers asked for a triage. One action per place and outcome: `ResolveTarget`, `CheckAction`, `AskConfirmation`, `Confirmed`, `Act`, `ActRaises`, `VerifyHolds`, `Classify`, `Recover`, `Escalate`, `Resumed`, `Fail`, ... What the page shows is a choice made whenever the code asks, because it changes under the engine; it may also go elsewhere by itself between any two steps (`PageMoves`), and the questions the engine asks it outside every handler may raise (`QueryRaises`). `GateAllows` is `check_action`: the type of the action and the URL. |
| `ReplayContract` | the promise of `cua/replay/result.py` and of the risk model, without pages, probes or consoles | `acted`, `granted`, `refused`, `outcome`; `ReplayEngine!Contract` is the refinement mapping. |
| `MCReplayEngine` | | small plans and rules, callers, a policy without clicks |
| `RunService` | `meridian_service/app.py` and the idempotency store | The RunStates, `RUNS`, one command queue each, request threads (invoke and chat), worker threads, employees and the customer's cookie. Two assignments of one RunState are one step unless another thread can act on what lies between (listed in the module's header): a worker writes result and status in two steps, a chat request status and result. Messages of one customer overlap as they like, and `ChatResponds` may lose a response. `takenOver` remembers the RunStates a message took although they did not wait for the customer. The engine inside a worker is its handoffs and its end. |
| `MCRunService` | | two callers who ask for the same under one key; three messages of one customer under one key |
| `Clock`, `RateLimiter`, `TTLCache`, `RequestEntry` | `SlidingWindowRateLimiter`, `TTLCache` of `meridian_service/platform.py` and how `before_request` and the catalog use them | A thread reads the clock first and takes the lock afterwards, so it works with an old reading (`read`); `RequestEntry` composes the two under one clock. |
| `CircuitBreaker` | `CircuitBreaker` and the chat's router calls | A call begins (`Admit`, `Probe`), is outside the lock for as long as the model's service takes, and ends (`Succeeds`, `Fails`). |
| `DiscoveryAgent` | `cua/discovery/agent.py`, the inclusion rule of `cua/discovery/recorder.py` | One action per way through a turn: the model's choice, a reference that names nothing, the gate, the confirmation, the action with its expectation, the action that raises; `Finish` takes the positions of the recording that are `Kept`, in their order (`Keeps`). The page is its URL and may move by itself. |
| `Locators` | `build_locator_chain` and `resolve_target` of `cua/browser.py`, the anchor and the templates of the recorder, the substitution of the engine | A text is a sequence of fragments and a value of the input one fragment, which may stand anywhere in it: `Template` and `Substitute` replace every occurrence, in captions, attributes, ids and the digits of positions alike. `Path` stops at an id and leaves out the position of an only sibling. Pure operators for the discovery side (`LocatorChain`, `Reanchored`, `Template`, `Bound`), a small state machine for the two passes of `resolve_target` over a page that may still change. The call's value may be `Param`, the placeholder itself: so a checkpoint is looked at again after a recovery or a handoff (`engine.py:361`, `378`). |
| `MCLocators` | | tables of one or two rows with repeated links, form fields, headers and labels, values inside captions, attributes and ids, and one table of twelve rows |
| `CustomerPortal` | the logins, logouts and `api_chat` of `meridian_service/app.py`, with the routing and validation it calls | A request carries the cookie as it was when it was sent (`sent`), its handler leaves a session (`session`), and `Deliver` puts that session into the browser's `jar`, at any later time. A message is what routing can find in it: the capability that ranks clearly first, the accounts it names, whether it has the other details. `Ranked` is `_public_demo_route`, `Called` the model's tool call, `Acts` the rest of the handler. RunService has the same chats' threads and RunStates; here a RunState is only a name with an owner. |
| `MCPortal` | | capabilities that need an account, an account and a text, two accounts and a text; four settings of the environment |
| `Bank` | `mock_app/data.py` behind the POST routes of `mock_app/app.py` | Balances in cents, amounts in fractions of a cent or NaN, formatting as rounding to the nearest cent. An operation is as many steps as it has accesses to what other threads write: `ReadAvailable`, `Debit`, `ReadTo`, `Credit`, ... The history variables say what was paid in and out and which writes came from a reading another request had overtaken. |
| `MCBank` | | two accounts, one empty |
| `Bank_proofs`, `ReplayEngine_proofs`, `RunService_proofs`, `CircuitBreaker_proofs`, `RequestEntry_proofs`, `DiscoveryAgent_proofs`, `Locators_proofs`, `CustomerPortal_proofs` | | theorems |

## Runs

| Run | Question | Bounds |
| --- | --- | --- |
| `replay` | Is every action approved, carried out once, permitted, on a page the gate allows, and within the contract, whatever page and operator do? Do the result, the reports and the intervention files say what happened? Does the engine by itself end or wait, and end where nobody attends to it? | navigation, risky click, fill, for all four kinds of caller (risky steps confirmed beforehand or not, escalation or not), and one whose policy permits no clicks; a rule that clicks and one that waits, each applicable once; the page may move by itself at any step |
| `service_api` | Retries under one key, an employee, items that age: do all workers end? | two requests with one key and one body, two handoffs, one unread command |
| `portal` | Logins, logouts and chats of two customers and an employee in one browser whose responses overtake each other: whose question, whose replay, validated how, and do the surfaces leave each other alone? | four requests (login, question, logout or login, answer), two of them overlapping, an account each, every route to a launch |
| `service_chat` | A customer's messages answer, supersede and repeat each other, one after the other or at once, and their responses are late or lost: does a repeat start nothing, has a done run its result, and are there orphans, wrong answers, shared runs, revived or unreachable ones? | three messages under one key (two of them for the same thing), every interleaving, one handoff, no credentials, a disk that may fail |
| `breaker` | Is the circuit open for cause, with one probe, never stuck? | three threads (a probe, a straggler and a newcomer), threshold 2, two seconds |
| `request_entry` | Are window, freshness and spacing kept although the clock is read outside the lock? | two threads, limit 2, window 3, time to live 3, readings one old, six ticks |
| `discovery` | Is the recorded flow without gaps, with its outputs, its risk approved, and does the agent end? | three turns, three URLs (one the gate rejects), one output |
| `locators` | Does a target find what was recorded, in the caller's row, or nothing? And with the values left out, as a checkpoint is after a recovery? | twenty pages, of two rows at most but for one of twelve (positions of two digits); four values, two of them digits that also occur in paths; one change of the page |
| `bank` | Requests that overlap in every way: do balances and card hold their history, does no balance go below zero, is a closed account empty? | three threads with one request each (two that race and one that comes later), two accounts, one of them empty; amounts of nothing, half a cent (`Cent` is 2), two cents, NaN |
| `replay_outputs`, `replay_redo`, `service_stale_command` | statements of the documents that the code does not keep | as small as the counterexample needs |

Why these bounds are enough: no rule of the code depends on more than a step and
its neighbours, on more than the two attempts of a resolution, on more than a
thread that is late and one that is on time, on more than one overtaken reading or
response; each bound lets the case behind a
property happen, which the mutant of the property shows. `MaxUnread`, `MaxTime`,
`MaxHandoffs`, `MaxRequests`, `MaxInFlight` and "the page moves once" bound what the code leaves
unbounded. `MaxLag` is an assumption: the time between a clock reading and the
critical section that uses it. The window, freshness and spacing properties are
kept up to that lag, not beyond.

Fairness. The engine's, agent's and workers' threads run as long as they have
something to do (weak fairness of their actions): nothing in the code waits for a
condition but the console's `readline`. The run `replay` assumes nothing of the
operator, so the engine is shown to end or to wait for one, and to end for the
callers who confirmed the risky steps and want no escalation (`EndsOrWaits`).
`discovery` and `service_api` assume that somebody answers a handoff in the end,
for that is the one place where a thread waits without a timeout; `AllEnd` wants
strong fairness there, because an employee may be kept busy by another run. The
page and the choices of the language model get no fairness. `Recovers` assumes
that time passes, that a call of the service ends (its client has a timeout) and
that customers go on asking, as nothing else would ever probe. The other runs
check safety and state no fairness.
Deadlock is checked except where all requests are answered and nobody is left to
act (the service runs, `bank`, `portal`) and in `request_entry` (the clock has a
last tick).

## Proofs

Checked by TLAPS from the named assumptions on the constants only: types, a
threshold of at least one, captions for links and buttons, ids that stand once in a
page, positions with digits of their own, a placeholder that is no text of a page, at
least one account and one amount, request bodies that are none
of the words a RunState's result has for "no result". No bound of the runs is used.
Every safety invariant and every safety property of a step that a run checks is
stated by one of the theorems.

- `ReplayEngine_proofs` -- types; `RiskyNeedsApproval`; `NeverActsTwice`;
  `RefusalIsFinal`; `RecordsTellTheTruth`; `ActsWhereAllowed`; and that every
  behaviour of the engine is one of `ReplayContract`. The properties speak of the
  past (how often a step was carried out, which intervention approved it), the
  code of where it is, so the strengthening ties the two: steps behind the current
  one have not been carried out, the current one only after `act`; whoever stands
  at `act` with a risky step passed the gate's question, with the caller's word or
  with the last entry of the log; a refusal leaves nothing but the way to a hard
  failure. For the records (`Reported`, `Concluded`) a step behind the current one
  has a report that is not a failure and a successful run has passed them all; a run
  left by an exception has the reports of a run that is at its step. For
  the policy (`ActGated`) whoever stands at `act` without a person's word stands
  on a page the gate has let through, unless it has moved since (`strayed`).
- `CircuitBreaker_proofs` -- types, `OpenIsEarned`, `MarkIsBacked`, `OneProbe`.
  Inductive only together: that a mark is backed needs that the calls counted as
  old are those from before the opening, and that one probe is alone needs that
  a probe in flight has its mark unless a straggler has taken it.
- `RequestEntry_proofs` -- types, `WindowHolds`, `FreshEnough`, `LoadsAreSpaced`.
  The window argument needs that the readings in the deque, though out of order,
  each lie within `MaxLag` of their admission, and that everything admitted
  within the window is still in the deque.
- `Bank_proofs` -- types (with them that no balance is negative), `HistoryHolds`,
  `ClosedIsEmpty`, for any number of overlapping requests, any amounts and any
  fraction of a cent. That a balance is its history is not inductive: a write
  keeps it only if the reading it was computed from still holds. `Holds` says
  that this is so of the threads in `fresh`, `Checked` what a thread at a write has
  made sure of; `RoundedIsNear` and `RoundingAddsUp` are the arithmetic of half a
  cent a write.
- `RunService_proofs` -- types; `RetryStartsNothing`; `DoneHasResult`, `NoOrphans`,
  `AnswersOwnRequest`, `HandoffIsReachable`, `OneWorker`, `SupersededStays`, for
  any messages in any interleaving and with any responses lost. That a repeat starts
  nothing needs of every request answered with a run that its key has an item until
  that ages (`Stored`), and of every repeat that the item it came after is still there
  (`RepeatsFind`). The others are inductive only together (`Kempt`): as long as no
  message takes a RunState from a thread at work on it, at most one thread handles it
  (`Alone`), and none while it waits for the customer or once it is cancelled
  (`Quiet`); the rest says what the thread of a RunState has made of it and where items
  and results come from. One lemma, `StepInOrder`, derives the invariant from what a
  step leaves of its own thread and its own RunState, for all actions. The RunStates
  in `takenOver` are excepted because the code needs it: a response that is lost, or a
  second tab, leaves a cookie that names a finished or running run, and the next
  message resets or cancels it (`app.py:1465-1480`, under Findings).
- `Locators_proofs` -- types; `RowIsTheCallers`; `SamePageSameElement`;
  `SilentIsFaithful`. An anchored target has exactly one locator, the row of the
  bound value (`AnchoredChain`); any other is a chain whose first locator is the most
  meaningful there is, whose last is the path, and all of whose locators the element
  itself is matched by, unless its label lost a colon (`ChainForm`). Replacing the
  value by the placeholder and that by the caller's value replaces the one by the
  other, fragment by fragment (`CalledForm`), so with the value of the discovery it
  changes nothing. These are facts of the operators alone. The steps add that what
  was found was matched by the locator of that rank on the page as it still is, and
  no other place by its exact words (`Matched`); that on the page of the discovery no
  search gets past the path (`OnlyItself`); and what a match of a first locator says of
  the place found (`FirstRecalls`).
- `DiscoveryAgent_proofs` -- types; `RiskyIsApproved` (an approval lasts for its
  turn); `FlowHasNoGaps`; `ArtifactReadsOutputs`. The artifact is built at the end,
  so the invariants are about the recording: each action that was not led astray
  begins where the last kept one before it ended, and so does the page now
  (`Reached`, `Unbroken`, `OnTrack`); each output collected has a verified action
  that reads it (`Noted`). That a sequence of the kept actions then has no gap is
  an argument about increasing positions (`KeptHasNoGaps`); it is why `Finish` says
  which positions are kept and does not call `SelectSeq`, which is recursive.
- `CustomerPortal_proofs` -- types, `RunsServeOneCustomer`, `LaunchIsValidated`,
  `SurfacesAreIndependent`. Cookies travel: a chat carries the session of the time
  it was sent and its response writes it back. The strengthening says of every
  cookie, the browser's, one under way and the session a request works on, that
  the question it holds open is its own customer's, and of every run that whoever
  it was launched for is whoever it is still answered to.

`RefusalIsFinal` and `MarkIsBacked` are proved and in no run of their own: whatever
breaks them breaks the contract, or the other properties of the breaker.

Only model-checked: liveness (`EndsOrWaits`, `Ends`, `AllEnd`, `Recovers`), which
needs fairness and so ENABLED, out of the provers' reach. The statements of the
documents that the code does not keep are refuted, not proved.

## Findings

Three statements of the repository are refuted by a run (`findings` in
`PROJECT.json`):

- `replay_outputs`: a READ that raises and is then recovered is never read again;
  the run reports SUCCESS without the output (`engine.py:217`, `result.py:5-6`).
- `replay_redo`: after a resolution failure the operator completes the risky step
  and resumes; the engine sees its checkpoint hold and carries it out again
  (`engine.py:272`, `README.md:163`).
- `service_stale_command`: a second approval of one intervention stays in the
  queue and answers the next one (`app.py:768`, `intervention.py:10-11`).

Seen while modelling, in the models as the code has it, and named as
exceptions in the properties they concern, but without a run of their own:

- `get` and `put` of the idempotency store are two critical sections: two requests
  with one key that arrive together both execute (`app.py:573`).
- The gate is asked before a confirmation handoff and not after it; the approved
  action runs on whatever page the operator left, and any action on whatever page the
  browser has gone to by itself since the gate looked at its URL (`engine.py:175`;
  `ActsWhereAllowed`), against `policy.py:5-6`.
- Where the engine asks the page outside every handler -- the settle wait of
  `resolve_target` and the poll of `probe_holds` (`browser.py:497`, `554`), the title in
  the summary of what was observed (`engine.py:229`, `366`, `434`) -- a browser that
  does not answer raises out of `run()`, and no result is written (`QueryRaises`;
  against `result.py:3`).
- `abort` in answer to a risky confirmation during discovery only denies the
  action and the agent goes on (`agent.py:196`), while the console's help says
  "stop the run" (`console.py:46`). The answer to the last handoff, out of
  turns, is not looked at (`agent.py:135`).
- An output read only while an interstitial showed counts as read, but its step is
  left out of the artifact (`recorder.py:249`; `ArtifactReadsOutputs`).
- Steps of a person, actions that raised after they took effect and moves of the
  page itself are not recorded: the flow has gaps there (`FlowHasNoGaps`).
- A control whose caption contains the recorded one is found at rank 0 and not
  reported as drift: the second try of the first pass (`browser.py:488-492`)
  and the final pass ask for no exact match (`SilentIsFaithful`).
- Wherever an input's value happens to stand in a locator -- in the words of a label or
  a caption, in an attribute (`artifacts/meridian_core/member_balance.json:124` looks
  for `input[name="{password}"]`), in a digit of a structural path -- it becomes a
  placeholder (`recorder.py:85-90`, `209-218`). Another value then silently asks for
  another element, or for none: a wide exception, which `SilentIsFaithful` names.
- A row that shows the input's value only as the caption of its control is anchored on
  it, but looked for by the texts of its cells: the element is not found, another in a
  row that shows the value may be (`recorder.py:169-195`; `SamePageSameElement`).
- A label written with a colon loses it in the locator, which then does not match
  its own row (`browser.py:204`; `SamePageSameElement`). A text field in a row of
  the input's value is looked for by a value equal to its caption and is not found
  (`recorder.py:123-124`).
- A recovery whose click raises leaves `run()` without a result
  (`engine.py:349`, against `result.py:3`), as the rejected entry URL and a bad
  parameter do.
- The second intervention of a run with the same id overwrites the first's file
  (`intervention.py:92`); the console keeps its snapshot over a goto
  (`console.py:104`).
- `api_chat` takes up the pending run of the cookie whatever it is doing
  (`app.py:1465-1480`). With two tabs, or after a lost response, a message resets or
  cancels a run that another request or a worker is at work on or has finished: two
  workers then share one RunState, a request may get the other's result, a cancelled
  run is revived, one that has ended says "running" for ever. Those RunStates
  (`takenOver`) are the exception of `NoOrphans`, `OneWorker`, `AnswersOwnRequest`,
  `HandoffIsReachable`, `DoneHasResult` and `SupersededStays`.
- A chat request writes "done" before the result (`app.py:1468-1470`, `1521-1523`,
  `1529-1531`), a worker after it: a poll in between reads a done run without one
  (`DoneHasResult`).
- A chat request without credentials, and a worker whose log directory cannot be made,
  leave a run shown as running (`app.py:1590`, `app.py:592`; `NoOrphans`).
- A checkpoint that is looked at again after a recovery or a handoff is the recorded
  one, without the values of the call (`engine.py:361`, `378`): one anchored in the
  caller's row finds nothing then, so the step it belongs to cannot recover.
- Two transfers that overlap lose a debit or a credit (`data.py:360-361`); a CLOSED
  account can be credited, billed or put on hold, and closed again from there
  (`data.py:361`, `423`, `441`); an amount of "nan" passes both comparisons and
  makes both balances NaN (`data.py:355-358`); an amount of half a cent is rounded at
  each account by itself and may be debited and not credited. Each is a named
  exception of `HistoryHolds` or `ClosedIsEmpty`.
- The response of a chat carries the session of the time it was sent; arriving after
  a logout or a login it undoes it (`app.py:1560`, against the comment at
  `app.py:1660`; `SurfacesAreIndependent`).
- An answer to a question launches the capability with the account alone, whatever
  else the first message said (`app.py:1503`); an employee's login drops the
  customer's question, whose run then waits for the customer for ever (`app.py:1663`).
- A call from before the opening clears the mark of a probe, or closes the circuit, when it ends
  (`platform.py:116-125`; `OneProbe`).

## Not modelled

- Origin and prefix matching and the name patterns of the policy; the text of
  pages, observations, prompts and reports; screenshots, timings, the run log
  and the redactor.
- Failures of the disk and of the run log inside the engine, which would leave `run()`
  like the exceptions of the page.
- In `Locators`: links and buttons without a caption, elements whose role is an
  attribute and not their tag's, buttons that are `<input>`s, ids of anything but
  controls, hidden or very long elements, texts that differ in case alone, values in
  a role, a tag or the words of a selector. What a selector matches is modelled from
  how `resolve_target` uses it; the browser library is not part of the repository.
- What `build_capability` writes besides steps and their targets: checkpoints,
  URL patterns, descriptions, business outcomes.
- The scores by which `meridian_service/app.py` ranks artifacts (the model has their
  result, a capability that is clearly first), the wording of replies, the home
  page's replays, evidence, health checks and pages that only read.
- `TTLCache.clear`, which nothing in the service calls, and the numbers of
  `Retry-After`.
- Of the mock bank: loans, sub-accounts and contact details, which share nothing
  with the accounts; its lists of payments and holds and its reference numbers,
  which nothing reads back; its pages and `MOCK_CHAOS`, which `ReplayEngine` has as
  whatever the page shows; the generator of its members.
- The command line and goal files, which parse and call.

## Plan

In this order of importance the modules were written: the engine with its console
and contract, the service around it, the primitives the service's threads share,
the discovery agent, the locators, the bank, the surfaces. What is left:

1. Proofs: that the service, seen by a caller with a key, is a table in which a
   key gets one run and a run one result, as an abstract specification and a
   refinement; the same for what a customer sees of their chat.
2. `Locators` under `ReplayEngine`: checkpoints with targets, so that the page's
   answer to a re-verification is decided by the model; now the two are checked
   apart, and the engine's probe is a free choice that contains the locators' answer.
3. Policy and redaction as operators on small alphabets, against a reference
   definition.
