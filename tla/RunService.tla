------------------------------- MODULE RunService ------------------------------
(***************************************************************************)
(* The run service of meridian_service/app.py: request threads that start   *)
(* runs (POST /api/capabilities/<id>/invoke and POST /api/chat), one worker *)
(* thread per started run, and employees who post operator commands to a    *)
(* run that waits for a person.  They share the RunState objects, the RUNS  *)
(* table, the idempotency store and one command queue per RunState.         *)
(*                                                                          *)
(* Grain.  Consecutive assignments to one RunState are one step, except     *)
(* where another thread may act on what lies between: result before status  *)
(* in a worker, status before result in a chat request, status before       *)
(* intervention, the idempotency store's get before its put, the command    *)
(* endpoint's status check before its push, and the end of a chat handler   *)
(* before its response reaches the client, if it ever does.                 *)
(*                                                                          *)
(* Data.  A request registers at most one RunState, named after it.  "Body" *)
(* is the capability and parameters a request asks for (the idempotency     *)
(* fingerprint); a request without an Idempotency-Key has a key of its own. *)
(* The engine inside a worker is its handoffs and its end: ReplayEngine.tla *)
(* has the rest.  Nobody takes up a run with MaxUnread commands unread: a   *)
(* bound of the model, the queue itself has none.                           *)
(***************************************************************************)
EXTENDS Naturals, Sequences, FiniteSets

CONSTANTS
  Requests,          \* the start requests, each made once
  Owner,             \* request -> the customer chatting, or Api
  Key,               \* request -> its idempotency key
  Body,              \* request -> what it asks for
  Api,               \* the owner of an invoke request
  Nobody,            \* no request, no item
  Employees,
  MaxHandoffs,       \* interventions a worker raises at most
  MaxUnread,         \* bound on a command queue
  HasCredentials,    \* the legacy system's credentials are configured
  DiskFails          \* TRUE: creating a run directory may raise

ASSUME ServiceAssumptions ==
  /\ IsFiniteSet(Requests)
  /\ Nobody \notin Requests \cup [body : {Body[q] : q \in Requests}, run : Requests]
  /\ \A q \in Requests : Body[q] \notin {"none", "note", "cancelled"}
  /\ MaxHandoffs \in Nat /\ MaxUnread \in Nat
  /\ {HasCredentials, DiskFails} \subseteq BOOLEAN

VARIABLES
  run,          \* the RunState of each request
  RUNS,         \* the ones in the RUNS table
  console_in,   \* RunState.console_in, oldest command first
  IDEMPOTENCY,  \* key -> the stored item
  aged,         \* the keys whose item has passed its time to live
  request,      \* the request threads
  worker,       \* the worker thread a request started
  employee,     \* the employees and their half-made command requests
  cookie,       \* customer -> the pending run in their session cookie
  takenOver     \* history: RunStates a message took from another thread

vars == <<run, RUNS, console_in, IDEMPOTENCY, aged, request, worker, employee, cookie,
          takenOver>>

store == <<IDEMPOTENCY, aged>>
session == <<cookie, takenOver>>

Keys == {Key[q] : q \in Requests}
Bodies == {Body[q] : q \in Requests}
Customers == {Owner[q] : q \in Requests} \ {Api}
Words == {"look", "approve"}   \* a command that stays in the loop, and one that leaves it

Statuses == {"running", "awaiting_customer", "awaiting_human", "done", "error",
             "policy_blocked"}
Results == Bodies \cup {"none", "note", "cancelled"}
RunStates == [status : Statuses, intervention : 0..MaxHandoffs, result : Results]
Commands == [word : Words, seen : 1..MaxHandoffs]
Items == [body : Bodies, run : Requests]

Answers == {"none", "refused", "unbound", "replied", "asked", "accepted", "vanished",
            "done", "error", "awaiting_human", "timeout"}
Started == Answers \ {"none", "refused", "unbound", "replied", "asked"}

Someone == Requests \cup {Nobody}
RequestThreads ==
  [pc : {"idle", "superseding", "routing", "validating", "starting", "missed", "awaiting",
         "noting", "responding", "answered"},
   run : Someone, was : Someone, pending : Someone, answer : Answers, got : Results,
   repeat : BOOLEAN]
WorkerThreads ==
  [pc : {"none", "starting", "lost", "engine", "shown", "console", "leaving", "left",
         "recorded", "ended"},
   asked : 0..MaxHandoffs, outcome : {"none", "done", "error"}]
EmployeeThreads ==
  [pc : {"idle", "deciding", "pushing"}, run : Someone, seen : 0..MaxHandoffs]

TypeOK ==
  /\ run \in [Requests -> RunStates]
  /\ RUNS \subseteq Requests
  /\ console_in \in [Requests -> Seq(Commands)]
  /\ IDEMPOTENCY \in [Keys -> Items \cup {Nobody}]
  /\ aged \subseteq Keys
  /\ request \in [Requests -> RequestThreads]
  /\ worker \in [Requests -> WorkerThreads]
  /\ employee \in [Employees -> EmployeeThreads]
  /\ cookie \in [Customers -> Someone]
  /\ takenOver \subseteq Requests

--------------------------------------------------------------------------------
(* RunState, and the assignments several handlers share.                    *)

NewRunState == [status |-> "running", intervention |-> 0, result |-> "none"]

\* The reset that chat and start_replay begin with; the intervention stays.
Reset(state) == [state EXCEPT !.status = "running", !.result = "none"]

Concludes(q, answer, got, final) ==
  request' = [request EXCEPT ![q].pc = "responding", ![q].answer = answer,
                             ![q].got = got, ![q].pending = final]

\* A request made after another one under the same key was answered with a run.
Repeats(q) ==
  /\ Key[q] \notin aged
  /\ \E p \in Requests : Key[p] = Key[q] /\ request[p].answer \in Started

Waiting(q) == request[q].pc \notin {"idle", "answered"}

--------------------------------------------------------------------------------
(* POST /api/capabilities/<id>/invoke                                       *)

InvokeArrives(q) ==
  /\ Owner[q] = Api /\ request[q].pc = "idle"
  /\ \/ request' = [request EXCEPT ![q].pc = "starting", ![q].repeat = Repeats(q)]
     \/ /\ ~HasCredentials
        /\ request' = [request EXCEPT ![q].pc = "answered", ![q].answer = "refused"]
  /\ UNCHANGED <<run, RUNS, console_in, store, worker, employee, session>>

--------------------------------------------------------------------------------
(* POST /api/chat                                                           *)

\* The pending run of the session, as the RUNS table knows it.
Pending(q) == IF cookie[Owner[q]] \in RUNS THEN {cookie[Owner[q]]} ELSE {}

\* api_chat takes the pending run whatever its status, also from a thread that
\* works on it or that has finished it: nothing asks whether it still waits.
TakesOver(q) ==
  takenOver' = takenOver \cup {r \in Pending(q) : run[r].status # "awaiting_customer"}

ChatArrives(q) == Owner[q] # Api /\ request[q].pc = "idle"

\* A message that answers the pending question resumes the pending run.
ChatResumes(q) ==
  /\ ChatArrives(q)
  /\ \E r \in Pending(q), straight \in BOOLEAN :
       /\ run' = [run EXCEPT ![r] = Reset(@)]
       /\ request' = [request EXCEPT ![q].pc = IF straight THEN "validating" ELSE "routing",
                                     ![q].run = r, ![q].was = r,
                                     ![q].pending = IF straight THEN r ELSE Nobody,
                                     ![q].repeat = Repeats(q)]
  /\ TakesOver(q)
  /\ UNCHANGED <<RUNS, console_in, store, worker, employee, cookie>>

\* Any other message supersedes it: its status first, its result next.
ChatSupersedes(q) ==
  /\ ChatArrives(q)
  /\ \E r \in Pending(q) :
       /\ run' = [run EXCEPT ![r].status = "done"]
       /\ request' = [request EXCEPT ![q].pc = "superseding", ![q].was = r,
                                     ![q].repeat = Repeats(q)]
  /\ TakesOver(q)
  /\ UNCHANGED <<RUNS, console_in, store, worker, employee, cookie>>

\* FAULT: the new message goes on with the run it has superseded.
ChatCancels_Fault(q) ==
  /\ request[q].pc = "superseding"
  /\ run' = [run EXCEPT ![request[q].was].result = "cancelled"]
  /\ request' = [request EXCEPT ![q].pc = "routing", ![q].run = request[q].was]
  /\ UNCHANGED <<RUNS, console_in, store, worker, employee, session>>

ChatCancels(q) ==
  /\ request[q].pc = "superseding"
  /\ run' = [run EXCEPT ![request[q].was].result = "cancelled"]
  /\ RUNS' = RUNS \cup {q}
  /\ request' = [request EXCEPT ![q].pc = "routing", ![q].run = q]
  /\ UNCHANGED <<console_in, store, worker, employee, session>>

\* No pending run, or one that has left the table while its question is kept.
ChatOpens(q) ==
  LET pending == cookie[Owner[q]]
  IN /\ ChatArrives(q) /\ Pending(q) = {}
     /\ RUNS' = RUNS \cup {q}
     /\ \E straight \in {FALSE, pending # Nobody} :
          request' = [request EXCEPT ![q].pc = IF straight THEN "validating" ELSE "routing",
                                     ![q].run = q, ![q].was = pending,
                                     ![q].pending = IF straight THEN pending ELSE Nobody,
                                     ![q].repeat = Repeats(q)]
     /\ UNCHANGED <<run, console_in, store, worker, employee, session>>

\* The router answers with a reply: a question about a capability it keeps
\* pending, a question about nothing yet or plain information, a refusal, or
\* an unknown capability.  Status, then result.
ChatReplies(q) ==
  LET r == request[q].run
  IN /\ request[q].pc = "routing"
     /\ \E status \in {"awaiting_customer", "done", "policy_blocked", "error"} :
          /\ run' = [run EXCEPT ![r].status = status]
          /\ IF status = "awaiting_customer" THEN Concludes(q, "asked", "none", r)
             ELSE request' = [request EXCEPT
                    ![q].pc = IF status = "error" THEN "responding" ELSE "noting",
                    ![q].answer = "replied"]
     /\ UNCHANGED <<RUNS, console_in, store, worker, employee, session>>

ChatNotes(q) ==
  /\ request[q].pc = "noting"
  /\ run' = [run EXCEPT ![request[q].run].result = "note"]
  /\ request' = [request EXCEPT ![q].pc = "responding"]
  /\ UNCHANGED <<RUNS, console_in, store, worker, employee, session>>

ChatRouted(q) ==
  /\ request[q].pc = "routing"
  /\ request' = [request EXCEPT ![q].pc = "validating"]
  /\ UNCHANGED <<run, RUNS, console_in, store, worker, employee, session>>

\* FAULT: the question is asked, and the run starts all the same.
ChatAsksAgain_Fault(q) ==
  LET r == request[q].run
  IN /\ request[q].pc = "validating"
     /\ run' = [run EXCEPT ![r].status = "awaiting_customer"]
     /\ request' = [request EXCEPT ![q].pc = "starting", ![q].pending = r]
     /\ UNCHANGED <<RUNS, console_in, store, worker, employee, session>>

\* An account the customer does not own: ask again, on the same run.
ChatAsksAgain(q) ==
  LET r == request[q].run
  IN /\ request[q].pc = "validating"
     /\ run' = [run EXCEPT ![r].status = "awaiting_customer"]
     /\ Concludes(q, "asked", "none", r)
     /\ UNCHANGED <<RUNS, console_in, store, worker, employee, session>>

\* FAULT: a blocked write answers and leaves its RunState as it was.
ChatBlocked_Fault(q) ==
  /\ request[q].pc = "validating"
  /\ Concludes(q, "refused", "none", Nobody)
  /\ UNCHANGED <<run, RUNS, console_in, store, worker, employee, session>>

ChatBlocked(q) ==
  /\ request[q].pc = "validating"
  /\ run' = [run EXCEPT ![request[q].run].status = "policy_blocked"]
  /\ request' = [request EXCEPT ![q].pc = "noting", ![q].answer = "refused",
                                ![q].pending = Nobody]
  /\ UNCHANGED <<RUNS, console_in, store, worker, employee, session>>

\* _bind_system_credentials raises: the reply is a 503, the RunState is left.
ChatUnbound(q) ==
  /\ request[q].pc = "validating"
  /\ ~HasCredentials
  /\ Concludes(q, "unbound", "none", Nobody)
  /\ UNCHANGED <<run, RUNS, console_in, store, worker, employee, session>>

ChatStarts(q) ==
  /\ request[q].pc = "validating"
  /\ request' = [request EXCEPT ![q].pc = "starting", ![q].pending = Nobody]
  /\ UNCHANGED <<run, RUNS, console_in, store, worker, employee, session>>

\* The response reaches the client, in any order and with the session cookie
\* when the handler touched it, or is lost and the client keeps the cookie it had.
ChatResponds(q) ==
  LET final == request[q].pending
      sent == final # request[q].was \/ request[q].answer = "asked"
  IN /\ request[q].pc = "responding"
     /\ request' = [request EXCEPT ![q].pc = "answered"]
     /\ \/ cookie' = [c \in Customers |-> IF c = Owner[q] /\ sent THEN final ELSE cookie[c]]
        \/ UNCHANGED cookie
     /\ UNCHANGED <<run, RUNS, console_in, store, worker, employee, takenOver>>

--------------------------------------------------------------------------------
(* start_replay: IdempotencyStore.get, then registration, put and worker    *)

Chats(q) == Owner[q] # Api

Found(q) == IDEMPOTENCY[Key[q]] # Nobody /\ Key[q] \notin aged

\* No item, or one past its time to live, which get deletes.
LookupMisses(q) ==
  /\ request[q].pc = "starting"
  /\ ~Found(q)
  /\ IDEMPOTENCY' = [IDEMPOTENCY EXCEPT ![Key[q]] = Nobody]
  /\ request' = [request EXCEPT ![q].pc = "missed"]
  /\ UNCHANGED <<run, RUNS, console_in, aged, worker, employee, session>>

\* The item is of another body: ValueError, 409.
LookupConflicts(q) ==
  /\ request[q].pc = "starting"
  /\ Found(q) /\ IDEMPOTENCY[Key[q]].body # Body[q]
  /\ run' = IF Chats(q) THEN [run EXCEPT ![request[q].run].status = "error"] ELSE run
  /\ request' = [request EXCEPT ![q].pc = IF Chats(q) THEN "responding" ELSE "answered",
                                ![q].answer = "refused"]
  /\ UNCHANGED <<RUNS, console_in, store, worker, employee, session>>

\* FAULT: the run found leaves the table, not the one it replaces.
LookupFinds_Fault(q) ==
  LET existing == IDEMPOTENCY[Key[q]].run
  IN /\ request[q].pc = "starting"
     /\ Found(q) /\ IDEMPOTENCY[Key[q]].body = Body[q]
     /\ RUNS' = RUNS \ {existing}
     /\ request' = [request EXCEPT ![q].run = existing, ![q].pc = "awaiting"]
     /\ UNCHANGED <<run, console_in, store, worker, employee, session>>

\* FAULT: a key is enough, what the item is of is not compared.
LookupFinds_AnyBodyFault(q) ==
  LET existing == IDEMPOTENCY[Key[q]].run
  IN /\ request[q].pc = "starting" /\ Found(q)
     /\ RUNS' = RUNS \ ({request[q].run} \ {existing})
     /\ request' = [request EXCEPT ![q].run = existing, ![q].pc = "awaiting"]
     /\ UNCHANGED <<run, console_in, store, worker, employee, session>>

\* The item's run is the answer; a chat's own RunState leaves the table.
LookupFinds(q) ==
  LET existing == IDEMPOTENCY[Key[q]].run
  IN /\ request[q].pc = "starting"
     /\ Found(q) /\ IDEMPOTENCY[Key[q]].body = Body[q]
     /\ RUNS' = RUNS \ ({request[q].run} \ {existing})
     /\ request' = [request EXCEPT ![q].run = existing,
                                   ![q].pc = IF Chats(q) THEN "awaiting" ELSE "answered",
                                   ![q].answer = IF Chats(q) THEN "none" ELSE "accepted"]
     /\ UNCHANGED <<run, console_in, store, worker, employee, session>>

\* FAULT: the new run is not stored under its key.
Launch_Fault(q) ==
  LET state == IF Chats(q) THEN request[q].run ELSE q
  IN /\ request[q].pc = "missed"
     /\ RUNS' = RUNS \cup {state}
     /\ run' = [run EXCEPT ![state] = Reset(@)]
     /\ worker' = [worker EXCEPT ![q].pc = "starting"]
     /\ request' = [request EXCEPT ![q].run = state,
                                   ![q].pc = IF Chats(q) THEN "awaiting" ELSE "answered",
                                   ![q].answer = IF Chats(q) THEN "none" ELSE "accepted"]
     /\ UNCHANGED <<console_in, store, employee, session>>

\* No item: reset or register the RunState, store it, start its worker.
Launch(q) ==
  LET state == IF Chats(q) THEN request[q].run ELSE q
  IN /\ request[q].pc = "missed"
     /\ RUNS' = IF Chats(q) THEN RUNS ELSE RUNS \cup {q}
     /\ run' = [run EXCEPT ![state] = IF Chats(q) THEN Reset(@) ELSE NewRunState]
     /\ IDEMPOTENCY' = [IDEMPOTENCY EXCEPT ![Key[q]] = [body |-> Body[q], run |-> state]]
     /\ aged' = aged \ {Key[q]}
     /\ worker' = [worker EXCEPT ![q].pc = "starting"]
     /\ request' = [request EXCEPT ![q].run = state,
                                   ![q].pc = IF Chats(q) THEN "awaiting" ELSE "answered",
                                   ![q].answer = IF Chats(q) THEN "none" ELSE "accepted"]
     /\ UNCHANGED <<console_in, employee, session>>

\* An hour passes: what was answered before no longer binds a later request.
ItemAges(k) ==
  /\ IDEMPOTENCY[k] # Nobody
  /\ aged' = aged \cup {k}
  /\ request' = [q \in Requests |->
                   [request[q] EXCEPT !.repeat = @ /\ Key[q] # k]]
  /\ UNCHANGED <<run, RUNS, console_in, IDEMPOTENCY, worker, employee, session>>

\* _await_result: polls until the run has settled, has left the table, or 90
\* seconds are over.
AwaitEnds(q) ==
  LET r == request[q].run
      final == request[q].pending
  IN /\ request[q].pc = "awaiting"
     /\ \/ r \notin RUNS /\ Concludes(q, "vanished", "none", final)
        \/ /\ r \in RUNS /\ run[r].status \in {"done", "error", "awaiting_human"}
           /\ Concludes(q, run[r].status, run[r].result, final)
        \/ Concludes(q, "timeout", "none", final)
     /\ UNCHANGED <<run, RUNS, console_in, store, worker, employee, session>>

--------------------------------------------------------------------------------
(* The worker thread of start_replay, with TrackedConsole.handle            *)

At(q, pc) == worker[q].pc = pc
Goes(q, pc) == worker' = [worker EXCEPT ![q].pc = pc]

\* RunLogger creates the run directory, outside the worker's try: an OSError
\* ends the thread with nothing recorded.
WorkerStarts(q) ==
  /\ At(q, "starting")
  /\ \/ Goes(q, "engine")
     \/ DiskFails /\ Goes(q, "lost")
  /\ UNCHANGED <<run, RUNS, console_in, store, request, employee, session>>

\* FAULT: the run does not say that it waits for a person.
Handoff_Fault(q) ==
  /\ At(q, "engine") /\ worker[q].asked < MaxHandoffs
  /\ worker' = [worker EXCEPT ![q].pc = "shown", ![q].asked = @ + 1]
  /\ UNCHANGED <<run, RUNS, console_in, store, request, employee, session>>

\* The engine raises an intervention: the status first, the record next.
Handoff(q) ==
  /\ At(q, "engine") /\ worker[q].asked < MaxHandoffs
  /\ worker' = [worker EXCEPT ![q].pc = "shown", ![q].asked = @ + 1]
  /\ run' = [run EXCEPT ![request[q].run].status = "awaiting_human"]
  /\ UNCHANGED <<RUNS, console_in, store, request, employee, session>>

ShowIntervention(q) ==
  /\ At(q, "shown") /\ Goes(q, "console")
  /\ run' = [run EXCEPT ![request[q].run].intervention = worker[q].asked]
  /\ UNCHANGED <<RUNS, console_in, store, request, employee, session>>

\* One turn of OperatorConsole.handle: readline takes the oldest command,
\* whenever it was pushed; with none it waits, however long.
ConsoleReads(q) ==
  LET r == request[q].run
  IN /\ At(q, "console") /\ console_in[r] # <<>>
     /\ console_in' = [console_in EXCEPT ![r] = Tail(@)]
     /\ IF Head(console_in[r]).word = "approve" THEN Goes(q, "leaving") ELSE UNCHANGED worker
     /\ UNCHANGED <<run, RUNS, store, request, employee, session>>

\* The finally clause of TrackedConsole.handle, in its order.
LeaveConsole(q) ==
  /\ At(q, "leaving") /\ Goes(q, "left")
  /\ run' = [run EXCEPT ![request[q].run].status = "running"]
  /\ UNCHANGED <<RUNS, console_in, store, request, employee, session>>

ClearIntervention(q) ==
  /\ At(q, "left") /\ Goes(q, "engine")
  /\ run' = [run EXCEPT ![request[q].run].intervention = 0]
  /\ UNCHANGED <<RUNS, console_in, store, request, employee, session>>

\* FAULT: an exception's handler forgets the status.
WorkerRecords_Fault(q) ==
  /\ At(q, "engine")
  /\ \/ /\ worker' = [worker EXCEPT ![q].pc = "recorded", ![q].outcome = "done"]
        /\ run' = [run EXCEPT ![request[q].run].result = Body[q]]
     \/ Goes(q, "recorded") /\ UNCHANGED run
  /\ UNCHANGED <<RUNS, console_in, store, request, employee, session>>

\* FAULT: the status is written before the result.
WorkerRecords_OrderFault(q) ==
  /\ At(q, "engine")
  /\ worker' = [worker EXCEPT ![q].pc = "recorded", ![q].outcome = "done"]
  /\ run' = [run EXCEPT ![request[q].run].status = "done"]
  /\ UNCHANGED <<RUNS, console_in, store, request, employee, session>>

\* engine.run returns, or anything in the worker's try raises.
WorkerRecords(q) ==
  /\ At(q, "engine")
  /\ \E outcome \in {"done", "error"} :
       /\ worker' = [worker EXCEPT ![q].pc = "recorded", ![q].outcome = outcome]
       /\ run' = IF outcome = "done"
                 THEN [run EXCEPT ![request[q].run].result = Body[q]]
                 ELSE run
  /\ UNCHANGED <<RUNS, console_in, store, request, employee, session>>

WorkerEnds(q) ==
  /\ At(q, "recorded") /\ Goes(q, "ended")
  /\ run' = [run EXCEPT ![request[q].run].status = worker[q].outcome]
  /\ UNCHANGED <<RUNS, console_in, store, request, employee, session>>

--------------------------------------------------------------------------------
(* Employees: the dashboard, then POST /api/runs/<id>/command               *)

EmployeeSees(e, r) ==
  /\ employee[e].pc = "idle"
  /\ r \in RUNS /\ run[r].status = "awaiting_human" /\ run[r].intervention > 0
  /\ Len(console_in[r]) < MaxUnread
  /\ employee' = [employee EXCEPT ![e] =
                    [pc |-> "deciding", run |-> r, seen |-> run[r].intervention]]
  /\ UNCHANGED <<run, RUNS, console_in, store, request, worker, session>>

\* api_run_command up to its status check: 404, 409, or on to the push.
EmployeePosts(e) ==
  LET r == employee[e].run
      waits == r \in RUNS /\ run[r].status = "awaiting_human"
  IN /\ employee[e].pc = "deciding"
     /\ employee' = [employee EXCEPT ![e].pc = IF waits THEN "pushing" ELSE "idle"]
     /\ UNCHANGED <<run, RUNS, console_in, store, request, worker, session>>

EmployeePushes(e, word) ==
  LET r == employee[e].run
  IN /\ employee[e].pc = "pushing"
     /\ console_in' = [console_in EXCEPT ![r] =
                         Append(@, [word |-> word, seen |-> employee[e].seen])]
     /\ employee' = [employee EXCEPT ![e].pc = "idle"]
     /\ UNCHANGED <<run, RUNS, store, request, worker, session>>

--------------------------------------------------------------------------------
Init ==
  /\ run = [r \in Requests |-> NewRunState]
  /\ RUNS = {}
  /\ console_in = [r \in Requests |-> <<>>]
  /\ IDEMPOTENCY = [k \in Keys |-> Nobody]
  /\ aged = {}
  /\ request = [q \in Requests |->
       [pc |-> "idle", run |-> Nobody, was |-> Nobody, pending |-> Nobody,
        answer |-> "none", got |-> "none", repeat |-> FALSE]]
  /\ worker = [q \in Requests |-> [pc |-> "none", asked |-> 0, outcome |-> "none"]]
  /\ employee = [e \in Employees |-> [pc |-> "idle", run |-> Nobody, seen |-> 0]]
  /\ cookie = [c \in Customers |-> Nobody]
  /\ takenOver = {}

Arrives(q) == InvokeArrives(q) \/ ChatResumes(q) \/ ChatSupersedes(q) \/ ChatOpens(q)

Serve(q) ==
  \/ ChatCancels(q) \/ ChatReplies(q) \/ ChatNotes(q) \/ ChatRouted(q) \/ ChatAsksAgain(q)
  \/ ChatBlocked(q) \/ ChatUnbound(q) \/ ChatStarts(q) \/ ChatResponds(q)
  \/ LookupMisses(q) \/ LookupConflicts(q) \/ LookupFinds(q) \/ Launch(q) \/ AwaitEnds(q)

Work(q) ==
  \/ WorkerStarts(q) \/ Handoff(q) \/ ShowIntervention(q) \/ ConsoleReads(q)
  \/ LeaveConsole(q) \/ ClearIntervention(q) \/ WorkerRecords(q) \/ WorkerEnds(q)

Next ==
  \/ \E q \in Requests : Arrives(q) \/ Serve(q) \/ Work(q)
  \/ \E k \in Keys : ItemAges(k)
  \/ \E e \in Employees :
       \/ EmployeePosts(e)
       \/ \E r \in Requests : EmployeeSees(e, r)
       \/ \E w \in Words : EmployeePushes(e, w)

Spec == Init /\ [][Next]_vars

(***************************************************************************)
(* Threads run on.  Of the employees it is assumed that somebody looks at a *)
(* run that keeps waiting, and that commands which keep being pushed to it  *)
(* include one that gives control back.                                     *)
(***************************************************************************)
StaffedSpec ==
  /\ Spec
  /\ \A q \in Requests : WF_vars(Serve(q)) /\ WF_vars(Work(q))
  /\ \A e \in Employees :
       /\ WF_vars(EmployeePosts(e))
       /\ WF_vars(\E w \in Words : EmployeePushes(e, w))
       /\ SF_vars(EmployeePushes(e, "approve"))
  /\ \A r \in Requests : SF_vars(\E e \in Employees : EmployeeSees(e, r))
--------------------------------------------------------------------------------
(* Properties *)

Live(q) == worker[q].pc \notin {"none", "lost", "ended"}

\* Whoever polls a run and reads "done" reads its outcome, never an empty one: a
\* worker writes them in this order (app.py:612-613).  The exceptions: a chat
\* request writes them in the other order (app.py:1468-1470, 1521-1523,
\* 1529-1531) and may be between the two, or a message took the run over.
BetweenWrites(r) ==
  \E q \in Requests : \/ request[q].pc = "superseding" /\ request[q].was = r
                      \/ request[q].pc = "noting" /\ request[q].run = r

DoneHasResult ==
  \A r \in RUNS \ takenOver :
    run[r].status = "done" => run[r].result # "none" \/ BetweenWrites(r)

\* Paths that are known to leave a run behind: the worker whose directory could
\* not be made, the chat request without credentials (see the README).
Abandoned(q) == At(q, "lost") \/ request[q].answer = "unbound"

\* README.md:175, "Every run ends in a meaningful operational state": apart from
\* those two paths a run in the table that says "running" has a thread at work on
\* it, unless a message took it over: then it may say "running" for ever although
\* its worker has ended (app.py:1480, with the repeated answer of app.py:574).
NoOrphans ==
  \A r \in RUNS \ takenOver : run[r].status = "running" =>
    \E q \in Requests : request[q].run = r /\ (Waiting(q) \/ Live(q) \/ Abandoned(q))

\* A request made after another one under its key was answered with a run, and
\* within the item's time to live, starts no second worker, whatever it asks for:
\* the same thing again gets the run there is, another thing is refused.
RetryStartsNothing == \A q \in Requests : request[q].repeat => At(q, "none")

\* The outcome a chat request answers with is of what that request asked for,
\* not of another request on the same RunState; the exception is a RunState that
\* a message took over (app.py:1465-1479), where it may be the other's.
AnswersOwnRequest ==
  \A q \in Requests :
    request[q].got \in Bodies => request[q].got = Body[q] \/ request[q].run \in takenOver

\* While a worker waits in the console its run can be found and says so, or the
\* command endpoint answers 404 or 409 to everybody who could help; the exception
\* is a run that a message took over from its worker.
HandoffIsReachable ==
  \A q \in Requests : At(q, "console") /\ request[q].run \notin takenOver =>
    /\ request[q].run \in RUNS
    /\ run[request[q].run].status = "awaiting_human"
    /\ run[request[q].run].intervention = worker[q].asked

\* Two workers on a RunState would share its command queue and overwrite each
\* other's status and result.  That takes a message which takes the run over from
\* a thread at work on it (two tabs, or a lost response: app.py:1465-1479); no
\* repeated key, late lookup or dropped clarification leads there.
OneWorker ==
  \A p, q \in Requests :
    Live(p) /\ Live(q) /\ request[p].run = request[q].run =>
      p = q \/ request[q].run \in takenOver

\* app.py:1506, "A new intent replaces any old unfinished clarification": a pending
\* chat request that a new message has superseded stays cancelled, unless another
\* message with the old cookie takes it over.
SupersededStays ==
  [][\A r \in Requests :
       run[r].result = "cancelled" /\ r \notin takenOver' => run'[r] = run[r]]_vars

\* Every worker comes to an end, if employees attend to the runs that wait.
AllEnd == \A q \in Requests : At(q, "starting") ~> At(q, "ended")

(***************************************************************************)
(* What the documents say and the code does not keep.                       *)
(***************************************************************************)

\* intervention.py:10-11: "while automation holds control, the console accepts
\* no commands"; so a handoff ends by a command meant for it.
CommandsAnswerTheirHandoff ==
  [][\A q \in Requests : At(q, "console") /\ At(q, "leaving")' =>
       Head(console_in[request[q].run]).seen = worker[q].asked]_vars
================================================================================
