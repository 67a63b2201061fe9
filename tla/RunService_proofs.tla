---------------------------- MODULE RunService_proofs --------------------------
(***************************************************************************)
(* The run service, for any requests, keys, employees and numbers of        *)
(* handoffs, whatever messages a customer sends and responses are lost:     *)
(* its types, that a repeated request starts nothing, and that the threads  *)
(* which share the RunStates keep out of each other's way wherever no       *)
(* message takes a run over.                                                *)
(*                                                                          *)
(* A thread handles a RunState from the message that opens or resumes it to *)
(* the worker it starts, and for ever after that.  As long as no message    *)
(* takes a RunState over, at most one thread handles it (Alone), and none   *)
(* while it waits for the customer or once it is cancelled (Quiet): a       *)
(* message that resumes or supersedes one which waits is its only thread.   *)
(* The other parts of InOrder say what the thread of a RunState has made of *)
(* it, and where the items and results of the service come from.            *)
(*                                                                          *)
(* A step changes one thread and writes or drops no RunState but one it     *)
(* handles alone: StepInOrder derives InOrder' from this and from what the  *)
(* step leaves of its own thread, once for all actions.  The forms before   *)
(* say what each action does to the one record it touches.                  *)
(***************************************************************************)
EXTENDS RunService, TLAPS

--------------------------------------------------------------------------------
(* What an action makes of the thread or the RunState it is about; all others *)
(* are left as they were.                                                     *)

Thread(q, pc, r, pending, answer, got) ==
  /\ request' \in [Requests -> RequestThreads]
  /\ \A p \in Requests \ {q} : request'[p] = request[p]
  /\ request'[q].pc = pc /\ request'[q].run = r /\ request'[q].pending = pending
  /\ request'[q].answer = answer /\ request'[q].got = got

Worker(q, pc, asked, outcome) ==
  /\ worker' \in [Requests -> WorkerThreads]
  /\ \A p \in Requests \ {q} : worker'[p] = worker[p]
  /\ worker'[q].pc = pc /\ worker'[q].asked = asked /\ worker'[q].outcome = outcome

State(r, status, intervention, result) ==
  /\ run' \in [Requests -> RunStates]
  /\ \A p \in Requests \ {r} : run'[p] = run[p]
  /\ run'[r].status = status /\ run'[r].intervention = intervention
  /\ run'[r].result = result

LEMMA ThreadForm ==
  ASSUME TypeOK, NEW q \in Requests, NEW t \in RequestThreads,
         request' = [request EXCEPT ![q] = t]
  PROVE  /\ request' \in [Requests -> RequestThreads]
         /\ request'[q] = t
         /\ \A p \in Requests \ {q} : request'[p] = request[p]
  BY DEF TypeOK

LEMMA StateForm ==
  ASSUME TypeOK, NEW r \in Requests, NEW s \in RunStates, run' = [run EXCEPT ![r] = s]
  PROVE  State(r, s.status, s.intervention, s.result)
  BY DEF TypeOK, State

LEMMA StatusForm ==
  ASSUME TypeOK, NEW r \in Requests, NEW status \in Statuses,
         run' = [run EXCEPT ![r].status = status]
  PROVE  State(r, status, run[r].intervention, run[r].result)
<1> DEFINE s == [run[r] EXCEPT !.status = status]
<1>1. run \in [Requests -> RunStates] /\ s \in RunStates
  BY DEF TypeOK, RunStates
<1>2. run' = [run EXCEPT ![r] = s]
  BY <1>1 DEF RunStates
<1>3. s.status = status /\ s.intervention = run[r].intervention /\ s.result = run[r].result
  BY <1>1 DEF RunStates
<1> HIDE DEF s
<1> QED BY <1>1, <1>2, <1>3, StateForm

LEMMA InterventionForm ==
  ASSUME TypeOK, NEW r \in Requests, NEW i \in 0 .. MaxHandoffs,
         run' = [run EXCEPT ![r].intervention = i]
  PROVE  State(r, run[r].status, i, run[r].result)
<1> DEFINE s == [run[r] EXCEPT !.intervention = i]
<1>1. run \in [Requests -> RunStates] /\ s \in RunStates
  BY DEF TypeOK, RunStates
<1>2. run' = [run EXCEPT ![r] = s]
  BY <1>1 DEF RunStates
<1>3. s.status = run[r].status /\ s.intervention = i /\ s.result = run[r].result
  BY <1>1 DEF RunStates
<1> HIDE DEF s
<1> QED BY <1>1, <1>2, <1>3, StateForm

LEMMA ResultForm ==
  ASSUME TypeOK, NEW r \in Requests, NEW result \in Results,
         run' = [run EXCEPT ![r].result = result]
  PROVE  State(r, run[r].status, run[r].intervention, result)
<1> DEFINE s == [run[r] EXCEPT !.result = result]
<1>1. run \in [Requests -> RunStates] /\ s \in RunStates
  BY DEF TypeOK, RunStates
<1>2. run' = [run EXCEPT ![r] = s]
  BY <1>1 DEF RunStates
<1>3. s.status = run[r].status /\ s.intervention = run[r].intervention /\ s.result = result
  BY <1>1 DEF RunStates
<1> HIDE DEF s
<1> QED BY <1>1, <1>2, <1>3, StateForm

LEMMA WorkerForm ==
  ASSUME TypeOK, NEW q \in Requests, NEW t \in WorkerThreads,
         worker' = [worker EXCEPT ![q] = t]
  PROVE  Worker(q, t.pc, t.asked, t.outcome)
  BY DEF TypeOK, Worker

LEMMA GoesForm ==
  ASSUME TypeOK, NEW q \in Requests, NEW pc, [worker[q] EXCEPT !.pc = pc] \in WorkerThreads,
         Goes(q, pc)
  PROVE  Worker(q, pc, worker[q].asked, worker[q].outcome)
<1> DEFINE t == [worker[q] EXCEPT !.pc = pc]
<1>1. worker \in [Requests -> WorkerThreads]
  BY DEF TypeOK
<1>2. worker' = [worker EXCEPT ![q] = t]
  BY <1>1 DEF Goes, WorkerThreads
<1>3. t.pc = pc /\ t.asked = worker[q].asked /\ t.outcome = worker[q].outcome
  BY <1>1 DEF WorkerThreads
<1> HIDE DEF t
<1> QED BY <1>2, <1>3, WorkerForm DEF t

Pcs == {"idle", "superseding", "routing", "validating", "starting", "missed", "awaiting",
        "noting", "responding", "answered"}

\* A request's turn after its arrival: what it found then stays.
Turn(q, pc, r, pending, answer, got) ==
  /\ Thread(q, pc, r, pending, answer, got)
  /\ request'[q].was = request[q].was /\ request'[q].repeat = request[q].repeat

LEMMA TurnForm ==
  ASSUME TypeOK, NEW q \in Requests, NEW pc \in Pcs, NEW r \in Someone, NEW pending \in Someone,
         NEW answer \in Answers, NEW got \in Results,
         request' = [request EXCEPT ![q] =
                      [request[q] EXCEPT !.pc = pc, !.run = r, !.pending = pending,
                                         !.answer = answer, !.got = got]]
  PROVE  Turn(q, pc, r, pending, answer, got)
<1> DEFINE t == [request[q] EXCEPT !.pc = pc, !.run = r, !.pending = pending,
                                   !.answer = answer, !.got = got]
<1>1. request[q] \in RequestThreads
  BY DEF TypeOK
<1>2. t \in RequestThreads
  BY <1>1 DEF RequestThreads, Pcs
<1>3. /\ t.pc = pc /\ t.run = r /\ t.pending = pending /\ t.answer = answer /\ t.got = got
      /\ t.was = request[q].was /\ t.repeat = request[q].repeat
  BY <1>1 DEF RequestThreads
<1>4. request' = [request EXCEPT ![q] = t]
  OBVIOUS
<1> HIDE DEF t
<1> QED BY <1>2, <1>3, <1>4, ThreadForm DEF Turn, Thread

\* The record a turn starts from.
LEMMA ThreadOf ==
  ASSUME TypeOK, NEW q \in Requests
  PROVE  /\ request \in [Requests -> RequestThreads] /\ request[q] \in RequestThreads
         /\ request[q].pc \in Pcs /\ request[q].run \in Someone /\ request[q].was \in Someone
         /\ request[q].pending \in Someone /\ request[q].answer \in Answers
         /\ request[q].got \in Results /\ request[q].repeat \in BOOLEAN
         /\ Nobody \in Someone /\ Nobody \notin Requests /\ Requests \subseteq Someone
         /\ q \in Someone
<1>1. request[q] \in RequestThreads
  BY DEF TypeOK
<1> QED BY <1>1, ServiceAssumptions DEF TypeOK, RequestThreads, Pcs, Someone, ServiceAssumptions

LEMMA PcTurn ==
  ASSUME TypeOK, NEW q \in Requests, NEW pc \in Pcs, request' = [request EXCEPT ![q].pc = pc]
  PROVE  Turn(q, pc, request[q].run, request[q].pending, request[q].answer, request[q].got)
<1>1. request' = [request EXCEPT ![q] =
                   [request[q] EXCEPT !.pc = pc, !.run = request[q].run,
                                      !.pending = request[q].pending,
                                      !.answer = request[q].answer, !.got = request[q].got]]
  BY ThreadOf DEF RequestThreads
<1> QED BY <1>1, ThreadOf, TurnForm

LEMMA AnswerTurn ==
  ASSUME TypeOK, NEW q \in Requests, NEW pc \in Pcs, NEW answer \in Answers,
         request' = [request EXCEPT ![q].pc = pc, ![q].answer = answer]
  PROVE  Turn(q, pc, request[q].run, request[q].pending, answer, request[q].got)
<1>1. request' = [request EXCEPT ![q] =
                   [request[q] EXCEPT !.pc = pc, !.run = request[q].run,
                                      !.pending = request[q].pending,
                                      !.answer = answer, !.got = request[q].got]]
  BY ThreadOf DEF RequestThreads
<1> QED BY <1>1, ThreadOf, TurnForm

LEMMA PendingTurn ==
  ASSUME TypeOK, NEW q \in Requests, NEW pc \in Pcs, NEW pending \in Someone,
         request' = [request EXCEPT ![q].pc = pc, ![q].pending = pending]
  PROVE  Turn(q, pc, request[q].run, pending, request[q].answer, request[q].got)
<1>1. request' = [request EXCEPT ![q] =
                   [request[q] EXCEPT !.pc = pc, !.run = request[q].run,
                                      !.pending = pending,
                                      !.answer = request[q].answer, !.got = request[q].got]]
  BY ThreadOf DEF RequestThreads
<1> QED BY <1>1, ThreadOf, TurnForm

LEMMA BlockedTurn ==
  ASSUME TypeOK, NEW q \in Requests, NEW pc \in Pcs, NEW answer \in Answers,
         NEW pending \in Someone,
         request' = [request EXCEPT ![q].pc = pc, ![q].answer = answer, ![q].pending = pending]
  PROVE  Turn(q, pc, request[q].run, pending, answer, request[q].got)
<1>1. request' = [request EXCEPT ![q] =
                   [request[q] EXCEPT !.pc = pc, !.run = request[q].run,
                                      !.pending = pending, !.answer = answer,
                                      !.got = request[q].got]]
  BY ThreadOf DEF RequestThreads
<1> QED BY <1>1, ThreadOf, TurnForm

LEMMA ConcludesTurn ==
  ASSUME TypeOK, NEW q \in Requests, NEW answer \in Answers, NEW got \in Results,
         NEW final \in Someone, Concludes(q, answer, got, final)
  PROVE  Turn(q, "responding", request[q].run, final, answer, got)
<1>1. request' = [request EXCEPT ![q] =
                   [request[q] EXCEPT !.pc = "responding", !.run = request[q].run,
                                      !.pending = final, !.answer = answer, !.got = got]]
  BY ThreadOf DEF RequestThreads, Concludes
<1> QED BY <1>1, ThreadOf, TurnForm DEF Pcs

LEMMA RunTurn ==
  ASSUME TypeOK, NEW q \in Requests, NEW pc \in Pcs, NEW r \in Requests,
         request' = [request EXCEPT ![q].pc = pc, ![q].run = r]
  PROVE  Turn(q, pc, r, request[q].pending, request[q].answer, request[q].got)
<1>1. request' = [request EXCEPT ![q] =
                   [request[q] EXCEPT !.pc = pc, !.run = r,
                                      !.pending = request[q].pending,
                                      !.answer = request[q].answer, !.got = request[q].got]]
  BY ThreadOf DEF RequestThreads
<1> QED BY <1>1, ThreadOf, TurnForm

LEMMA GetsTurn ==
  ASSUME TypeOK, NEW q \in Requests, NEW pc \in Pcs, NEW r \in Requests, NEW answer \in Answers,
         request' = [request EXCEPT ![q].run = r, ![q].pc = pc, ![q].answer = answer]
  PROVE  Turn(q, pc, r, request[q].pending, answer, request[q].got)
<1>1. request' = [request EXCEPT ![q] =
                   [request[q] EXCEPT !.pc = pc, !.run = r,
                                      !.pending = request[q].pending,
                                      !.answer = answer, !.got = request[q].got]]
  BY ThreadOf DEF RequestThreads
<1> QED BY <1>1, ThreadOf, TurnForm

\* A message arrives: what it finds in its session, and whether it is a repetition.
LEMMA ArrivalForm ==
  ASSUME TypeOK, NEW q \in Requests, NEW pc \in Pcs, NEW r \in Someone, NEW was \in Someone,
         NEW pending \in Someone, Repeats(q) \in BOOLEAN,
         request' = [request EXCEPT ![q].pc = pc, ![q].run = r, ![q].was = was,
                                    ![q].pending = pending, ![q].repeat = Repeats(q)]
  PROVE  /\ Thread(q, pc, r, pending, request[q].answer, request[q].got)
         /\ request'[q].was = was /\ request'[q].repeat = Repeats(q)
<1> DEFINE t == [request[q] EXCEPT !.pc = pc, !.run = r, !.was = was, !.pending = pending,
                                   !.repeat = Repeats(q)]
<1>1. t \in RequestThreads
  BY ThreadOf DEF RequestThreads, Pcs
<1>2. request' = [request EXCEPT ![q] = t]
  BY ThreadOf DEF RequestThreads
<1>3. /\ t.pc = pc /\ t.run = r /\ t.was = was /\ t.pending = pending /\ t.repeat = Repeats(q)
      /\ t.answer = request[q].answer /\ t.got = request[q].got
  BY ThreadOf DEF RequestThreads
<1> HIDE DEF t
<1> QED BY <1>1, <1>2, <1>3, ThreadForm DEF Thread

--------------------------------------------------------------------------------
(* Types.  A thread that works on a RunState has one.                       *)

Launched(q) == ~At(q, "none")
Holding == {"routing", "validating", "starting", "missed", "noting"}
Held(q) == Chats(q) /\ request[q].pc \in Holding

Placed ==
  /\ \A q \in Requests :
       /\ request[q].pc \in {"superseding", "routing", "validating", "noting", "responding",
                             "awaiting"} => Chats(q)
       /\ request[q].pc = "superseding" => request[q].was \in Requests
       /\ Held(q) \/ request[q].pc = "awaiting" => request[q].run \in Requests
       /\ Launched(q) => /\ request[q].pc \in {"awaiting", "responding", "answered"}
                         /\ request[q].run \in Requests
       /\ At(q, "recorded") => worker[q].outcome # "none"
  /\ \A e \in Employees :
       employee[e].pc # "idle" => employee[e].run \in Requests /\ employee[e].seen > 0

Typed == TypeOK /\ Placed

LEMMA InitTyped == Init => Typed
  BY ServiceAssumptions
  DEF ServiceAssumptions, Init, Typed, TypeOK, Placed, RunStates, NewRunState, Statuses,
      Results, RequestThreads, WorkerThreads, EmployeeThreads, Someone, Answers, Launched,
      At, Held, Holding

LEMMA RunsOf ==
  ASSUME Typed, NEW r \in Requests
  PROVE  /\ run \in [Requests -> RunStates] /\ run[r] \in RunStates
         /\ run[r].status \in Statuses /\ run[r].result \in Results
         /\ run[r].intervention \in 0 .. MaxHandoffs
         /\ RUNS \subseteq Requests /\ takenOver \subseteq Requests
<1>1. run[r] \in RunStates
  BY DEF Typed, TypeOK
<1> QED BY <1>1 DEF Typed, TypeOK, RunStates

\* The session of a chat request.
LEMMA CookieOf ==
  ASSUME Typed, NEW q \in Requests, Chats(q)
  PROVE  /\ Owner[q] \in Customers /\ cookie[Owner[q]] \in Someone
         /\ cookie \in [Customers -> Someone]
         /\ Pending(q) \subseteq {cookie[Owner[q]]} \cap RUNS
         /\ Repeats(q) \in BOOLEAN
  BY DEF Typed, TypeOK, Chats, Customers, Pending, Repeats

LEMMA InvokeForm ==
  ASSUME Typed, NEW q \in Requests, InvokeArrives(q)
  PROVE  /\ ~Chats(q) /\ request[q].pc = "idle"
         /\ \E pc \in {"starting", "answered"}, answer \in {request[q].answer, "refused"} :
              Thread(q, pc, request[q].run, request[q].pending, answer, request[q].got)
         /\ request'[q].was = request[q].was
         /\ request'[q].repeat => request[q].repeat \/ Repeats(q)
         /\ UNCHANGED <<run, RUNS, console_in, IDEMPOTENCY, aged, worker, employee, cookie,
                        takenOver>>
<1> DEFINE t == [request[q] EXCEPT !.pc = "starting", !.repeat = Repeats(q)]
<1>1. ~Chats(q) /\ request[q].pc = "idle" /\ TypeOK /\ Repeats(q) \in BOOLEAN
      /\ UNCHANGED <<run, RUNS, console_in, IDEMPOTENCY, aged, worker, employee, cookie,
                     takenOver>>
  BY DEF InvokeArrives, Chats, Typed, Repeats, store, session
<1>2. CASE request' = [request EXCEPT ![q].pc = "answered", ![q].answer = "refused"]
  <2>1. Turn(q, "answered", request[q].run, request[q].pending, "refused", request[q].got)
    <3>1. "answered" \in Pcs /\ "refused" \in Answers
      BY DEF Pcs, Answers
    <3> QED BY <1>1, <1>2, <3>1, AnswerTurn, Zenon
  <2> QED BY <1>1, <2>1 DEF Turn
<1>3. CASE request' = [request EXCEPT ![q].pc = "starting", ![q].repeat = Repeats(q)]
  <2>1. t \in RequestThreads
    BY <1>1, ThreadOf DEF RequestThreads
  <2>2. request' = [request EXCEPT ![q] = t]
    BY <1>1, <1>3, ThreadOf DEF RequestThreads
  <2>3. /\ t.pc = "starting" /\ t.run = request[q].run /\ t.was = request[q].was
        /\ t.pending = request[q].pending /\ t.answer = request[q].answer
        /\ t.got = request[q].got /\ t.repeat = Repeats(q)
    BY <1>1, ThreadOf DEF RequestThreads
  <2> HIDE DEF t
  <2>4. /\ Thread(q, "starting", request[q].run, request[q].pending, request[q].answer,
                  request[q].got)
        /\ request'[q].was = request[q].was /\ request'[q].repeat = Repeats(q)
    BY <1>1, <2>1, <2>2, <2>3, ThreadForm DEF Thread
  <2> QED BY <1>1, <2>4
<1> QED BY <1>2, <1>3 DEF InvokeArrives

\* A message that takes the pending RunState r, to resume or to supersede it.
Takes(q, r) ==
  /\ Chats(q) /\ request[q].pc = "idle"
  /\ r \in RUNS /\ r \in Requests /\ Owner[q] \in Customers /\ r = cookie[Owner[q]]
  /\ takenOver \subseteq takenOver' /\ takenOver' \subseteq takenOver \cup {r}
  /\ r \notin takenOver' => run[r].status = "awaiting_customer"
  /\ request'[q].was = r /\ request'[q].repeat = Repeats(q)
  /\ UNCHANGED <<RUNS, console_in, IDEMPOTENCY, aged, worker, employee, cookie>>

Resumes(q, r, pc, pending) ==
  /\ Takes(q, r)
  /\ State(r, "running", run[r].intervention, "none")
  /\ Thread(q, pc, r, pending, request[q].answer, request[q].got)

Supersedes(q, r) ==
  /\ Takes(q, r)
  /\ State(r, "done", run[r].intervention, run[r].result)
  /\ Thread(q, "superseding", request[q].run, request[q].pending, request[q].answer,
            request[q].got)

LEMMA TakesForm ==
  ASSUME Typed, NEW q \in Requests, ChatArrives(q), NEW r \in Pending(q), TakesOver(q),
         request'[q].was = r, request'[q].repeat = Repeats(q),
         UNCHANGED <<RUNS, console_in, store, worker, employee, cookie>>
  PROVE  Takes(q, r) /\ r \in Requests
<1>1. Chats(q) /\ request[q].pc = "idle"
  BY DEF ChatArrives, Chats
<1>2. r = cookie[Owner[q]] /\ r \in RUNS /\ Owner[q] \in Customers
  BY <1>1, CookieOf
<1>3. r \in Requests
  BY <1>2 DEF Typed, TypeOK
<1>4. takenOver' = takenOver \cup {s \in Pending(q) : run[s].status # "awaiting_customer"}
      /\ Pending(q) \subseteq {r} /\ r \in Pending(q)
  BY <1>1, <1>2, CookieOf DEF TakesOver
<1>5. /\ takenOver \subseteq takenOver' /\ takenOver' \subseteq takenOver \cup {r}
      /\ r \notin takenOver' => run[r].status = "awaiting_customer"
  BY <1>4
<1> QED BY <1>1, <1>2, <1>3, <1>5 DEF Takes, store

LEMMA ResumesForm ==
  ASSUME Typed, NEW q \in Requests, ChatResumes(q)
  PROVE  \E r \in Requests, pc \in {"routing", "validating"}, pending \in Someone :
           Resumes(q, r, pc, pending) /\ pending \in {r, Nobody}
<1>1. PICK r \in Pending(q), straight \in BOOLEAN :
        /\ run' = [run EXCEPT ![r] = Reset(@)]
        /\ request' = [request EXCEPT ![q].pc = IF straight THEN "validating" ELSE "routing",
                                      ![q].run = r, ![q].was = r,
                                      ![q].pending = IF straight THEN r ELSE Nobody,
                                      ![q].repeat = Repeats(q)]
  BY DEF ChatResumes
<1>2. ChatArrives(q) /\ TakesOver(q) /\ Chats(q)
      /\ UNCHANGED <<RUNS, console_in, store, worker, employee, cookie>>
  BY DEF ChatResumes, ChatArrives, Chats
<1>3. r \in Requests /\ Repeats(q) \in BOOLEAN /\ TypeOK
  BY <1>2, CookieOf DEF Typed, TypeOK
<1>4. PICK pc \in {"routing", "validating"}, pending \in {r, Nobody} :
        request' = [request EXCEPT ![q].pc = pc, ![q].run = r, ![q].was = r,
                                   ![q].pending = pending, ![q].repeat = Repeats(q)]
  BY <1>1
<1>5. pc \in Pcs /\ pending \in Someone /\ r \in Someone
  BY <1>3 DEF Pcs, Someone
<1>6. /\ Thread(q, pc, r, pending, request[q].answer, request[q].got)
      /\ request'[q].was = r /\ request'[q].repeat = Repeats(q)
  BY <1>3, <1>4, <1>5, ArrivalForm
<1>7. Takes(q, r)
  BY <1>2, <1>6, TakesForm
<1>8. State(r, "running", run[r].intervention, "none")
  <2> DEFINE s == Reset(run[r])
  <2>1. s \in RunStates /\ s.status = "running" /\ s.result = "none"
        /\ s.intervention = run[r].intervention
    BY <1>3, RunsOf DEF Reset, RunStates, Statuses, Results
  <2>2. run' = [run EXCEPT ![r] = s]
    BY <1>1
  <2> HIDE DEF s
  <2> QED BY <1>3, <2>1, <2>2, StateForm
<1> QED BY <1>3, <1>4, <1>5, <1>6, <1>7, <1>8 DEF Resumes

LEMMA SupersedesForm ==
  ASSUME Typed, NEW q \in Requests, ChatSupersedes(q)
  PROVE  \E r \in Requests : Supersedes(q, r)
<1>1. PICK r \in Pending(q) :
        /\ run' = [run EXCEPT ![r].status = "done"]
        /\ request' = [request EXCEPT ![q].pc = "superseding", ![q].was = r,
                                      ![q].repeat = Repeats(q)]
  BY DEF ChatSupersedes
<1>2. ChatArrives(q) /\ TakesOver(q) /\ Chats(q)
      /\ UNCHANGED <<RUNS, console_in, store, worker, employee, cookie>>
  BY DEF ChatSupersedes, ChatArrives, Chats
<1>3. r \in Requests /\ Repeats(q) \in BOOLEAN /\ TypeOK /\ r \in Someone
  BY <1>2, CookieOf DEF Typed, TypeOK, Someone
<1>4. request' = [request EXCEPT ![q].pc = "superseding", ![q].run = request[q].run,
                                 ![q].was = r, ![q].pending = request[q].pending,
                                 ![q].repeat = Repeats(q)]
  BY <1>1, <1>3, ThreadOf DEF RequestThreads
<1>5. /\ Thread(q, "superseding", request[q].run, request[q].pending, request[q].answer,
                request[q].got)
      /\ request'[q].was = r /\ request'[q].repeat = Repeats(q)
  <2>1. "superseding" \in Pcs /\ request[q].run \in Someone /\ request[q].pending \in Someone
    BY <1>3, ThreadOf DEF Pcs
  <2> QED BY <1>3, <1>4, <2>1, ArrivalForm
<1>6. Takes(q, r)
  BY <1>2, <1>5, TakesForm
<1>7. State(r, "done", run[r].intervention, run[r].result)
  BY <1>1, <1>3, StatusForm DEF Statuses
<1> QED BY <1>3, <1>5, <1>6, <1>7 DEF Supersedes

\* The message registers a RunState of its own.
Opens(q, pc, was, pending) ==
  /\ Chats(q) /\ request[q].pc \in {"idle", "superseding"}
  /\ RUNS' = RUNS \cup {q}
  /\ Thread(q, pc, q, pending, request[q].answer, request[q].got)
  /\ request'[q].was = was
  /\ UNCHANGED <<console_in, IDEMPOTENCY, aged, worker, employee, cookie, takenOver>>

LEMMA OpensForm ==
  ASSUME Typed, NEW q \in Requests, ChatOpens(q)
  PROVE  /\ \E pc \in {"routing", "validating"}, pending \in Someone :
              /\ Opens(q, pc, cookie[Owner[q]], pending)
              /\ pending \in {cookie[Owner[q]], Nobody}
         /\ Chats(q) /\ Owner[q] \in Customers /\ cookie[Owner[q]] \in Someone
         /\ request[q].pc = "idle" /\ request'[q].repeat = Repeats(q) /\ run' = run
<1> DEFINE old == cookie[Owner[q]]
<1>1. PICK straight \in {FALSE, old # Nobody} :
        request' = [request EXCEPT ![q].pc = IF straight THEN "validating" ELSE "routing",
                                   ![q].run = q, ![q].was = old,
                                   ![q].pending = IF straight THEN old ELSE Nobody,
                                   ![q].repeat = Repeats(q)]
  BY DEF ChatOpens
<1>2. Chats(q) /\ request[q].pc = "idle" /\ RUNS' = RUNS \cup {q} /\ run' = run
      /\ UNCHANGED <<console_in, IDEMPOTENCY, aged, worker, employee, cookie, takenOver>>
  BY DEF ChatOpens, ChatArrives, Chats, store, session
<1>3. TypeOK /\ old \in Someone /\ Owner[q] \in Customers /\ Repeats(q) \in BOOLEAN
      /\ q \in Someone
  BY <1>2, CookieOf, ThreadOf DEF Typed
<1>4. PICK pc \in {"routing", "validating"}, pending \in {old, Nobody} :
        request' = [request EXCEPT ![q].pc = pc, ![q].run = q, ![q].was = old,
                                   ![q].pending = pending, ![q].repeat = Repeats(q)]
  BY <1>1
<1>5. pc \in Pcs /\ pending \in Someone
  BY <1>3, ThreadOf DEF Pcs
<1>6. /\ Thread(q, pc, q, pending, request[q].answer, request[q].got)
      /\ request'[q].was = old /\ request'[q].repeat = Repeats(q)
  BY <1>3, <1>4, <1>5, ArrivalForm
<1>7. Opens(q, pc, old, pending)
  BY <1>2, <1>6 DEF Opens
<1> QED BY <1>2, <1>3, <1>4, <1>5, <1>6, <1>7

LEMMA CancelsForm ==
  ASSUME Typed, NEW q \in Requests, ChatCancels(q)
  PROVE  LET r == request[q].was IN
         /\ Opens(q, "routing", r, request[q].pending)
         /\ request[q].pc = "superseding" /\ request'[q].repeat = request[q].repeat
         /\ r \in Requests /\ State(r, run[r].status, run[r].intervention, "cancelled")
<1> DEFINE r == request[q].was
<1>1. /\ request[q].pc = "superseding" /\ RUNS' = RUNS \cup {q}
      /\ run' = [run EXCEPT ![r].result = "cancelled"]
      /\ request' = [request EXCEPT ![q].pc = "routing", ![q].run = q]
      /\ UNCHANGED <<console_in, IDEMPOTENCY, aged, worker, employee, cookie, takenOver>>
  BY DEF ChatCancels, store, session
<1>2. Chats(q) /\ r \in Requests /\ TypeOK
  BY <1>1 DEF Typed, Placed
<1>3. Turn(q, "routing", q, request[q].pending, request[q].answer, request[q].got)
  BY <1>1, <1>2, RunTurn DEF Pcs
<1>4. State(r, run[r].status, run[r].intervention, "cancelled")
  BY <1>1, <1>2, ResultForm DEF Results
<1> QED BY <1>1, <1>2, <1>3, <1>4 DEF Opens, Turn

\* A chat request that has its answer and writes what it says into its RunState:
\* the status, with or without a result to come.
Replies(q, pc, status, answer, final, got) ==
  LET r == request[q].run IN
  /\ Held(q) /\ r \in Requests
  /\ State(r, status, run[r].intervention, run[r].result)
  /\ status \in {"awaiting_customer", "policy_blocked", "done", "error"}
  /\ pc \in {"noting", "responding"} /\ (status = "done" => pc = "noting")
  /\ (status = "awaiting_customer" => pc = "responding")
  /\ answer \in {"asked", "replied", "refused"}
  /\ final \in {r, request[q].pending, Nobody}
  /\ got \in {"none", request[q].got}
  /\ Turn(q, pc, r, final, answer, got)
  /\ UNCHANGED <<RUNS, console_in, IDEMPOTENCY, aged, worker, employee, cookie, takenOver>>

Answering(q) ==
  ChatReplies(q) \/ ChatAsksAgain(q) \/ ChatBlocked(q) \/ (Chats(q) /\ LookupConflicts(q))

LEMMA RepliesForm ==
  ASSUME Typed, NEW q \in Requests, Answering(q)
  PROVE  \E pc, status, answer, final, got : Replies(q, pc, status, answer, final, got)
<1> DEFINE r == request[q].run
<1>1. Held(q) /\ r \in Requests /\ TypeOK /\ r \in Someone /\ request[q].pending \in Someone
      /\ Nobody \in Someone
  <2>1. Held(q)
    BY DEF Answering, ChatReplies, ChatAsksAgain, ChatBlocked, LookupConflicts, Held, Holding,
           Typed, Placed
  <2> QED BY <2>1, ThreadOf DEF Typed, Placed
<1>2. UNCHANGED <<RUNS, console_in, IDEMPOTENCY, aged, worker, employee, cookie, takenOver>>
  BY DEF Answering, ChatReplies, ChatAsksAgain, ChatBlocked, LookupConflicts, store, session
<1>3. /\ {"noting", "responding"} \subseteq Pcs /\ {"asked", "replied", "refused"} \subseteq Answers
      /\ {"awaiting_customer", "policy_blocked", "done", "error"} \subseteq Statuses
      /\ "none" \in Results
  BY DEF Pcs, Answers, Statuses, Results
<1>4. ASSUME NEW status \in {"awaiting_customer", "policy_blocked", "done", "error"},
             run' = [run EXCEPT ![r].status = status]
      PROVE  State(r, status, run[r].intervention, run[r].result)
  BY <1>1, <1>3, <1>4, StatusForm
<1>5. CASE ChatReplies(q)
  <2>1. PICK status \in {"awaiting_customer", "done", "policy_blocked", "error"} :
          /\ run' = [run EXCEPT ![r].status = status]
          /\ IF status = "awaiting_customer" THEN Concludes(q, "asked", "none", r)
             ELSE request' = [request EXCEPT
                    ![q].pc = IF status = "error" THEN "responding" ELSE "noting",
                    ![q].answer = "replied"]
    BY <1>5 DEF ChatReplies
  <2>2. CASE status = "awaiting_customer"
    <3>1. Turn(q, "responding", r, r, "asked", "none")
      BY <1>1, <1>3, <2>1, <2>2, ConcludesTurn
    <3> QED BY <1>1, <1>2, <1>4, <2>1, <2>2, <3>1 DEF Replies
  <2>3. CASE status # "awaiting_customer"
    <3>1. PICK pc \in {"noting", "responding"} :
            /\ request' = [request EXCEPT ![q].pc = pc, ![q].answer = "replied"]
            /\ status = "done" => pc = "noting"
      BY <2>1, <2>3
    <3>2. Turn(q, pc, r, request[q].pending, "replied", request[q].got)
      BY <1>1, <1>3, <3>1, AnswerTurn
    <3> QED BY <1>1, <1>2, <1>4, <2>1, <2>3, <3>1, <3>2 DEF Replies
  <2> QED BY <2>2, <2>3
<1>6. CASE ChatAsksAgain(q)
  <2>1. Turn(q, "responding", r, r, "asked", "none")
    BY <1>1, <1>3, <1>6, ConcludesTurn DEF ChatAsksAgain
  <2>2. State(r, "awaiting_customer", run[r].intervention, run[r].result)
    BY <1>4, <1>6 DEF ChatAsksAgain
  <2> QED BY <1>1, <1>2, <2>1, <2>2 DEF Replies
<1>7. CASE ChatBlocked(q)
  <2>1. Turn(q, "noting", r, Nobody, "refused", request[q].got)
    BY <1>1, <1>3, <1>7, BlockedTurn DEF ChatBlocked
  <2>2. State(r, "policy_blocked", run[r].intervention, run[r].result)
    BY <1>4, <1>7 DEF ChatBlocked
  <2> QED BY <1>1, <1>2, <2>1, <2>2 DEF Replies
<1>8. CASE Chats(q) /\ LookupConflicts(q)
  <2>1. Turn(q, "responding", r, request[q].pending, "refused", request[q].got)
    BY <1>1, <1>3, <1>8, AnswerTurn DEF LookupConflicts
  <2>2. State(r, "error", run[r].intervention, run[r].result)
    BY <1>4, <1>8 DEF LookupConflicts
  <2> QED BY <1>1, <1>2, <2>1, <2>2 DEF Replies
<1> QED BY <1>5, <1>6, <1>7, <1>8 DEF Answering

LEMMA NotesForm ==
  ASSUME Typed, NEW q \in Requests, ChatNotes(q)
  PROVE  LET r == request[q].run IN
         /\ request[q].pc = "noting" /\ Held(q) /\ r \in Requests
         /\ State(r, run[r].status, run[r].intervention, "note")
         /\ Turn(q, "responding", r, request[q].pending, request[q].answer, request[q].got)
         /\ UNCHANGED <<RUNS, console_in, IDEMPOTENCY, aged, worker, employee, cookie, takenOver>>
<1> DEFINE r == request[q].run
<1>1. request[q].pc = "noting" /\ Held(q) /\ r \in Requests /\ TypeOK
  BY DEF ChatNotes, Typed, Placed, Held, Holding
<1>2. Turn(q, "responding", r, request[q].pending, request[q].answer, request[q].got)
  BY <1>1, PcTurn DEF ChatNotes, Pcs
<1>3. State(r, run[r].status, run[r].intervention, "note")
  BY <1>1, ResultForm DEF ChatNotes, Results
<1> QED BY <1>1, <1>2, <1>3 DEF ChatNotes, store, session

\* The request without credentials, the one whose response is sent, and the API
\* request whose key was used for something else: no RunState changes.
LEMMA UnboundForm ==
  ASSUME Typed, NEW q \in Requests, ChatUnbound(q)
  PROVE  /\ request[q].pc = "validating" /\ Held(q) /\ request[q].run \in Requests
         /\ Turn(q, "responding", request[q].run, Nobody, "unbound", "none")
         /\ UNCHANGED <<run, RUNS, console_in, IDEMPOTENCY, aged, worker, employee, cookie,
                        takenOver>>
<1>1. request[q].pc = "validating" /\ Held(q) /\ request[q].run \in Requests /\ TypeOK
  BY DEF ChatUnbound, Typed, Placed, Held, Holding
<1>2. Turn(q, "responding", request[q].run, Nobody, "unbound", "none")
  BY <1>1, ThreadOf, ConcludesTurn DEF ChatUnbound, Answers, Results
<1> QED BY <1>1, <1>2 DEF ChatUnbound, store, session

LEMMA RespondsForm ==
  ASSUME Typed, NEW q \in Requests, ChatResponds(q)
  PROVE  /\ request[q].pc = "responding" /\ Chats(q)
         /\ Turn(q, "answered", request[q].run, request[q].pending, request[q].answer,
                 request[q].got)
         /\ cookie' \in [Customers -> Someone]
         /\ \A c \in Customers : cookie'[c] \in {cookie[c], request[q].pending}
         /\ UNCHANGED <<run, RUNS, console_in, IDEMPOTENCY, aged, worker, employee, takenOver>>
<1>1. request[q].pc = "responding" /\ Chats(q) /\ TypeOK /\ request[q].pending \in Someone
      /\ cookie \in [Customers -> Someone]
  BY ThreadOf DEF ChatResponds, Typed, Placed, TypeOK
<1>2. Turn(q, "answered", request[q].run, request[q].pending, request[q].answer,
           request[q].got)
  BY <1>1, PcTurn DEF ChatResponds, Pcs
<1>3. cookie' \in [Customers -> Someone]
      /\ \A c \in Customers : cookie'[c] \in {cookie[c], request[q].pending}
  BY <1>1 DEF ChatResponds
<1> QED BY <1>1, <1>2, <1>3 DEF ChatResponds, store

LEMMA ConflictForm ==
  ASSUME Typed, NEW q \in Requests, LookupConflicts(q), ~Chats(q)
  PROVE  /\ request[q].pc = "starting"
         /\ Turn(q, "answered", request[q].run, request[q].pending, "refused", request[q].got)
         /\ UNCHANGED <<run, RUNS, console_in, IDEMPOTENCY, aged, worker, employee, cookie,
                        takenOver>>
<1>1. TypeOK /\ "answered" \in Pcs /\ "refused" \in Answers
  BY DEF Typed, Pcs, Answers
<1>2. Turn(q, "answered", request[q].run, request[q].pending, "refused", request[q].got)
  BY <1>1, AnswerTurn DEF LookupConflicts
<1> QED BY <1>2 DEF LookupConflicts, store, session

\* A request that goes on, still without a worker.
GoesOn(q) == ChatRouted(q) \/ ChatStarts(q) \/ LookupMisses(q)

Proceeds(q, pc, pending) ==
  /\ request[q].pc \in Holding /\ pc \in {"validating", "starting", "missed"}
  /\ pending \in {request[q].pending, Nobody}
  /\ Turn(q, pc, request[q].run, pending, request[q].answer, request[q].got)
  /\ request[q].pc \in {"routing", "validating", "starting"}
  /\ pc # "missed" => Chats(q) /\ UNCHANGED IDEMPOTENCY
  /\ pc = "missed" =>
       /\ request[q].pc = "starting"
       /\ IDEMPOTENCY' = [IDEMPOTENCY EXCEPT ![Key[q]] = Nobody]
       /\ IDEMPOTENCY[Key[q]] = Nobody \/ Key[q] \in aged
  /\ UNCHANGED <<run, RUNS, console_in, aged, worker, employee, cookie, takenOver>>

LEMMA GoesOnForm ==
  ASSUME Typed, NEW q \in Requests, GoesOn(q)
  PROVE  \E pc, pending : Proceeds(q, pc, pending)
<1>1. TypeOK /\ {"validating", "starting", "missed"} \subseteq Pcs /\ Nobody \in Someone
  BY ThreadOf DEF Typed, Pcs
<1>2. UNCHANGED <<run, RUNS, console_in, aged, worker, employee, cookie, takenOver>>
  BY DEF GoesOn, ChatRouted, ChatStarts, LookupMisses, store, session
<1>3. CASE ChatRouted(q)
  <2>1. Turn(q, "validating", request[q].run, request[q].pending, request[q].answer,
             request[q].got)
    BY <1>1, <1>3, PcTurn DEF ChatRouted
  <2>2. request[q].pc = "routing" /\ request[q].pc \in Holding /\ Chats(q)
        /\ UNCHANGED IDEMPOTENCY
    BY <1>3 DEF ChatRouted, Holding, Typed, Placed, store
  <2> QED BY <1>2, <2>1, <2>2 DEF Proceeds
<1>4. CASE ChatStarts(q)
  <2>1. Turn(q, "starting", request[q].run, Nobody, request[q].answer, request[q].got)
    BY <1>1, <1>4, PendingTurn DEF ChatStarts
  <2>2. request[q].pc = "validating" /\ request[q].pc \in Holding /\ Chats(q)
        /\ UNCHANGED IDEMPOTENCY
    BY <1>4 DEF ChatStarts, Holding, Typed, Placed, store
  <2> QED BY <1>2, <2>1, <2>2 DEF Proceeds
<1>5. CASE LookupMisses(q)
  <2>1. Turn(q, "missed", request[q].run, request[q].pending, request[q].answer,
             request[q].got)
    BY <1>1, <1>5, PcTurn DEF LookupMisses
  <2>2. /\ request[q].pc \in Holding /\ request[q].pc = "starting"
        /\ IDEMPOTENCY' = [IDEMPOTENCY EXCEPT ![Key[q]] = Nobody]
        /\ IDEMPOTENCY[Key[q]] = Nobody \/ Key[q] \in aged
    BY <1>5 DEF LookupMisses, Found, Holding
  <2> QED BY <1>2, <2>1, <2>2 DEF Proceeds
<1> QED BY <1>3, <1>4, <1>5 DEF GoesOn

\* The request that finds a run under its key, or makes one.
Gets(q, r) ==
  Turn(q, IF Chats(q) THEN "awaiting" ELSE "answered", r, request[q].pending,
       IF Chats(q) THEN "none" ELSE "accepted", request[q].got)

LEMMA GetsForm ==
  ASSUME Typed, NEW q \in Requests, NEW r \in Requests,
         request' = [request EXCEPT ![q].run = r,
                                    ![q].pc = IF Chats(q) THEN "awaiting" ELSE "answered",
                                    ![q].answer = IF Chats(q) THEN "none" ELSE "accepted"]
  PROVE  Gets(q, r)
<1>1. TypeOK /\ {"awaiting", "answered"} \subseteq Pcs /\ {"none", "accepted"} \subseteq Answers
  BY DEF Typed, Pcs, Answers
<1>2. CASE Chats(q)
  BY <1>1, <1>2, GetsTurn DEF Gets
<1>3. CASE ~Chats(q)
  BY <1>1, <1>3, GetsTurn DEF Gets
<1> QED BY <1>2, <1>3

LEMMA FindsForm ==
  ASSUME Typed, NEW q \in Requests, LookupFinds(q)
  PROVE  LET item == IDEMPOTENCY[Key[q]] IN
         /\ request[q].pc = "starting" /\ Key[q] \in Keys /\ Key[q] \notin aged
         /\ item \in Items /\ item # Nobody /\ item.body = Body[q] /\ item.run \in Requests
         /\ RUNS' = RUNS \ ({request[q].run} \ {item.run})
         /\ Gets(q, item.run)
         /\ UNCHANGED <<run, console_in, IDEMPOTENCY, aged, worker, employee, cookie, takenOver>>
<1> DEFINE item == IDEMPOTENCY[Key[q]]
<1>1. Key[q] \in Keys
  BY DEF Keys
<1>2. item \in Items
  BY <1>1 DEF LookupFinds, Found, Typed, TypeOK
<1>3. item.run \in Requests
  BY <1>2 DEF Items
<1>4. Gets(q, item.run)
  BY <1>3, GetsForm DEF LookupFinds
<1> HIDE DEF item
<1> QED BY <1>1, <1>2, <1>3, <1>4 DEF LookupFinds, Found, item, store, session

Begins(q, r, intervention) ==
  /\ request[q].pc = "missed" /\ Key[q] \in Keys /\ r \in Requests
  /\ r = IF Chats(q) THEN request[q].run ELSE q
  /\ RUNS' = IF Chats(q) THEN RUNS ELSE RUNS \cup {q}
  /\ State(r, "running", intervention, "none")
  /\ [body |-> Body[q], run |-> r] \in Items
  /\ IDEMPOTENCY' = [IDEMPOTENCY EXCEPT ![Key[q]] = [body |-> Body[q], run |-> r]]
  /\ aged' = aged \ {Key[q]}
  /\ Worker(q, "starting", worker[q].asked, worker[q].outcome)
  /\ Gets(q, r)
  /\ UNCHANGED <<console_in, employee, cookie, takenOver>>

LEMMA LaunchForm ==
  ASSUME Typed, NEW q \in Requests, Launch(q)
  PROVE  \E r, intervention : Begins(q, r, intervention)
<1> DEFINE r == IF Chats(q) THEN request[q].run ELSE q
           s == IF Chats(q) THEN Reset(run[r]) ELSE NewRunState
<1>1. request[q].pc = "missed" /\ r \in Requests /\ Key[q] \in Keys /\ Body[q] \in Bodies
  BY DEF Launch, Typed, Placed, Held, Holding, Keys, Bodies
<1>2. run \in [Requests -> RunStates] /\ worker \in [Requests -> WorkerThreads]
  BY DEF Typed, TypeOK
<1>3. s \in RunStates /\ s.status = "running" /\ s.result = "none"
  <2>1. NewRunState \in RunStates /\ NewRunState.status = "running" /\ NewRunState.result = "none"
    BY ServiceAssumptions DEF ServiceAssumptions, NewRunState, RunStates, Statuses, Results
  <2>2. ASSUME NEW o \in RunStates
        PROVE  Reset(o) \in RunStates /\ Reset(o).status = "running" /\ Reset(o).result = "none"
    BY DEF Reset, RunStates, Statuses, Results
  <2> QED BY <1>1, <1>2, <2>1, <2>2
<1>4. run' = [run EXCEPT ![r] = s]
  BY <1>1, <1>2 DEF Launch
<1>6. /\ RUNS' = IF Chats(q) THEN RUNS ELSE RUNS \cup {q}
      /\ IDEMPOTENCY' = [IDEMPOTENCY EXCEPT ![Key[q]] = [body |-> Body[q], run |-> r]]
      /\ aged' = aged \ {Key[q]} /\ Goes(q, "starting")
      /\ request' = [request EXCEPT ![q].run = r,
                                    ![q].pc = IF Chats(q) THEN "awaiting" ELSE "answered",
                                    ![q].answer = IF Chats(q) THEN "none" ELSE "accepted"]
      /\ UNCHANGED <<console_in, employee, cookie, takenOver>>
  BY DEF Launch, Goes, session
<1> HIDE DEF s
<1>7. State(r, "running", s.intervention, "none")
  BY <1>1, <1>3, <1>4, StateForm DEF Typed
<1>8. Gets(q, r)
  BY <1>1, <1>6, GetsForm
<1>9. Worker(q, "starting", worker[q].asked, worker[q].outcome)
  <2>1. [worker[q] EXCEPT !.pc = "starting"] \in WorkerThreads
    BY <1>2 DEF WorkerThreads
  <2> QED BY <1>6, <2>1, GoesForm DEF Typed
<1>10. [body |-> Body[q], run |-> r] \in Items
  BY <1>1 DEF Items
<1>11. r = IF Chats(q) THEN request[q].run ELSE q
  OBVIOUS
<1> HIDE DEF r
<1>12. Begins(q, r, s.intervention)
  BY <1>1, <1>6, <1>7, <1>8, <1>9, <1>10, <1>11 DEF Begins
<1> QED BY <1>12

Returns(q, answer, got) ==
  LET r == request[q].run IN
  /\ Chats(q) /\ request[q].pc = "awaiting" /\ r \in Requests
  /\ answer \in {"vanished", "timeout", "done", "error", "awaiting_human"}
  /\ got \in {"none", run[r].result}
  /\ Turn(q, "responding", r, request[q].pending, answer, got)
  /\ UNCHANGED <<run, RUNS, console_in, IDEMPOTENCY, aged, worker, employee, cookie, takenOver>>

LEMMA AwaitForm ==
  ASSUME Typed, NEW q \in Requests, AwaitEnds(q)
  PROVE  \E answer, got : Returns(q, answer, got)
<1> DEFINE r == request[q].run
           final == request[q].pending
<1>1. Chats(q) /\ request[q].pc = "awaiting" /\ r \in Requests /\ TypeOK /\ final \in Someone
  BY ThreadOf DEF AwaitEnds, Typed, Placed
<1>2. run[r].result \in Results /\ "none" \in Results
  BY <1>1, RunsOf DEF Results
<1>3. {"vanished", "timeout", "done", "error", "awaiting_human"} \subseteq Answers
  BY DEF Answers
<1>4. \/ Concludes(q, "vanished", "none", final)
      \/ /\ run[r].status \in {"done", "error", "awaiting_human"}
         /\ Concludes(q, run[r].status, run[r].result, final)
      \/ Concludes(q, "timeout", "none", final)
  BY DEF AwaitEnds
<1>5. UNCHANGED <<run, RUNS, console_in, IDEMPOTENCY, aged, worker, employee, cookie, takenOver>>
  BY DEF AwaitEnds, store, session
<1>6. PICK answer \in {"vanished", "timeout", "done", "error", "awaiting_human"},
           got \in {"none", run[r].result} : Concludes(q, answer, got, final)
  BY <1>4
<1>7. Turn(q, "responding", r, final, answer, got)
  BY <1>1, <1>2, <1>3, <1>6, ConcludesTurn
<1> QED BY <1>1, <1>5, <1>6, <1>7 DEF Returns

\* A worker's step: its own thread and its RunState, nothing else that is shared
\* but the command queue.
Works(q, pc, asked, outcome, status, intervention, result) ==
  /\ Launched(q) /\ request[q].run \in Requests
  /\ Worker(q, pc, asked, outcome)
  /\ State(request[q].run, status, intervention, result)
  /\ UNCHANGED <<RUNS, IDEMPOTENCY, aged, request, employee, cookie, takenOver>>

WorksTo(q, pc) ==
  Works(q, pc, worker[q].asked, worker[q].outcome, run[request[q].run].status,
        run[request[q].run].intervention, run[request[q].run].result)

LEMMA WorkerOf ==
  ASSUME Typed, NEW q \in Requests, Launched(q)
  PROVE  /\ request[q].run \in Requests
         /\ run \in [Requests -> RunStates] /\ run[request[q].run] \in RunStates
         /\ worker \in [Requests -> WorkerThreads] /\ worker[q] \in WorkerThreads
  BY DEF Typed, TypeOK, Placed

LEMMA MovesForm ==
  ASSUME Typed, NEW q \in Requests,
         NEW pc \in {"lost", "engine", "console", "leaving", "left", "ended"}, Goes(q, pc)
  PROVE  Worker(q, pc, worker[q].asked, worker[q].outcome)
<1>1. worker[q] \in WorkerThreads
  BY DEF Typed, TypeOK
<1>2. [worker[q] EXCEPT !.pc = pc] \in WorkerThreads
  BY <1>1 DEF WorkerThreads
<1> QED BY <1>2, GoesForm DEF Typed

LEMMA StartsForm ==
  ASSUME Typed, NEW q \in Requests, WorkerStarts(q)
  PROVE  /\ At(q, "starting") /\ (WorksTo(q, "engine") \/ WorksTo(q, "lost"))
         /\ UNCHANGED <<run, console_in>>
<1> USE DEF At, Launched
<1>1. At(q, "starting") /\ Launched(q)
      /\ UNCHANGED <<run, RUNS, console_in, IDEMPOTENCY, aged, request, employee, cookie, takenOver>>
  BY DEF WorkerStarts, store, session
<1>2. State(request[q].run, run[request[q].run].status, run[request[q].run].intervention,
            run[request[q].run].result)
  BY <1>1, WorkerOf DEF State
<1>3. Goes(q, "engine") \/ Goes(q, "lost")
  BY DEF WorkerStarts, store, session
<1> QED BY <1>1, <1>2, <1>3, MovesForm, WorkerOf DEF WorksTo, Works

LEMMA HandoffForm ==
  ASSUME Typed, NEW q \in Requests, Handoff(q)
  PROVE  /\ At(q, "engine") /\ worker[q].asked + 1 \in 0 .. MaxHandoffs
         /\ Works(q, "shown", worker[q].asked + 1, worker[q].outcome, "awaiting_human",
                  run[request[q].run].intervention, run[request[q].run].result)
         /\ UNCHANGED console_in
<1> DEFINE r == request[q].run
           t == [worker[q] EXCEPT !.pc = "shown", !.asked = @ + 1]
<1>1. At(q, "engine") /\ Launched(q) /\ worker[q].asked < MaxHandoffs
  BY DEF Handoff, At, Launched
<1>2. r \in Requests /\ worker \in [Requests -> WorkerThreads] /\ worker[q] \in WorkerThreads
  BY <1>1, WorkerOf
<1>3. worker[q].asked + 1 \in 0 .. MaxHandoffs
  BY <1>1, <1>2, ServiceAssumptions DEF ServiceAssumptions, WorkerThreads
<1>4. t \in WorkerThreads
  BY <1>2, <1>3 DEF WorkerThreads
<1>5. worker' = [worker EXCEPT ![q] = t]
  BY <1>2 DEF Handoff, WorkerThreads
<1>6. t.pc = "shown" /\ t.asked = worker[q].asked + 1 /\ t.outcome = worker[q].outcome
  BY <1>2 DEF WorkerThreads
<1> HIDE DEF t
<1>7. Worker(q, "shown", worker[q].asked + 1, worker[q].outcome)
  BY <1>4, <1>5, <1>6, WorkerForm DEF Typed
<1>8. State(r, "awaiting_human", run[r].intervention, run[r].result)
  BY <1>2, StatusForm DEF Handoff, Typed, Statuses
<1> QED BY <1>1, <1>2, <1>3, <1>7, <1>8 DEF Works, Handoff, store, session

LEMMA ShowForm ==
  ASSUME Typed, NEW q \in Requests, ShowIntervention(q)
  PROVE  /\ At(q, "shown")
         /\ Works(q, "console", worker[q].asked, worker[q].outcome,
                  run[request[q].run].status, worker[q].asked, run[request[q].run].result)
         /\ UNCHANGED console_in
<1> DEFINE r == request[q].run
<1>1. At(q, "shown") /\ Launched(q) /\ Goes(q, "console")
  BY DEF ShowIntervention, At, Launched
<1>2. r \in Requests /\ worker[q] \in WorkerThreads
  BY <1>1, WorkerOf
<1>3. worker[q].asked \in 0 .. MaxHandoffs
  BY <1>2 DEF WorkerThreads
<1>4. State(r, run[r].status, worker[q].asked, run[r].result)
  BY <1>2, <1>3, InterventionForm DEF ShowIntervention, Typed
<1> QED BY <1>1, <1>2, <1>4, MovesForm DEF Works, ShowIntervention, store, session

LEMMA ReadsForm ==
  ASSUME Typed, NEW q \in Requests, ConsoleReads(q)
  PROVE  /\ At(q, "console") /\ (WorksTo(q, "console") \/ WorksTo(q, "leaving"))
         /\ console_in' \in [Requests -> Seq(Commands)]
         /\ UNCHANGED run
<1> DEFINE r == request[q].run
<1>1. At(q, "console") /\ Launched(q) /\ (Goes(q, "leaving") \/ worker' = worker)
  BY DEF ConsoleReads, At, Launched
<1>2. r \in Requests /\ worker \in [Requests -> WorkerThreads]
      /\ console_in \in [Requests -> Seq(Commands)]
  BY <1>1, WorkerOf DEF Typed, TypeOK
<1>3. /\ console_in' = [console_in EXCEPT ![r] = Tail(@)] /\ console_in[r] # <<>>
      /\ UNCHANGED <<run, RUNS, IDEMPOTENCY, aged, request, employee, cookie, takenOver>>
  BY DEF ConsoleReads, store, session
<1>4. console_in' \in [Requests -> Seq(Commands)]
  BY <1>2, <1>3
<1>5. State(r, run[r].status, run[r].intervention, run[r].result)
  BY <1>1, <1>3, WorkerOf DEF State
<1>6. worker' = worker => Worker(q, "console", worker[q].asked, worker[q].outcome)
  BY <1>1, <1>2 DEF Worker, At
<1> QED BY <1>1, <1>2, <1>3, <1>4, <1>5, <1>6, MovesForm DEF WorksTo, Works

LEMMA LeavesForm ==
  ASSUME Typed, NEW q \in Requests, LeaveConsole(q)
  PROVE  /\ At(q, "leaving")
         /\ Works(q, "left", worker[q].asked, worker[q].outcome, "running",
                  run[request[q].run].intervention, run[request[q].run].result)
         /\ UNCHANGED console_in
<1> DEFINE r == request[q].run
<1>1. At(q, "leaving") /\ Launched(q) /\ Goes(q, "left")
  BY DEF LeaveConsole, At, Launched
<1>2. r \in Requests
  BY <1>1, WorkerOf
<1>3. State(r, "running", run[r].intervention, run[r].result)
  BY <1>2, StatusForm DEF LeaveConsole, Typed, Statuses
<1> QED BY <1>1, <1>2, <1>3, MovesForm DEF Works, LeaveConsole, store, session

LEMMA ClearsForm ==
  ASSUME Typed, NEW q \in Requests, ClearIntervention(q)
  PROVE  /\ At(q, "left")
         /\ Works(q, "engine", worker[q].asked, worker[q].outcome,
                  run[request[q].run].status, 0, run[request[q].run].result)
         /\ UNCHANGED console_in
<1> DEFINE r == request[q].run
<1>1. At(q, "left") /\ Launched(q) /\ Goes(q, "engine")
  BY DEF ClearIntervention, At, Launched
<1>2. r \in Requests /\ 0 \in 0 .. MaxHandoffs
  BY <1>1, WorkerOf, ServiceAssumptions DEF ServiceAssumptions
<1>3. State(r, run[r].status, 0, run[r].result)
  BY <1>2, InterventionForm DEF ClearIntervention, Typed
<1> QED BY <1>1, <1>2, <1>3, MovesForm DEF Works, ClearIntervention, store, session

LEMMA RecordsForm ==
  ASSUME Typed, NEW q \in Requests, WorkerRecords(q)
  PROVE  /\ At(q, "engine") /\ Body[q] \in Results
         /\ \E outcome \in {"done", "error"} :
              Works(q, "recorded", worker[q].asked, outcome,
                    run[request[q].run].status, run[request[q].run].intervention,
                    IF outcome = "done" THEN Body[q] ELSE run[request[q].run].result)
         /\ UNCHANGED console_in
<1> DEFINE r == request[q].run
<1>1. At(q, "engine") /\ Launched(q)
      /\ UNCHANGED <<RUNS, console_in, IDEMPOTENCY, aged, request, employee, cookie, takenOver>>
  BY DEF WorkerRecords, At, Launched, store, session
<1>2. r \in Requests /\ worker \in [Requests -> WorkerThreads] /\ worker[q] \in WorkerThreads
      /\ run \in [Requests -> RunStates]
  BY <1>1, WorkerOf
<1>3. Body[q] \in Results
  BY DEF Results, Bodies
<1>4. PICK outcome \in {"done", "error"} :
        /\ worker' = [worker EXCEPT ![q].pc = "recorded", ![q].outcome = outcome]
        /\ run' = IF outcome = "done" THEN [run EXCEPT ![r].result = Body[q]] ELSE run
  BY DEF WorkerRecords
<1> DEFINE t == [worker[q] EXCEPT !.pc = "recorded", !.outcome = outcome]
<1>5. t \in WorkerThreads
  BY <1>2 DEF WorkerThreads
<1>6. worker' = [worker EXCEPT ![q] = t]
  BY <1>2, <1>4 DEF WorkerThreads
<1>7. t.pc = "recorded" /\ t.asked = worker[q].asked /\ t.outcome = outcome
  BY <1>2 DEF WorkerThreads
<1> HIDE DEF t
<1>8. Worker(q, "recorded", worker[q].asked, outcome)
  BY <1>5, <1>6, <1>7, WorkerForm DEF Typed
<1>9. State(r, run[r].status, run[r].intervention,
            IF outcome = "done" THEN Body[q] ELSE run[r].result)
  <2>1. CASE outcome = "done"
    BY <1>2, <1>3, <1>4, <2>1, ResultForm DEF Typed
  <2>2. CASE outcome # "done"
    BY <1>2, <1>4, <2>2 DEF State
  <2> QED BY <2>1, <2>2
<1> QED BY <1>1, <1>2, <1>3, <1>8, <1>9 DEF Works

LEMMA EndsForm ==
  ASSUME Typed, NEW q \in Requests, WorkerEnds(q)
  PROVE  /\ At(q, "recorded")
         /\ Works(q, "ended", worker[q].asked, worker[q].outcome, worker[q].outcome,
                  run[request[q].run].intervention, run[request[q].run].result)
         /\ UNCHANGED console_in
<1> DEFINE r == request[q].run
<1>1. At(q, "recorded") /\ Launched(q) /\ Goes(q, "ended")
  BY DEF WorkerEnds, At, Launched
<1>2. r \in Requests
  BY <1>1, WorkerOf
<1>3. worker[q].outcome \in Statuses
  BY <1>1, WorkerOf DEF Typed, Placed, WorkerThreads, Statuses
<1>4. State(r, worker[q].outcome, run[r].intervention, run[r].result)
  BY <1>2, <1>3, StatusForm DEF WorkerEnds, Typed
<1> QED BY <1>1, <1>2, <1>4, MovesForm DEF Works, WorkerEnds, store, session

\* A request's step keeps every thread in its place.
LEMMA ThreadPlaced ==
  ASSUME Typed, NEW q \in Requests, NEW pc, NEW r, NEW pending, NEW answer, NEW got,
         Thread(q, pc, r, pending, answer, got),
         pc \notin {"idle", "starting", "missed", "answered"} => Chats(q),
         pc = "superseding" => request'[q].was \in Requests,
         (Chats(q) /\ pc \in Holding) \/ pc = "awaiting" => r \in Requests,
         Launched(q)' => pc \in {"awaiting", "responding", "answered"} /\ r \in Requests,
         \A p \in Requests \ {q} : worker'[p] = worker[p],
         At(q, "recorded")' => worker'[q] = worker[q],
         UNCHANGED employee
  PROVE  Placed'
<1> SUFFICES ASSUME NEW p \in Requests
             PROVE  /\ request'[p].pc \in {"superseding", "routing", "validating", "noting",
                                           "responding", "awaiting"} => Chats(p)
                    /\ request'[p].pc = "superseding" => request'[p].was \in Requests
                    /\ Held(p)' \/ request'[p].pc = "awaiting" => request'[p].run \in Requests
                    /\ Launched(p)' => /\ request'[p].pc \in {"awaiting", "responding", "answered"}
                                       /\ request'[p].run \in Requests
                    /\ At(p, "recorded")' => worker'[p].outcome # "none"
  BY DEF Typed, Placed, Chats
<1>1. CASE p = q
  BY <1>1 DEF Thread, Held, Chats, Typed, Placed, Launched, At
<1>2. CASE p # q
  BY <1>2 DEF Thread, Held, Chats, Typed, Placed, Launched, At
<1> QED BY <1>1, <1>2

LEMMA HeldUnlaunched ==
  ASSUME Typed, NEW q \in Requests,
         request[q].pc \in Holding \cup {"idle", "superseding"}
  PROVE  ~Launched(q)
  BY DEF Typed, Placed, Holding

\* A turn of a request that starts no worker and registers no RunState.
LEMMA TurnTyped ==
  ASSUME Typed, NEW q \in Requests, NEW pc, NEW r, NEW pending, NEW answer, NEW got,
         Turn(q, pc, r, pending, answer, got),
         pc \notin {"idle", "superseding", "starting", "missed", "answered"} => Chats(q),
         (Chats(q) /\ pc \in Holding) \/ pc = "awaiting" => r \in Requests,
         Launched(q) => pc \in {"awaiting", "responding", "answered"} /\ r \in Requests,
         pc # "superseding",
         run' \in [Requests -> RunStates], RUNS' \subseteq Requests,
         IDEMPOTENCY' \in [Keys -> Items \cup {Nobody}],
         cookie' \in [Customers -> Someone],
         UNCHANGED <<console_in, aged, worker, employee, takenOver>>
  PROVE  Typed'
<1>1. Launched(q)' <=> Launched(q)
  BY DEF Launched, At
<1>2. Placed'
  BY <1>1, ThreadPlaced DEF Turn
<1>3. TypeOK'
  BY DEF Turn, Thread, Typed, TypeOK
<1> QED BY <1>2, <1>3 DEF Typed

LEMMA ArrivesTyped ==
  ASSUME Typed, NEW q \in Requests, Arrives(q)
  PROVE  Typed'
<1>1. CASE InvokeArrives(q)
  <2>1. PICK pc \in {"starting", "answered"}, answer \in {request[q].answer, "refused"} :
          Thread(q, pc, request[q].run, request[q].pending, answer, request[q].got)
    BY <1>1, InvokeForm
  <2>2. /\ ~Chats(q) /\ request[q].pc = "idle"
        /\ UNCHANGED <<run, RUNS, console_in, IDEMPOTENCY, aged, worker, employee, cookie,
                       takenOver>>
    BY <1>1, InvokeForm
  <2>3. ~Launched(q) /\ ~Launched(q)'
    BY <2>2, HeldUnlaunched DEF Launched, At
  <2>4. Placed'
    BY <2>1, <2>2, <2>3, ThreadPlaced DEF Launched, At
  <2>5. TypeOK'
    BY <2>1, <2>2 DEF Typed, TypeOK, Thread
  <2> QED BY <2>4, <2>5 DEF Typed
<1>2. ASSUME NEW r \in Requests, Takes(q, r), NEW pc, NEW s, NEW pending, NEW answer, NEW got,
             Thread(q, pc, s, pending, answer, got), pc \in {"superseding", "routing", "validating"},
             pc # "superseding" => s \in Requests, run' \in [Requests -> RunStates]
      PROVE  Typed'
  <2>1. /\ Chats(q) /\ request[q].pc = "idle" /\ request'[q].was = r
        /\ takenOver' \subseteq Requests
        /\ UNCHANGED <<RUNS, console_in, IDEMPOTENCY, aged, worker, employee, cookie>>
    BY <1>2 DEF Takes, Typed, TypeOK
  <2>2. ~Launched(q) /\ ~Launched(q)'
    BY <2>1, HeldUnlaunched DEF Launched, At
  <2>3. Placed'
    BY <1>2, <2>1, <2>2, ThreadPlaced DEF Launched, At, Holding
  <2>4. TypeOK'
    BY <1>2, <2>1 DEF Typed, TypeOK, Thread
  <2> QED BY <2>3, <2>4 DEF Typed
<1>3. CASE ChatResumes(q)
  <2>1. PICK r \in Requests, pc \in {"routing", "validating"}, pending \in Someone :
          Resumes(q, r, pc, pending)
    BY <1>3, ResumesForm
  <2> QED BY <1>2, <2>1 DEF Resumes, State
<1>4. CASE ChatSupersedes(q)
  <2>1. PICK r \in Requests : Supersedes(q, r)
    BY <1>4, SupersedesForm
  <2> QED BY <1>2, <2>1 DEF Supersedes, State
<1>5. CASE ChatOpens(q)
  <2>1. PICK pc \in {"routing", "validating"}, pending \in Someone :
          Opens(q, pc, cookie[Owner[q]], pending)
    BY <1>5, OpensForm
  <2>2. /\ Chats(q) /\ RUNS' = RUNS \cup {q} /\ run' = run
        /\ Thread(q, pc, q, pending, request[q].answer, request[q].got)
        /\ UNCHANGED <<console_in, IDEMPOTENCY, aged, worker, employee, cookie, takenOver>>
    BY <1>5, <2>1, OpensForm DEF Opens
  <2>3. ~Launched(q) /\ ~Launched(q)'
    BY <1>5, <2>2, OpensForm, HeldUnlaunched DEF Launched, At
  <2>4. Placed'
    BY <2>2, <2>3, ThreadPlaced DEF Launched, At, Holding
  <2>5. TypeOK'
    BY <2>2 DEF Typed, TypeOK, Thread
  <2> QED BY <2>4, <2>5 DEF Typed
<1> QED BY <1>1, <1>3, <1>4, <1>5 DEF Arrives

LEMMA ServeSplit ==
  ASSUME NEW q, Serve(q)
  PROVE  \/ ChatCancels(q) \/ Answering(q) \/ ChatNotes(q) \/ ChatUnbound(q) \/ GoesOn(q)
         \/ ChatResponds(q) \/ (LookupConflicts(q) /\ ~Chats(q)) \/ LookupFinds(q)
         \/ Launch(q) \/ AwaitEnds(q)
  BY DEF Serve, Answering, GoesOn

LEMMA ServesTyped ==
  ASSUME Typed, NEW q \in Requests, Serve(q)
  PROVE  Typed'
<1>0. /\ run \in [Requests -> RunStates] /\ RUNS \subseteq Requests
      /\ IDEMPOTENCY \in [Keys -> Items \cup {Nobody}] /\ cookie \in [Customers -> Someone]
  BY DEF Typed, TypeOK
<1>1. CASE ChatCancels(q)
  <2>1. /\ Chats(q) /\ RUNS' = RUNS \cup {q} /\ run' \in [Requests -> RunStates]
        /\ Thread(q, "routing", q, request[q].pending, request[q].answer, request[q].got)
        /\ UNCHANGED <<console_in, IDEMPOTENCY, aged, worker, employee, cookie, takenOver>>
    BY <1>1, CancelsForm DEF Opens, State
  <2>2. ~Launched(q) /\ ~Launched(q)'
    BY <1>1, <2>1, CancelsForm, HeldUnlaunched DEF Launched, At
  <2>3. Placed'
    BY <2>1, <2>2, ThreadPlaced DEF Launched, At, Holding
  <2>4. TypeOK'
    BY <2>1 DEF Typed, TypeOK, Thread
  <2> QED BY <2>3, <2>4 DEF Typed
<1>2. CASE Answering(q)
  <2>1. PICK pc, status, answer, final, got : Replies(q, pc, status, answer, final, got)
    BY <1>2, RepliesForm
  <2> QED BY <1>0, <2>1, TurnTyped, HeldUnlaunched DEF Replies, Held, Holding, State
<1>3. CASE ChatNotes(q)
  BY <1>0, <1>3, NotesForm, TurnTyped, HeldUnlaunched DEF Held, Holding, State
<1>4. CASE ChatUnbound(q)
  BY <1>0, <1>4, UnboundForm, TurnTyped, HeldUnlaunched DEF Held, Holding
<1>5. CASE GoesOn(q)
  <2>1. PICK pc, pending : Proceeds(q, pc, pending)
    BY <1>5, GoesOnForm
  <2>2. /\ request[q].pc \in Holding /\ pc \in {"validating", "starting", "missed"}
        /\ Turn(q, pc, request[q].run, pending, request[q].answer, request[q].got)
        /\ pc # "missed" => Chats(q) /\ UNCHANGED IDEMPOTENCY
        /\ pc = "missed" => IDEMPOTENCY' = [IDEMPOTENCY EXCEPT ![Key[q]] = Nobody]
        /\ UNCHANGED <<run, RUNS, console_in, aged, worker, employee, cookie, takenOver>>
    BY <2>1 DEF Proceeds
  <2>3. ~Launched(q) /\ (Chats(q) => request[q].run \in Requests)
    BY <2>2, HeldUnlaunched DEF Typed, Placed, Held
  <2>4. IDEMPOTENCY' \in [Keys -> Items \cup {Nobody}]
    BY <1>0, <2>2
  <2> QED BY <1>0, <2>2, <2>3, <2>4, TurnTyped
<1>6. CASE ChatResponds(q)
  <2>1. Launched(q) => request[q].run \in Requests
    BY DEF Typed, Placed
  <2> QED BY <1>0, <1>6, <2>1, RespondsForm, TurnTyped DEF Holding
<1>7. CASE LookupConflicts(q) /\ ~Chats(q)
  BY <1>0, <1>7, ConflictForm, TurnTyped, HeldUnlaunched DEF Holding
<1>8. CASE LookupFinds(q)
  <2> DEFINE item == IDEMPOTENCY[Key[q]]
  <2>1. /\ item.run \in Requests /\ RUNS' \subseteq Requests /\ request[q].pc = "starting"
        /\ Turn(q, IF Chats(q) THEN "awaiting" ELSE "answered", item.run, request[q].pending,
                IF Chats(q) THEN "none" ELSE "accepted", request[q].got)
        /\ UNCHANGED <<run, console_in, IDEMPOTENCY, aged, worker, employee, cookie, takenOver>>
    BY <1>0, <1>8, FindsForm DEF Gets
  <2>2. ~Launched(q)
    BY <2>1, HeldUnlaunched DEF Holding
  <2> HIDE DEF item
  <2> QED BY <1>0, <2>1, <2>2, TurnTyped DEF Holding
<1>9. CASE Launch(q)
  <2>0. PICK r, intervention : Begins(q, r, intervention)
    BY <1>9, LaunchForm
  <2>1. /\ RUNS' \subseteq Requests /\ run' \in [Requests -> RunStates] /\ r \in Requests
        /\ [body |-> Body[q], run |-> r] \in Items
        /\ IDEMPOTENCY' = [IDEMPOTENCY EXCEPT ![Key[q]] = [body |-> Body[q], run |-> r]]
        /\ aged' = aged \ {Key[q]}
        /\ Worker(q, "starting", worker[q].asked, worker[q].outcome)
        /\ Thread(q, IF Chats(q) THEN "awaiting" ELSE "answered", r, request[q].pending,
                  IF Chats(q) THEN "none" ELSE "accepted", request[q].got)
        /\ UNCHANGED <<console_in, employee, cookie, takenOver>>
    BY <1>0, <2>0 DEF Begins, Gets, Turn, State
  <2>2. Placed'
    BY <2>1, ThreadPlaced DEF Worker, At, Holding
  <2>3. IDEMPOTENCY' \in [Keys -> Items \cup {Nobody}] /\ aged' \subseteq Keys
        /\ worker' \in [Requests -> WorkerThreads]
    BY <1>0, <2>1 DEF Typed, TypeOK, Worker
  <2>4. TypeOK'
    BY <2>1, <2>3 DEF Typed, TypeOK, Thread
  <2> QED BY <2>2, <2>4 DEF Typed
<1>10. CASE AwaitEnds(q)
  <2>1. PICK answer, got : Returns(q, answer, got)
    BY <1>10, AwaitForm
  <2> QED BY <1>0, <2>1, TurnTyped DEF Returns, Holding
<1> QED BY <1>1, <1>2, <1>3, <1>4, <1>5, <1>6, <1>7, <1>8, <1>9, <1>10, ServeSplit

LEMMA WorkTyped ==
  ASSUME Typed, NEW q \in Requests, NEW pc, NEW asked, NEW outcome, NEW status,
         NEW intervention, NEW result,
         Works(q, pc, asked, outcome, status, intervention, result),
         pc = "recorded" => outcome # "none",
         console_in' \in [Requests -> Seq(Commands)]
  PROVE  Typed'
<1>1. Placed'
  <2> SUFFICES ASSUME NEW p \in Requests
               PROVE  /\ Launched(p)' => Launched(p)
                      /\ At(p, "recorded")' => worker'[p].outcome # "none"
    BY DEF Works, Typed, Placed, Held
  <2>1. CASE p = q
    BY <2>1 DEF Works, Worker, Launched, At
  <2>2. CASE p # q
    BY <2>2 DEF Works, Worker, Launched, At, Typed, Placed
  <2> QED BY <2>1, <2>2
<1>2. TypeOK'
  BY DEF Works, Worker, State, Typed, TypeOK
<1> QED BY <1>1, <1>2 DEF Typed

LEMMA WorksTyped ==
  ASSUME Typed, NEW q \in Requests, Work(q)
  PROVE  Typed'
<1>1. UNCHANGED console_in => console_in' \in [Requests -> Seq(Commands)]
  BY DEF Typed, TypeOK
<1>2. CASE WorkerStarts(q)
  BY <1>1, <1>2, StartsForm, WorkTyped DEF WorksTo
<1>3. CASE Handoff(q)
  BY <1>1, <1>3, HandoffForm, WorkTyped
<1>4. CASE ShowIntervention(q)
  BY <1>1, <1>4, ShowForm, WorkTyped
<1>5. CASE ConsoleReads(q)
  BY <1>5, ReadsForm, WorkTyped DEF WorksTo
<1>6. CASE LeaveConsole(q)
  BY <1>1, <1>6, LeavesForm, WorkTyped
<1>7. CASE ClearIntervention(q)
  BY <1>1, <1>7, ClearsForm, WorkTyped
<1>8. CASE WorkerRecords(q)
  BY <1>1, <1>8, RecordsForm, WorkTyped
<1>9. CASE WorkerEnds(q)
  BY <1>1, <1>9, EndsForm, WorkTyped
<1> QED BY <1>2, <1>3, <1>4, <1>5, <1>6, <1>7, <1>8, <1>9 DEF Work

LEMMA AgesForm ==
  ASSUME Typed, NEW k \in Keys, ItemAges(k)
  PROVE  /\ IDEMPOTENCY[k] # Nobody /\ aged' = aged \cup {k}
         /\ request' \in [Requests -> RequestThreads]
         /\ \A q \in Requests :
              /\ request'[q].pc = request[q].pc /\ request'[q].run = request[q].run
              /\ request'[q].was = request[q].was /\ request'[q].pending = request[q].pending
              /\ request'[q].answer = request[q].answer /\ request'[q].got = request[q].got
              /\ request'[q].repeat => request[q].repeat /\ Key[q] # k
         /\ UNCHANGED <<run, RUNS, console_in, IDEMPOTENCY, worker, employee, cookie, takenOver>>
<1>1. request \in [Requests -> RequestThreads]
  BY DEF Typed, TypeOK
<1>2. request' = [q \in Requests |-> [request[q] EXCEPT !.repeat = @ /\ Key[q] # k]]
  BY DEF ItemAges
<1>3. ASSUME NEW t \in RequestThreads, NEW b \in BOOLEAN
      PROVE  LET u == [t EXCEPT !.repeat = b] IN
             /\ u \in RequestThreads
             /\ u.pc = t.pc /\ u.run = t.run /\ u.was = t.was /\ u.pending = t.pending
             /\ u.answer = t.answer /\ u.got = t.got /\ u.repeat = b
  BY DEF RequestThreads
<1>4. ASSUME NEW q \in Requests
      PROVE  /\ request'[q] \in RequestThreads
             /\ request'[q].pc = request[q].pc /\ request'[q].run = request[q].run
             /\ request'[q].was = request[q].was /\ request'[q].pending = request[q].pending
             /\ request'[q].answer = request[q].answer /\ request'[q].got = request[q].got
             /\ request'[q].repeat => request[q].repeat /\ Key[q] # k
  <2> DEFINE b == request[q].repeat /\ Key[q] # k
  <2>1. request'[q] = [request[q] EXCEPT !.repeat = b]
    BY <1>2
  <2>2. b \in BOOLEAN /\ request[q] \in RequestThreads
    BY <1>1
  <2>3. b => request[q].repeat /\ Key[q] # k
    OBVIOUS
  <2> HIDE DEF b
  <2> QED BY <1>3, <2>1, <2>2, <2>3
<1> QED BY <1>2, <1>4 DEF ItemAges, session

LEMMA AgesTyped ==
  ASSUME Typed, NEW k \in Keys, ItemAges(k)
  PROVE  Typed'
<1>1. Placed'
  BY AgesForm DEF Typed, Placed, Held, Launched, At
<1>2. TypeOK'
  BY AgesForm DEF Typed, TypeOK
<1> QED BY <1>1, <1>2 DEF Typed

\* Employees: only they and the command queues change.
Attends(e) ==
  \/ EmployeePosts(e)
  \/ \E r \in Requests : EmployeeSees(e, r)
  \/ \E w \in Words : EmployeePushes(e, w)

LEMMA AttendsTyped ==
  ASSUME Typed, NEW e \in Employees, Attends(e)
  PROVE  Typed' /\ UNCHANGED <<run, RUNS, IDEMPOTENCY, aged, request, worker, cookie,
                 takenOver>>
<1>1. UNCHANGED <<run, RUNS, IDEMPOTENCY, aged, request, worker, cookie,
                 takenOver>>
  BY DEF Attends, EmployeePosts, EmployeeSees, EmployeePushes, store, session
<1>2. employee \in [Employees -> EmployeeThreads]
      /\ console_in \in [Requests -> Seq(Commands)] /\ run \in [Requests -> RunStates]
  BY DEF Typed, TypeOK
<1>3. /\ employee' \in [Employees -> EmployeeThreads]
      /\ console_in' \in [Requests -> Seq(Commands)]
      /\ \A d \in Employees :
           employee'[d].pc # "idle" => employee'[d].run \in Requests /\ employee'[d].seen > 0
  <2>1. CASE EmployeePosts(e)
    <3>1. PICK pc \in {"pushing", "idle"} : employee' = [employee EXCEPT ![e].pc = pc]
      BY <2>1 DEF EmployeePosts
    <3>2. employee[e].pc = "deciding" /\ UNCHANGED console_in
      BY <2>1 DEF EmployeePosts
    <3>3. employee' \in [Employees -> EmployeeThreads]
      BY <1>2, <3>1 DEF EmployeeThreads
    <3> QED BY <1>2, <3>1, <3>2, <3>3 DEF Typed, Placed, EmployeeThreads
  <2>2. ASSUME NEW r \in Requests, EmployeeSees(e, r)
        PROVE  <1>3!1 /\ <1>3!2 /\ <1>3!3
    <3> DEFINE t == [pc |-> "deciding", run |-> r, seen |-> run[r].intervention]
    <3>1. employee' = [employee EXCEPT ![e] = t] /\ run[r].intervention > 0 /\ UNCHANGED console_in
      BY <2>2 DEF EmployeeSees
    <3>2. t \in EmployeeThreads /\ t.run \in Requests /\ t.seen > 0
      BY <1>2, <3>1 DEF EmployeeThreads, RunStates, Someone
    <3> HIDE DEF t
    <3> QED BY <1>2, <3>1, <3>2 DEF Typed, Placed
  <2>3. ASSUME NEW w \in Words, EmployeePushes(e, w)
        PROVE  <1>3!1 /\ <1>3!2 /\ <1>3!3
    <3> DEFINE r == employee[e].run
               cmd == [word |-> w, seen |-> employee[e].seen]
    <3>1. /\ employee[e].pc = "pushing"
          /\ console_in' = [console_in EXCEPT ![r] = Append(@, cmd)]
          /\ employee' = [employee EXCEPT ![e].pc = "idle"]
      BY <2>3 DEF EmployeePushes
    <3>2. r \in Requests /\ employee[e].seen > 0 /\ employee[e].seen \in 0 .. MaxHandoffs
      BY <1>2, <3>1 DEF Typed, Placed, EmployeeThreads
    <3>3. cmd \in Commands
      BY <3>2, ServiceAssumptions DEF ServiceAssumptions, Commands
    <3> HIDE DEF cmd
    <3>4. console_in' \in [Requests -> Seq(Commands)]
      BY <1>2, <3>1, <3>2, <3>3
    <3>5. employee' \in [Employees -> EmployeeThreads]
      BY <1>2, <3>1 DEF EmployeeThreads
    <3> QED BY <1>2, <3>1, <3>4, <3>5 DEF Typed, Placed, EmployeeThreads
  <2> QED BY <2>1, <2>2, <2>3 DEF Attends
<1>4. Placed'
  BY <1>1, <1>3 DEF Typed, Placed, Held, Launched, At
<1>5. TypeOK'
  BY <1>1, <1>3 DEF Typed, TypeOK
<1> QED BY <1>1, <1>4, <1>5 DEF Typed

LEMMA NextSplit ==
  ASSUME [Next]_vars
  PROVE  \/ \E q \in Requests : Arrives(q) \/ Serve(q) \/ Work(q)
         \/ \E k \in Keys : ItemAges(k)
         \/ \E e \in Employees : Attends(e)
         \/ UNCHANGED vars
  BY DEF Next, Attends

LEMMA TypedStays == Typed /\ [Next]_vars => Typed'
<1> SUFFICES ASSUME Typed, [Next]_vars PROVE Typed'
  OBVIOUS
<1>1. CASE UNCHANGED vars
  BY <1>1 DEF vars, Typed, TypeOK, Placed, Held, Launched, At
<1> QED BY <1>1, NextSplit, ArrivesTyped, ServesTyped, WorksTyped, AgesTyped, AttendsTyped

LEMMA SpecTyped == Spec => []Typed
<1>1. Typed /\ [Next]_vars => Typed'
  BY TypedStays
<1> QED BY <1>1, InitTyped, PTL DEF Spec

\* Every reachable state is of its type: whatever order the threads take their
\* steps in, every run, request and item refers to a registered RunState or to none.
THEOREM TypeCorrect == Spec => []TypeOK
<1>1. Typed => TypeOK
  BY DEF Typed
<1> QED BY <1>1, SpecTyped, PTL

--------------------------------------------------------------------------------
(* A repeated request.  Whoever waits for a run, or was answered with one, has *)
(* its key in the store until the key ages; so a repetition finds the item.    *)

Stored ==
  \A q \in Requests : request[q].pc = "awaiting" \/ request[q].answer \in Started =>
    Key[q] \in aged \/ IDEMPOTENCY[Key[q]] # Nobody

RepeatsFind ==
  \A q \in Requests : request[q].repeat =>
    /\ ~Launched(q) /\ request[q].pc # "missed"
    /\ Key[q] \notin aged /\ IDEMPOTENCY[Key[q]] # Nobody

Retries == Stored /\ RepeatsFind

\* A message that has just arrived.
LEMMA ArrivalRetries ==
  ASSUME Typed, Retries, NEW q \in Requests, request[q].pc = "idle",
         request'[q].pc \notin {"missed", "awaiting"},
         request'[q].answer \in {request[q].answer, "refused"},
         request'[q].repeat => request[q].repeat \/ Repeats(q),
         \A p \in Requests \ {q} : request'[p] = request[p],
         UNCHANGED <<IDEMPOTENCY, aged, worker>>
  PROVE  Retries'
<1>1. ~Launched(q)
  BY HeldUnlaunched
<1>2. Repeats(q) => Key[q] \notin aged /\ IDEMPOTENCY[Key[q]] # Nobody
  BY DEF Repeats, Retries, Stored
<1>3. Stored'
  BY DEF Retries, Stored, Started
<1>4. RepeatsFind'
  BY <1>1, <1>2 DEF Retries, RepeatsFind, Launched, At
<1> QED BY <1>3, <1>4 DEF Retries

LEMMA ArrivesRetries ==
  ASSUME Typed, Retries, NEW q \in Requests, Arrives(q)
  PROVE  Retries'
<1>1. CASE InvokeArrives(q)
  BY <1>1, InvokeForm, ArrivalRetries DEF Thread
<1>2. CASE ChatResumes(q)
  <2>1. PICK r \in Requests, pc \in {"routing", "validating"}, pending \in Someone :
          Resumes(q, r, pc, pending)
    BY <1>2, ResumesForm
  <2> QED BY <2>1, ArrivalRetries DEF Resumes, Takes, Thread
<1>3. CASE ChatSupersedes(q)
  <2>1. PICK r \in Requests : Supersedes(q, r)
    BY <1>3, SupersedesForm
  <2> QED BY <2>1, ArrivalRetries DEF Supersedes, Takes, Thread
<1>4. CASE ChatOpens(q)
  <2>1. PICK pc \in {"routing", "validating"}, pending \in Someone :
          Opens(q, pc, cookie[Owner[q]], pending)
    BY <1>4, OpensForm
  <2>2. request[q].pc = "idle" /\ request'[q].repeat = Repeats(q)
    BY <1>4, OpensForm
  <2> QED BY <2>1, <2>2, ArrivalRetries DEF Opens, Thread
<1> QED BY <1>1, <1>2, <1>3, <1>4 DEF Arrives

\* A step of a request that leaves the store alone and is not repeated into a run.
LEMMA ThreadRetries ==
  ASSUME Typed, Retries, NEW q \in Requests, NEW pc, NEW r, NEW pending, NEW answer, NEW got,
         Thread(q, pc, r, pending, answer, got), request'[q].repeat = request[q].repeat,
         pc # "missed",
         \/ pc # "awaiting" /\ answer \notin Started
         \/ Key[q] \in aged \/ IDEMPOTENCY[Key[q]] # Nobody
         \/ pc # "awaiting" /\ answer = request[q].answer,
         UNCHANGED <<IDEMPOTENCY, aged, worker>>
  PROVE  Retries'
<1>1. Stored'
  BY DEF Retries, Stored, Thread
<1>2. RepeatsFind'
  BY DEF Retries, RepeatsFind, Launched, At, Thread
<1> QED BY <1>1, <1>2 DEF Retries

LEMMA ServesRetries ==
  ASSUME Typed, Retries, NEW q \in Requests, Serve(q)
  PROVE  Retries'
<1>1. CASE ChatCancels(q)
  BY <1>1, CancelsForm, ThreadRetries DEF Opens
<1>2. CASE Answering(q)
  <2>1. PICK pc, status, answer, final, got : Replies(q, pc, status, answer, final, got)
    BY <1>2, RepliesForm
  <2> QED BY <2>1, ThreadRetries DEF Replies, Turn, Started
<1>3. CASE ChatNotes(q)
  BY <1>3, NotesForm, ThreadRetries DEF Turn
<1>4. CASE ChatUnbound(q)
  BY <1>4, UnboundForm, ThreadRetries DEF Turn, Started
<1>5. CASE GoesOn(q)
  <2>1. PICK pc, pending : Proceeds(q, pc, pending)
    BY <1>5, GoesOnForm
  <2>2. CASE pc # "missed"
    BY <2>1, <2>2, ThreadRetries DEF Proceeds, Turn
  <2>3. CASE pc = "missed"
    <3>1. /\ Turn(q, "missed", request[q].run, pending, request[q].answer, request[q].got)
          /\ IDEMPOTENCY' = [IDEMPOTENCY EXCEPT ![Key[q]] = Nobody]
          /\ IDEMPOTENCY[Key[q]] = Nobody \/ Key[q] \in aged
          /\ UNCHANGED <<aged, worker>>
      BY <2>1, <2>3 DEF Proceeds
    <3>2. IDEMPOTENCY \in [Keys -> Items \cup {Nobody}] /\ Key[q] \in Keys
      BY DEF Typed, TypeOK, Keys
    <3>3. \A p \in Requests : request[p].repeat => Key[p] # Key[q]
      BY <3>1 DEF Retries, RepeatsFind
    <3>4. \A p \in Requests : Key[p] \in Keys
      BY DEF Keys
    <3>5. Stored'
      BY <3>1, <3>2, <3>4 DEF Retries, Stored, Turn, Thread
    <3>6. RepeatsFind'
      BY <3>1, <3>2, <3>3, <3>4 DEF Retries, RepeatsFind, Turn, Thread, Launched, At
    <3> QED BY <3>5, <3>6 DEF Retries
  <2> QED BY <2>2, <2>3
<1>6. CASE ChatResponds(q)
  BY <1>6, RespondsForm, ThreadRetries DEF Turn
<1>7. CASE LookupConflicts(q) /\ ~Chats(q)
  BY <1>7, ConflictForm, ThreadRetries DEF Turn, Started
<1>8. CASE LookupFinds(q)
  BY <1>8, FindsForm, ThreadRetries DEF Gets, Turn
<1>9. CASE Launch(q)
  <2>1. PICK r, intervention : Begins(q, r, intervention)
    BY <1>9, LaunchForm
  <2> DEFINE item == [body |-> Body[q], run |-> r]
  <2>2. /\ request[q].pc = "missed" /\ Key[q] \in Keys /\ item \in Items
        /\ IDEMPOTENCY' = [IDEMPOTENCY EXCEPT ![Key[q]] = item]
        /\ aged' = aged \ {Key[q]}
        /\ Worker(q, "starting", worker[q].asked, worker[q].outcome)
        /\ Gets(q, r)
    BY <2>1 DEF Begins
  <2>3. item # Nobody /\ IDEMPOTENCY \in [Keys -> Items \cup {Nobody}]
    BY <2>2, ServiceAssumptions DEF ServiceAssumptions, Items, Bodies, Typed, TypeOK
  <2>4. \A p \in Requests : Key[p] \in Keys
    BY DEF Keys
  <2> HIDE DEF item
  <2>5. ~request[q].repeat
    BY <2>2 DEF Retries, RepeatsFind
  <2>6. Stored'
    BY <2>2, <2>3, <2>4 DEF Retries, Stored, Gets, Turn, Thread
  <2>7. RepeatsFind'
    BY <2>2, <2>3, <2>4, <2>5
    DEF Retries, RepeatsFind, Gets, Turn, Thread, Worker, Launched, At
  <2> QED BY <2>6, <2>7 DEF Retries
<1>10. CASE AwaitEnds(q)
  <2>1. PICK answer, got : Returns(q, answer, got)
    BY <1>10, AwaitForm
  <2>2. Key[q] \in aged \/ IDEMPOTENCY[Key[q]] # Nobody
    BY <2>1 DEF Returns, Retries, Stored
  <2> QED BY <2>1, <2>2, ThreadRetries DEF Returns, Turn
<1> QED BY <1>1, <1>2, <1>3, <1>4, <1>5, <1>6, <1>7, <1>8, <1>9, <1>10, ServeSplit

LEMMA WorksRetries ==
  ASSUME Typed, Retries, NEW q \in Requests, Work(q)
  PROVE  Retries'
<1>1. Launched(q) /\ UNCHANGED <<IDEMPOTENCY, aged, request>>
  BY DEF Work, WorkerStarts, Handoff, ShowIntervention, ConsoleReads, LeaveConsole,
         ClearIntervention, WorkerRecords, WorkerEnds, Launched, At, store
<1>2. \A p \in Requests \ {q} : worker'[p] = worker[p]
  BY DEF Typed, TypeOK, Work, WorkerStarts, Handoff, ShowIntervention, ConsoleReads, LeaveConsole,
         ClearIntervention, WorkerRecords, WorkerEnds, Goes
<1> QED BY <1>1, <1>2 DEF Retries, Stored, RepeatsFind, Launched, At

LEMMA AgesRetries ==
  ASSUME Typed, Retries, NEW k \in Keys, ItemAges(k)
  PROVE  Retries'
<1>1. Stored'
  BY AgesForm DEF Retries, Stored
<1>2. RepeatsFind'
  BY AgesForm DEF Retries, RepeatsFind, Launched, At
<1> QED BY <1>1, <1>2 DEF Retries

LEMMA RetriesStay == Typed /\ Retries /\ [Next]_vars => Retries'
<1> SUFFICES ASSUME Typed, Retries, [Next]_vars PROVE Retries'
  OBVIOUS
<1>1. CASE UNCHANGED vars
  BY <1>1 DEF vars, Retries, Stored, RepeatsFind, Launched, At
<1>2. ASSUME NEW e \in Employees, Attends(e) PROVE Retries'
  BY <1>2, AttendsTyped DEF Retries, Stored, RepeatsFind, Launched, At
<1> QED BY <1>1, <1>2, NextSplit, ArrivesRetries, ServesRetries, WorksRetries, AgesRetries

\* A request repeated within the item's time to live starts no second worker,
\* for any number of requests sharing keys and however their steps interleave
\* with the store's aging.
THEOREM RepeatsStartNothing == Spec => []RetryStartsNothing
<1>1. Init => Retries
  BY DEF Init, Retries, Stored, RepeatsFind, Started
<1>2. Typed /\ Retries /\ [Next]_vars => Retries'
  BY RetriesStay
<1>3. Retries => RetryStartsNothing
  BY DEF Retries, RepeatsFind, RetryStartsNothing, Launched, At
<1> QED BY <1>1, <1>2, <1>3, SpecTyped, PTL DEF Spec

--------------------------------------------------------------------------------
(* Names that no request uses yet.                                          *)

\* A RunState has been registered: by the chat request it is named after, or
\* when the invoke request started its worker.
Born(r) == IF Chats(r) THEN request[r].pc \notin {"idle", "superseding"} ELSE Launched(r)

Fresh ==
  /\ \A r \in RUNS : Born(r)
  /\ \A c \in Customers : cookie[c] # Nobody => Born(cookie[c])
  /\ \A k \in Keys : IDEMPOTENCY[k] # Nobody => Born(IDEMPOTENCY[k].run)
  /\ \A q, r \in Requests :
       r \in {request[q].run, request[q].was, request[q].pending} => Born(r)
  /\ \A r \in Requests : ~Born(r) => run[r].status = "running" /\ run[r].result = "none"
  /\ \A q \in Requests :
       ~Chats(q) /\ request[q].pc \in {"idle", "starting", "missed"} => request[q].run = Nobody

\* A step of request q, which refers to nothing that is not registered after it.
LEMMA FreshStep ==
  ASSUME Typed, Fresh, NEW q \in Requests,
         \A p \in Requests \ {q} : request'[p] = request[p] /\ worker'[p] = worker[p],
         Born(q) => Born(q)',
         \A r \in RUNS' : r \in RUNS \/ Born(r)',
         \A c \in Customers : cookie'[c] # Nobody => cookie'[c] = cookie[c] \/ Born(cookie[c])',
         \A k \in Keys : IDEMPOTENCY'[k] # Nobody =>
           IDEMPOTENCY'[k] = IDEMPOTENCY[k] \/ Born(IDEMPOTENCY[k].run)',
         \A r \in Requests :
           r \in {request'[q].run, request'[q].was, request'[q].pending} =>
             Born(r) \/ Born(r)',
         \A r \in Requests : run'[r] = run[r] \/ Born(r)',
         ~Chats(q) /\ request'[q].pc \in {"idle", "starting", "missed"} =>
           request'[q].run = Nobody
  PROVE  Fresh'
<1>1. ASSUME NEW r \in Requests, Born(r) PROVE Born(r)'
  <2>1. CASE r = q
    BY <1>1, <2>1
  <2>2. CASE r # q
    BY <1>1, <2>2 DEF Born, Chats, Launched, At
  <2> QED BY <2>1, <2>2
<1>2. /\ RUNS \subseteq Requests
      /\ \A c \in Customers : cookie[c] \in Someone
      /\ \A k \in Keys : IDEMPOTENCY[k] # Nobody => IDEMPOTENCY[k].run \in Requests
  BY DEF Typed, TypeOK, Items
<1>3. \A r \in RUNS' : Born(r)'
  BY <1>1, <1>2 DEF Fresh
<1>4. \A c \in Customers : cookie'[c] # Nobody => Born(cookie[c])'
  BY <1>1, <1>2 DEF Fresh, Someone
<1>5. \A k \in Keys : IDEMPOTENCY'[k] # Nobody => Born(IDEMPOTENCY[k].run)'
  BY <1>1, <1>2 DEF Fresh
<1>6. \A p, r \in Requests :
        r \in {request'[p].run, request'[p].was, request'[p].pending} => Born(r)'
  BY <1>1 DEF Fresh
<1>7. \A r \in Requests : ~Born(r)' => run'[r].status = "running" /\ run'[r].result = "none"
  BY <1>1 DEF Fresh
<1>8. \A p \in Requests :
        ~Chats(p) /\ request'[p].pc \in {"idle", "starting", "missed"} => request'[p].run = Nobody
  BY DEF Fresh
<1> QED BY <1>3, <1>4, <1>5, <1>6, <1>7, <1>8 DEF Fresh, Chats

\* One that changes the thread and what it has registered before, at most.
LEMMA FreshTurn ==
  ASSUME Typed, Fresh, NEW q \in Requests, NEW pc, NEW r, NEW pending, NEW answer, NEW got,
         Turn(q, pc, r, pending, answer, got),
         pc \notin {"idle", "superseding"},
         ~Chats(q) => \/ pc = "answered"
                      \/ request[q].pc \in {"starting", "missed"} /\ r = request[q].run,
         r \in Requests => Born(r), pending \in {request[q].pending, r, Nobody},
         RUNS' \subseteq RUNS,
         \A c \in Customers : cookie'[c] \in {cookie[c], request[q].pending},
         \A k \in Keys : IDEMPOTENCY'[k] \in {IDEMPOTENCY[k], Nobody},
         \A s \in Requests : run'[s] = run[s] \/ Born(s),
         UNCHANGED worker
  PROVE  Fresh'
<1>0. Nobody \notin Requests /\ (Born(q) => Born(q)')
  BY ThreadOf DEF Typed, Born, Turn, Thread, Chats, Launched, At
<1>1. request[q].pending \in Someone
  BY ThreadOf DEF Typed
<1>2. \A s \in Requests : Born(s) => Born(s)'
  BY <1>0 DEF Born, Turn, Thread, Chats, Launched, At
<1>3. \A s \in Requests : s = request[q].pending => Born(s)'
  BY <1>2 DEF Fresh
<1>4. \A s \in Requests :
        s \in {request'[q].run, request'[q].was, request'[q].pending} => Born(s) \/ Born(s)'
  BY <1>0 DEF Fresh, Turn, Thread
<1>5. \A s \in Requests : run'[s] = run[s] \/ Born(s)'
  BY <1>2
<1>6. \A c \in Customers : cookie'[c] # Nobody => cookie'[c] = cookie[c] \/ Born(cookie[c])'
  BY <1>1, <1>3 DEF Someone
<1>7. ~Chats(q) /\ request'[q].pc \in {"idle", "starting", "missed"} => request'[q].run = Nobody
  BY DEF Turn, Thread, Fresh
<1>8. \A p \in Requests \ {q} : request'[p] = request[p] /\ worker'[p] = worker[p]
  BY DEF Turn, Thread
<1> QED BY <1>0, <1>4, <1>5, <1>6, <1>7, <1>8, FreshStep

LEMMA FreshTakes ==
  ASSUME Typed, Fresh, NEW q \in Requests, NEW r \in Requests, Takes(q, r),
         NEW pc, NEW s, NEW pending, NEW answer, NEW got,
         Thread(q, pc, s, pending, answer, got),
         s \in {r, request[q].run}, pending \in {r, Nobody, request[q].pending},
         \A p \in Requests \ {r} : run'[p] = run[p]
  PROVE  Fresh'
<1>1. /\ Chats(q) /\ request[q].pc = "idle" /\ request'[q].was = r /\ r \in RUNS
      /\ UNCHANGED <<RUNS, console_in, IDEMPOTENCY, aged, worker, employee, cookie>>
  BY DEF Takes
<1>2. ~Born(q) /\ Born(r) /\ r # q
  BY <1>1 DEF Born, Fresh
<1>3. Born(r)'
  BY <1>1, <1>2 DEF Born, Thread, Chats, Launched, At
<1>4. \A p \in Requests :
        p \in {request'[q].run, request'[q].was, request'[q].pending} => Born(p) \/ Born(p)'
  BY <1>1, <1>2, ThreadOf DEF Fresh, Thread, Typed
<1>5. \A p \in Requests : run'[p] = run[p] \/ Born(p)'
  BY <1>3
<1>6. \A p \in Requests \ {q} : request'[p] = request[p] /\ worker'[p] = worker[p]
  BY <1>1 DEF Thread
<1> QED BY <1>1, <1>2, <1>4, <1>5, <1>6, FreshStep

LEMMA FreshOpens ==
  ASSUME Typed, Fresh, NEW q \in Requests, NEW pc \in {"routing", "validating"}, NEW was,
         NEW pending, Opens(q, pc, was, pending),
         was \in {request[q].was, cookie[Owner[q]]},
         pending \in {request[q].pending, cookie[Owner[q]], Nobody},
         \A s \in Requests : run'[s] = run[s] \/ Born(s)
  PROVE  Fresh'
<1>1. /\ Chats(q) /\ request[q].pc \in {"idle", "superseding"} /\ RUNS' = RUNS \cup {q}
      /\ Thread(q, pc, q, pending, request[q].answer, request[q].got) /\ request'[q].was = was
      /\ UNCHANGED <<console_in, IDEMPOTENCY, aged, worker, employee, cookie, takenOver>>
  BY DEF Opens
<1>2. ~Born(q) /\ Born(q)'
  BY <1>1 DEF Born, Thread, Chats
<1>3. Owner[q] \in Customers /\ Nobody \notin Requests
  BY <1>1, CookieOf, ThreadOf DEF Typed
<1>4. \A s \in Requests : Born(s) => Born(s)'
  BY <1>1, <1>2 DEF Born, Thread, Chats, Launched, At
<1>5. \A s \in Requests :
        s \in {request'[q].run, request'[q].was, request'[q].pending} => Born(s) \/ Born(s)'
  BY <1>1, <1>2, <1>3 DEF Fresh, Thread
<1>6. \A p \in Requests \ {q} : request'[p] = request[p] /\ worker'[p] = worker[p]
  BY <1>1 DEF Thread
<1>7. \A s \in Requests : run'[s] = run[s] \/ Born(s)'
  BY <1>4
<1> QED BY <1>1, <1>2, <1>5, <1>6, <1>7, FreshStep

LEMMA ArrivesFresh ==
  ASSUME Typed, Fresh, NEW q \in Requests, Arrives(q)
  PROVE  Fresh'
<1>0. request[q].pending \in Someone
  BY ThreadOf DEF Typed
<1>1. CASE InvokeArrives(q)
  <2>1. PICK pc \in {"starting", "answered"}, answer \in {request[q].answer, "refused"} :
          Thread(q, pc, request[q].run, request[q].pending, answer, request[q].got)
    BY <1>1, InvokeForm
  <2>2. /\ ~Chats(q) /\ request[q].pc = "idle" /\ request'[q].was = request[q].was
        /\ UNCHANGED <<run, RUNS, console_in, IDEMPOTENCY, aged, worker, employee, cookie,
                       takenOver>>
    BY <1>1, InvokeForm
  <2>3. Born(q) => Born(q)'
    BY <2>2 DEF Born, Launched, At, Chats
  <2>4. \A p \in Requests \ {q} : request'[p] = request[p] /\ worker'[p] = worker[p]
    BY <2>1, <2>2 DEF Thread
  <2>5. \A s \in Requests :
          s \in {request'[q].run, request'[q].was, request'[q].pending} => Born(s) \/ Born(s)'
    BY <2>1, <2>2 DEF Thread, Fresh
  <2>6. request'[q].pc \in {"idle", "starting", "missed"} => request'[q].run = Nobody
    BY <2>1, <2>2 DEF Thread, Fresh
  <2> QED BY <2>2, <2>3, <2>4, <2>5, <2>6, FreshStep
<1>2. CASE ChatResumes(q)
  <2>1. PICK r \in Requests, pc \in {"routing", "validating"}, pending \in Someone :
          Resumes(q, r, pc, pending) /\ pending \in {r, Nobody}
    BY <1>2, ResumesForm
  <2>2. /\ Takes(q, r) /\ Thread(q, pc, r, pending, request[q].answer, request[q].got)
        /\ \A p \in Requests \ {r} : run'[p] = run[p]
    BY <2>1 DEF Resumes, State
  <2> QED BY <2>1, <2>2, FreshTakes
<1>3. CASE ChatSupersedes(q)
  <2>1. PICK r \in Requests : Supersedes(q, r)
    BY <1>3, SupersedesForm
  <2>2. /\ Takes(q, r)
        /\ Thread(q, "superseding", request[q].run, request[q].pending, request[q].answer,
                  request[q].got)
        /\ \A p \in Requests \ {r} : run'[p] = run[p]
    BY <2>1 DEF Supersedes, State
  <2> QED BY <2>2, FreshTakes
<1>4. CASE ChatOpens(q)
  <2>1. PICK pc \in {"routing", "validating"}, pending \in Someone :
          Opens(q, pc, cookie[Owner[q]], pending) /\ pending \in {cookie[Owner[q]], Nobody}
    BY <1>4, OpensForm
  <2>2. run' = run
    BY <1>4, OpensForm
  <2> QED BY <2>1, <2>2, FreshOpens
<1> QED BY <1>1, <1>2, <1>3, <1>4 DEF Arrives

LEMMA ServesFresh ==
  ASSUME Typed, Fresh, NEW q \in Requests, Serve(q)
  PROVE  Fresh'
<1>0. Nobody \notin Requests /\ request[q].run \in Someone
      /\ (request[q].run \in Requests => Born(request[q].run))
  BY ThreadOf DEF Typed, Fresh
<1>1. CASE ChatCancels(q)
  <2> DEFINE r == request[q].was
  <2>1. Opens(q, "routing", r, request[q].pending) /\ r \in Requests
        /\ \A s \in Requests \ {r} : run'[s] = run[s]
    BY <1>1, CancelsForm DEF State
  <2>2. Born(r)
    BY <2>1 DEF Fresh
  <2> QED BY <2>1, <2>2, FreshOpens
<1>2. CASE Answering(q)
  <2>1. PICK pc, status, answer, final, got : Replies(q, pc, status, answer, final, got)
    BY <1>2, RepliesForm
  <2> QED BY <1>0, <2>1, FreshTurn DEF Replies, Held, State
<1>3. CASE ChatNotes(q)
  BY <1>0, <1>3, NotesForm, FreshTurn DEF Held, State
<1>4. CASE ChatUnbound(q)
  BY <1>0, <1>4, UnboundForm, FreshTurn DEF Held
<1>5. CASE GoesOn(q)
  <2>1. PICK pc, pending : Proceeds(q, pc, pending)
    BY <1>5, GoesOnForm
  <2>2. \A k \in Keys : IDEMPOTENCY'[k] \in {IDEMPOTENCY[k], Nobody}
    BY <2>1 DEF Proceeds, Typed, TypeOK
  <2>3. /\ Turn(q, pc, request[q].run, pending, request[q].answer, request[q].got)
        /\ pc \in {"validating", "starting", "missed"} /\ pending \in {request[q].pending, Nobody}
        /\ ~Chats(q) => request[q].pc = "starting"
        /\ UNCHANGED <<run, RUNS, console_in, aged, worker, employee, cookie, takenOver>>
    BY <2>1 DEF Proceeds
  <2> QED BY <1>0, <2>2, <2>3, FreshTurn
<1>6. CASE ChatResponds(q)
  BY <1>0, <1>6, RespondsForm, FreshTurn
<1>7. CASE LookupConflicts(q) /\ ~Chats(q)
  BY <1>0, <1>7, ConflictForm, FreshTurn
<1>8. CASE LookupFinds(q)
  <2>1. PICK r \in Requests : /\ r = IDEMPOTENCY[Key[q]].run /\ Born(r)
                              /\ RUNS' \subseteq RUNS /\ Gets(q, r)
    BY <1>8, FindsForm DEF Fresh
  <2>2. UNCHANGED <<run, console_in, IDEMPOTENCY, aged, worker, employee, cookie, takenOver>>
    BY <1>8, FindsForm
  <2> QED BY <2>1, <2>2, FreshTurn DEF Gets
<1>9. CASE Launch(q)
  <2>0. PICK r, intervention : Begins(q, r, intervention)
    BY <1>9, LaunchForm
  <2>1. /\ request[q].pc = "missed" /\ Key[q] \in Keys /\ r \in Requests
        /\ r = IF Chats(q) THEN request[q].run ELSE q
        /\ RUNS' = IF Chats(q) THEN RUNS ELSE RUNS \cup {q}
        /\ \A s \in Requests \ {r} : run'[s] = run[s]
        /\ IDEMPOTENCY' = [IDEMPOTENCY EXCEPT ![Key[q]] = [body |-> Body[q], run |-> r]]
        /\ Worker(q, "starting", worker[q].asked, worker[q].outcome)
        /\ Turn(q, IF Chats(q) THEN "awaiting" ELSE "answered", r, request[q].pending,
                IF Chats(q) THEN "none" ELSE "accepted", request[q].got)
        /\ UNCHANGED <<console_in, employee, cookie, takenOver>>
    BY <2>0 DEF Begins, Gets, State
  <2>2. \A s \in Requests : Born(s) => Born(s)'
    BY <2>1 DEF Born, Turn, Thread, Worker, Chats, Launched, At
  <2>3. Born(r)'
    <3>1. CASE Chats(q)
      BY <1>0, <2>1, <2>2, <3>1
    <3>2. CASE ~Chats(q)
      BY <2>1, <3>2 DEF Born, Worker, Chats, Launched, At
    <3> QED BY <3>1, <3>2
  <2>4. \A k \in Keys : IDEMPOTENCY'[k] # Nobody =>
          IDEMPOTENCY'[k] = IDEMPOTENCY[k] \/ Born(IDEMPOTENCY[k].run)'
    <3>1. \A k \in Keys : IDEMPOTENCY'[k] = IDEMPOTENCY[k] \/ IDEMPOTENCY'[k].run = r
      BY <2>1 DEF Typed, TypeOK
    <3> QED BY <2>3, <3>1
  <2>5. \A s \in Requests :
          s \in {request'[q].run, request'[q].was, request'[q].pending} => Born(s) \/ Born(s)'
    BY <2>1, <2>3 DEF Turn, Thread, Fresh
  <2>6. ~Chats(q) => request'[q].pc = "answered"
    BY <2>1 DEF Turn, Thread
  <2>7. \A s \in RUNS' : s \in RUNS \/ Born(s)'
    BY <2>1, <2>3
  <2>8. \A s \in Requests : run'[s] = run[s] \/ Born(s)'
    BY <2>1, <2>3
  <2>9. \A p \in Requests \ {q} : request'[p] = request[p] /\ worker'[p] = worker[p]
    BY <2>1 DEF Turn, Thread, Worker
  <2> QED BY <2>1, <2>2, <2>4, <2>5, <2>6, <2>7, <2>8, <2>9, FreshStep
<1>10. CASE AwaitEnds(q)
  <2>1. PICK answer, got : Returns(q, answer, got)
    BY <1>10, AwaitForm
  <2> QED BY <1>0, <2>1, FreshTurn DEF Returns
<1> QED BY <1>1, <1>2, <1>3, <1>4, <1>5, <1>6, <1>7, <1>8, <1>9, <1>10, ServeSplit

\* What every step of a worker has in common.
LEMMA WorkForm ==
  ASSUME Typed, NEW q \in Requests, Work(q)
  PROVE  \E pc, asked, outcome, status, intervention, result :
           Works(q, pc, asked, outcome, status, intervention, result) /\ pc # "none"
<1>1. CASE WorkerStarts(q)
  BY <1>1, StartsForm DEF WorksTo
<1>2. CASE ConsoleReads(q)
  BY <1>2, ReadsForm DEF WorksTo
<1>3. CASE WorkerRecords(q)
  BY <1>3, RecordsForm
<1> QED BY <1>1, <1>2, <1>3, HandoffForm, ShowForm, LeavesForm, ClearsForm, EndsForm DEF Work

LEMMA WorksFresh ==
  ASSUME Typed, Fresh, NEW q \in Requests, Work(q)
  PROVE  Fresh'
<1>0. PICK pc, asked, outcome, status, intervention, result :
        Works(q, pc, asked, outcome, status, intervention, result) /\ pc # "none"
  BY WorkForm
<1>1. /\ Launched(q) /\ request[q].run \in Requests
      /\ \A p \in Requests \ {q} : worker'[p] = worker[p]
      /\ \A s \in Requests \ {request[q].run} : run'[s] = run[s]
      /\ UNCHANGED <<RUNS, IDEMPOTENCY, aged, request, employee, cookie, takenOver>>
  BY <1>0 DEF Works, Worker, State
<1>2. Launched(q)'
  BY <1>0 DEF Works, Worker, Launched, At
<1>3. \A s \in Requests : Born(s) => Born(s)'
  BY <1>1, <1>2 DEF Born, Launched, At
<1>4. Born(request[q].run)
  BY <1>1 DEF Fresh
<1>5. \A s \in Requests : run'[s] = run[s] \/ Born(s)'
  BY <1>1, <1>3, <1>4
<1>6. \A s \in Requests : s \in {request'[q].run, request'[q].was, request'[q].pending} => Born(s)
  BY <1>1 DEF Fresh
<1>7. ~Chats(q) /\ request'[q].pc \in {"idle", "starting", "missed"} => request'[q].run = Nobody
  BY <1>1 DEF Fresh
<1> QED BY <1>1, <1>3, <1>5, <1>6, <1>7, FreshStep

\* Two states in which the requests differ in what they repeat, at most.
AsBefore ==
  /\ \A q \in Requests :
       /\ request'[q].pc = request[q].pc /\ request'[q].run = request[q].run
       /\ request'[q].was = request[q].was /\ request'[q].pending = request[q].pending
       /\ request'[q].answer = request[q].answer /\ request'[q].got = request[q].got
  /\ UNCHANGED <<run, RUNS, IDEMPOTENCY, worker, cookie, takenOver>>

LEMMA OthersLeave ==
  ASSUME Typed,
         \/ \E k \in Keys : ItemAges(k)
         \/ \E e \in Employees : Attends(e)
         \/ UNCHANGED vars
  PROVE  AsBefore
<1>1. CASE \E k \in Keys : ItemAges(k)
  BY <1>1, AgesForm DEF AsBefore
<1>2. CASE \E e \in Employees : Attends(e)
  BY <1>2, AttendsTyped DEF AsBefore
<1>3. CASE UNCHANGED vars
  BY <1>3 DEF AsBefore, vars
<1> QED BY <1>1, <1>2, <1>3

LEMMA FreshStays == Typed /\ Fresh /\ [Next]_vars => Fresh'
<1> SUFFICES ASSUME Typed, Fresh, [Next]_vars PROVE Fresh'
  OBVIOUS
<1>1. ASSUME AsBefore PROVE Fresh'
  <2>1. \A p \in Requests : Born(p)' <=> Born(p)
    BY <1>1 DEF AsBefore, Born, Chats, Launched, At
  <2>2. /\ RUNS \subseteq Requests
        /\ \A c \in Customers : cookie[c] \in Someone
        /\ \A k \in Keys : IDEMPOTENCY[k] # Nobody => IDEMPOTENCY[k].run \in Requests
    BY DEF Typed, TypeOK, Items
  <2>3. /\ UNCHANGED <<run, RUNS, IDEMPOTENCY, cookie>>
        /\ \A p \in Requests :
             /\ request'[p].pc = request[p].pc /\ request'[p].run = request[p].run
             /\ request'[p].was = request[p].was /\ request'[p].pending = request[p].pending
    BY <1>1 DEF AsBefore
  <2>4. \A r \in RUNS' : Born(r)'
    BY <2>1, <2>2, <2>3 DEF Fresh
  <2>5. \A c \in Customers : cookie'[c] # Nobody => Born(cookie[c])'
    BY <2>1, <2>2, <2>3 DEF Fresh, Someone
  <2>6. \A k \in Keys : IDEMPOTENCY'[k] # Nobody => Born(IDEMPOTENCY[k].run)'
    BY <2>1, <2>2, <2>3 DEF Fresh
  <2> QED BY <2>1, <2>3, <2>4, <2>5, <2>6 DEF Fresh, Chats
<1> QED BY <1>1, NextSplit, OthersLeave, ArrivesFresh, ServesFresh, WorksFresh

--------------------------------------------------------------------------------
(* The invariant: who handles a RunState, and what has become of it.        *)

\* From the message that opens or resumes it to the worker it starts, and after;
\* a message that supersedes it handles it until it is cancelled.
Handles(q, r) ==
  \/ (Held(q) \/ Launched(q)) /\ request[q].run = r
  \/ request[q].pc = "superseding" /\ request[q].was = r

Sole(q, r) == r \notin takenOver => \A p \in Requests : Handles(p, r) => p = q

Alone == \A q, r \in Requests : Handles(q, r) => Sole(q, r)

\* Nobody handles a RunState that waits for the customer or has been cancelled.
Quiet ==
  \A r \in Requests \ takenOver :
    /\ run[r].status = "awaiting_customer" \/ run[r].result = "cancelled" =>
         \A q \in Requests : ~Handles(q, r)
    /\ run[r].result = "cancelled" => run[r].status = "done"

Kept == \A q, r \in Requests : Handles(q, r) /\ r \notin takenOver => r \in RUNS

\* What a RunState shows of the thread that handles it.
Shows(q) ==
  /\ Launched(q) /\ request[q].run \notin takenOver =>
       /\ At(q, "shown") \/ At(q, "console") => run[request[q].run].status = "awaiting_human"
       /\ At(q, "console") => run[request[q].run].intervention = worker[q].asked
       /\ At(q, "recorded") /\ worker[q].outcome = "done" => run[request[q].run].result = Body[q]
  /\ request[q].pc = "superseding" /\ request[q].was \notin takenOver =>
       run[request[q].was].status = "done"
  /\ request[q].pc = "noting" /\ request[q].run \notin takenOver =>
       run[request[q].run].status # "running"

\* The threads that a run which says "running" is left to.
Tends(q, r) ==
  /\ request[q].run = r
  /\ Held(q) \/ (Launched(q) /\ ~At(q, "ended")) \/ request[q].answer = "unbound"

Tended ==
  \A r \in RUNS \ takenOver :
    run[r].status = "running" => \E q \in Requests : Tends(q, r)

\* A worker has been started on r for this body.
Ran(r, body) == \E p \in Requests : Launched(p) /\ request[p].run = r /\ Body[p] = body

Backed ==
  \A k \in Keys : IDEMPOTENCY[k] # Nobody => Ran(IDEMPOTENCY[k].run, IDEMPOTENCY[k].body)

Resulted ==
  \A r \in Requests \ takenOver : run[r].result \in Bodies => Ran(r, run[r].result)

\* What a request waits for and has been told.
Told(q) ==
  /\ request[q].pc = "awaiting" => Ran(request[q].run, Body[q])
  /\ request[q].got \in Bodies => request[q].got = Body[q] \/ request[q].run \in takenOver
  /\ request[q].got # "none" \/ request[q].answer = "unbound" =>
       request[q].pc \in {"responding", "answered"}

InOrder ==
  /\ Alone /\ Quiet /\ Kept /\ Tended /\ DoneHasResult /\ Backed /\ Resulted
  /\ \A q \in Requests : Shows(q) /\ Told(q)

--------------------------------------------------------------------------------
(* One step of a thread.                                                    *)

Between(q, r) ==
  \/ request[q].pc = "superseding" /\ request[q].was = r
  \/ request[q].pc = "noting" /\ request[q].run = r

\* Only thread q moves, and once launched it stays on its RunState.
Steady(q) ==
  /\ \A p \in Requests \ {q} : request'[p] = request[p] /\ worker'[p] = worker[p]
  /\ takenOver \subseteq takenOver'
  /\ Launched(q) => Launched(q)' /\ request'[q].run = request[q].run

\* It handles only what nobody else does, in no state where nobody should.
Grabs(q) ==
  \A r \in Requests : Handles(q, r)' /\ r \notin takenOver' =>
    /\ Sole(q, r) /\ r \in RUNS'
    /\ run'[r].status # "awaiting_customer" /\ run'[r].result # "cancelled"

\* It changes and drops only what nobody else handles, and nothing cancelled.
Writes(q) ==
  /\ \A r \in Requests : run'[r] # run[r] /\ r \notin takenOver' =>
       /\ Sole(q, r) /\ run[r].result # "cancelled"
       /\ run'[r].result = "cancelled" => run'[r].status = "done"
  /\ \A r \in RUNS \ RUNS' : r \notin takenOver' => Sole(q, r)

\* A run that comes to say "running", or that it gives up, it tends.
Attended(q) ==
  \A r \in RUNS' \ takenOver' : run'[r].status = "running" =>
    Tends(q, r)' \/ (r \in RUNS /\ run[r].status = "running" /\ ~Tends(q, r))

\* A run that comes to say "done" has its result, or q is about to give it one.
Concluded(q) ==
  \A r \in RUNS' \ takenOver' : run'[r].status = "done" =>
    \/ run'[r].result # "none" \/ Between(q, r)'
    \/ /\ r \in RUNS /\ run[r].status = "done" /\ ~Between(q, r)
       /\ run[r].result # "none" => run'[r].result # "none"

\* Items and results are of workers on that run.
Sourced(q) ==
  /\ \A k \in Keys : IDEMPOTENCY'[k] # Nobody =>
       \/ IDEMPOTENCY'[k] = IDEMPOTENCY[k]
       \/ /\ Launched(q)' /\ request'[q].run = IDEMPOTENCY'[k].run
          /\ Body[q] = IDEMPOTENCY'[k].body
  /\ \A r \in Requests \ takenOver' : run'[r].result \in Bodies =>
       \/ run'[r].result = run[r].result
       \/ Launched(q)' /\ request'[q].run = r /\ Body[q] = run'[r].result

Orderly(q) ==
  /\ Steady(q) /\ Grabs(q) /\ Writes(q) /\ Attended(q) /\ Concluded(q) /\ Sourced(q)
  /\ Shows(q)' /\ Told(q)'

LEMMA OthersHandle ==
  ASSUME NEW q \in Requests, Steady(q), NEW p \in Requests \ {q}
  PROVE  /\ \A r : /\ Handles(p, r)' <=> Handles(p, r)
                   /\ Tends(p, r)' <=> Tends(p, r)
                   /\ Between(p, r)' <=> Between(p, r)
         /\ request'[p] = request[p] /\ worker'[p] = worker[p]
         /\ Launched(p)' <=> Launched(p)
  BY DEF Steady, Handles, Tends, Between, Held, Chats, Launched, At

LEMMA RanStays ==
  ASSUME NEW q \in Requests, Steady(q), NEW r, NEW body, Ran(r, body)
  PROVE  \E p \in Requests : Launched(p)' /\ request'[p].run = r /\ Body[p] = body
<1>1. PICK p \in Requests : Launched(p) /\ request[p].run = r /\ Body[p] = body
  BY DEF Ran
<1>2. CASE p = q
  BY <1>1, <1>2 DEF Steady
<1>3. CASE p # q
  BY <1>1, <1>3, OthersHandle
<1> QED BY <1>1, <1>2, <1>3

LEMMA StepInOrder ==
  ASSUME Typed, InOrder, NEW q \in Requests, Orderly(q), Typed'
  PROVE  InOrder'
<1> USE DEF Orderly
<1>1. Alone'
  <2> SUFFICES ASSUME NEW p \in Requests, NEW s \in Requests, NEW r \in Requests,
                      Handles(p, r)', Handles(s, r)', r \notin takenOver'
               PROVE  p = s
    BY DEF Alone, Sole
  <2>1. r \notin takenOver
    BY DEF Steady
  <2>2. CASE p = q /\ s # q
    BY <2>1, <2>2, OthersHandle DEF Grabs, Sole
  <2>3. CASE p # q /\ s = q
    BY <2>1, <2>3, OthersHandle DEF Grabs, Sole
  <2>4. CASE p # q /\ s # q
    BY <2>1, <2>4, OthersHandle DEF InOrder, Alone, Sole
  <2> QED BY <2>2, <2>3, <2>4
<1>2. Quiet'
  <2> SUFFICES ASSUME NEW r \in Requests, r \notin takenOver'
               PROVE  /\ run'[r].status = "awaiting_customer" \/ run'[r].result = "cancelled" =>
                           \A p \in Requests : ~Handles(p, r)'
                      /\ run'[r].result = "cancelled" => run'[r].status = "done"
    BY DEF Quiet
  <2>1. r \notin takenOver
    BY DEF Steady
  <2>2. run'[r].result = "cancelled" => run'[r].status = "done"
    BY <2>1 DEF Writes, InOrder, Quiet
  <2>3. ASSUME NEW p \in Requests, Handles(p, r)', p # q
        PROVE  run'[r].status # "awaiting_customer" /\ run'[r].result # "cancelled"
    <3>1. Handles(p, r)
      BY <2>3, OthersHandle
    <3>2. run'[r] = run[r]
      BY <2>1, <2>3, <3>1 DEF Writes, Sole
    <3> QED BY <2>1, <3>1, <3>2 DEF InOrder, Quiet
  <2>4. Handles(q, r)' => run'[r].status # "awaiting_customer" /\ run'[r].result # "cancelled"
    BY DEF Grabs
  <2> QED BY <2>2, <2>3, <2>4
<1>3. Kept'
  <2> SUFFICES ASSUME NEW p \in Requests, NEW r \in Requests, Handles(p, r)', r \notin takenOver'
               PROVE  r \in RUNS'
    BY DEF Kept
  <2>1. CASE p = q
    BY <2>1 DEF Grabs
  <2>2. CASE p # q
    <3>1. r \notin takenOver /\ Handles(p, r) /\ r \in RUNS
      BY <2>2, OthersHandle DEF Steady, InOrder, Kept
    <3> QED BY <2>2, <3>1 DEF Writes, Sole
  <2> QED BY <2>1, <2>2
<1>4. Tended'
  <2> SUFFICES ASSUME NEW r \in RUNS', r \notin takenOver', run'[r].status = "running"
               PROVE  \E p \in Requests : Tends(p, r)'
    BY DEF Tended
  <2>1. CASE Tends(q, r)'
    BY <2>1
  <2>2. CASE r \in RUNS /\ run[r].status = "running" /\ ~Tends(q, r)
    <3>1. r \notin takenOver
      BY DEF Steady
    <3>2. PICK p \in Requests : Tends(p, r)
      BY <2>2, <3>1 DEF InOrder, Tended
    <3> QED BY <2>2, <3>2, OthersHandle
  <2> QED BY <2>1, <2>2 DEF Attended
<1>5. DoneHasResult'
  <2>1. ASSUME NEW r
        PROVE  BetweenWrites(r) <=> \E p \in Requests : Between(p, r)
    BY DEF BetweenWrites, Between
  <2>2. ASSUME NEW r, NEW p \in Requests, Between(p, r)'
        PROVE  BetweenWrites(r)'
    BY <2>2 DEF BetweenWrites, Between
  <2> SUFFICES ASSUME NEW r \in RUNS', r \notin takenOver', run'[r].status = "done",
                      run'[r].result = "none"
               PROVE  BetweenWrites(r)'
    BY DEF DoneHasResult
  <2>3. CASE Between(q, r)'
    BY <2>2, <2>3
  <2>4. CASE r \in RUNS /\ run[r].status = "done" /\ ~Between(q, r) /\ run[r].result = "none"
    <3>1. r \notin takenOver
      BY DEF Steady
    <3>2. PICK p \in Requests : Between(p, r)
      BY <2>1, <2>4, <3>1 DEF InOrder, DoneHasResult
    <3> QED BY <2>2, <2>4, <3>2, OthersHandle
  <2> QED BY <2>3, <2>4 DEF Concluded
<1>6. Backed'
  <2> SUFFICES ASSUME NEW k \in Keys, IDEMPOTENCY'[k] # Nobody
               PROVE  \E p \in Requests : /\ Launched(p)' /\ request'[p].run = IDEMPOTENCY'[k].run
                                          /\ Body[p] = IDEMPOTENCY'[k].body
    BY DEF Backed, Ran
  <2>1. CASE IDEMPOTENCY'[k] = IDEMPOTENCY[k]
    BY <2>1, RanStays DEF InOrder, Backed
  <2>2. CASE /\ Launched(q)' /\ request'[q].run = IDEMPOTENCY'[k].run
             /\ Body[q] = IDEMPOTENCY'[k].body
    BY <2>2
  <2> QED BY <2>1, <2>2 DEF Sourced
<1>7. Resulted'
  <2> SUFFICES ASSUME NEW r \in Requests, r \notin takenOver', run'[r].result \in Bodies
               PROVE  \E p \in Requests : /\ Launched(p)' /\ request'[p].run = r
                                          /\ Body[p] = run'[r].result
    BY DEF Resulted, Ran, Bodies
  <2>1. CASE run'[r].result = run[r].result
    <3>1. Ran(r, run[r].result)
      BY <2>1 DEF Steady, InOrder, Resulted
    <3> QED BY <2>1, <3>1, RanStays
  <2>2. CASE Launched(q)' /\ request'[q].run = r /\ Body[q] = run'[r].result
    BY <2>2
  <2> QED BY <2>1, <2>2 DEF Sourced
<1>8. ASSUME NEW p \in Requests
      PROVE  Shows(p)'
  <2>1. CASE p = q
    BY <2>1
  <2>2. CASE p # q
    <3>1. request'[p] = request[p] /\ worker'[p] = worker[p]
      BY <2>2, OthersHandle
    <3>2. ASSUME NEW r \in Requests, Handles(p, r), r \notin takenOver'
          PROVE  run'[r] = run[r] /\ r \notin takenOver
      BY <2>2, <3>2 DEF Steady, Writes, Sole
    <3>3. /\ Launched(p) \/ Held(p) => request[p].run \in Requests
          /\ request[p].pc = "superseding" => request[p].was \in Requests
          /\ request[p].pc = "noting" => Held(p)
      BY DEF Typed, Placed, Held, Holding
    <3>4. Shows(p)
      BY DEF InOrder
    <3>5. Launched(p)' <=> Launched(p)
      BY <3>1 DEF Launched, At
    <3>6. Launched(p) /\ request[p].run \notin takenOver' =>
            run'[request[p].run] = run[request[p].run] /\ request[p].run \notin takenOver
      BY <3>2, <3>3 DEF Handles
    <3>7. request[p].pc = "superseding" /\ request[p].was \notin takenOver' =>
            run'[request[p].was] = run[request[p].was] /\ request[p].was \notin takenOver
      BY <3>2, <3>3 DEF Handles
    <3>8. request[p].pc = "noting" /\ request[p].run \notin takenOver' =>
            run'[request[p].run] = run[request[p].run] /\ request[p].run \notin takenOver
      BY <3>2, <3>3 DEF Handles
    <3> QED BY <3>1, <3>4, <3>5, <3>6, <3>7, <3>8 DEF Shows, At
  <2> QED BY <2>1, <2>2
<1>9. ASSUME NEW p \in Requests
      PROVE  Told(p)'
  <2>1. CASE p = q
    BY <2>1
  <2>2. CASE p # q
    <3>1. request'[p] = request[p] /\ Told(p) /\ takenOver \subseteq takenOver'
      BY <2>2, OthersHandle DEF InOrder, Steady
    <3>2. request[p].pc = "awaiting" =>
            \E s \in Requests : /\ Launched(s)' /\ request'[s].run = request[p].run
                                /\ Body[s] = Body[p]
      BY <3>1, RanStays DEF Told
    <3>3. request'[p].pc = "awaiting" => Ran(request[p].run, Body[p])'
      BY <3>1, <3>2 DEF Ran
    <3> QED BY <3>1, <3>3 DEF Told, Bodies
  <2> QED BY <2>1, <2>2
<1> QED BY <1>1, <1>2, <1>3, <1>4, <1>5, <1>6, <1>7, <1>8, <1>9 DEF InOrder

--------------------------------------------------------------------------------
(* Every step of a thread is orderly.                                       *)

LEMMA OwnRun ==
  ASSUME Typed, InOrder, NEW q \in Requests
  PROVE  /\ \A r \in Requests : Handles(q, r) =>
              /\ Sole(q, r)
              /\ r \notin takenOver => /\ r \in RUNS /\ run[r].status # "awaiting_customer"
                                       /\ run[r].result # "cancelled"
         /\ request[q].got # "none" \/ request[q].answer = "unbound" =>
              request[q].pc \in {"responding", "answered"}
         /\ Shows(q) /\ Told(q)
  BY DEF InOrder, Alone, Kept, Quiet, Told

\* A turn that changes no RunState and takes up none.
LEMMA TurnOrderly ==
  ASSUME Typed, InOrder, NEW q \in Requests,
         NEW pc, NEW r, NEW pending, NEW answer, NEW got, Thread(q, pc, r, pending, answer, got),
         {request[q].pc, pc} \cap {"superseding", "noting"} = {},
         Held(q) \/ Launched(q) \/ request[q].answer = "unbound" => r = request[q].run,
         Chats(q) /\ pc \in Holding => Held(q),
         Held(q) => pc \in Holding \/ answer = "unbound",
         request[q].answer = "unbound" => answer = "unbound",
         \A k \in Keys : IDEMPOTENCY'[k] \in {IDEMPOTENCY[k], Nobody},
         UNCHANGED <<run, RUNS, worker, takenOver>>,
         Told(q)'
  PROVE  Orderly(q)
<1>1. /\ request'[q].pc = pc /\ request'[q].run = r /\ request'[q].answer = answer
      /\ \A p \in Requests \ {q} : request'[p] = request[p]
      /\ Launched(q)' <=> Launched(q)
  BY DEF Thread, Launched, At
<1>2. Held(q)' => Held(q)
  BY <1>1 DEF Held, Chats
<1>3. \A s \in Requests : Handles(q, s)' => Handles(q, s)
  BY <1>1, <1>2 DEF Handles
<1>4. \A s \in Requests : Tends(q, s) => Tends(q, s)'
  BY <1>1 DEF Tends, Held, Chats, At
<1>5. \A s : ~Between(q, s) /\ ~Between(q, s)'
  BY <1>1 DEF Between
<1>6. Steady(q)
  BY <1>1 DEF Steady
<1>7. Grabs(q)
  BY <1>3, OwnRun DEF Grabs
<1>8. Writes(q)
  BY DEF Writes
<1>9. RUNS \subseteq Requests
  BY DEF Typed, TypeOK
<1>10. Attended(q)
  BY <1>4, <1>9 DEF Attended
<1>11. Concluded(q)
  BY <1>5 DEF Concluded
<1>12. Sourced(q)
  BY DEF Sourced
<1>13. Shows(q)'
  <2>1. Launched(q) => request'[q].run = request[q].run /\ Shows(q)
    BY <1>1, OwnRun
  <2> QED BY <1>1, <2>1 DEF Shows, At
<1> QED BY <1>6, <1>7, <1>8, <1>10, <1>11, <1>12, <1>13 DEF Orderly

\* The message that takes the pending RunState.
LEMMA TakesOrderly ==
  ASSUME Typed, InOrder, Fresh, NEW q \in Requests, NEW r \in Requests, Takes(q, r),
         NEW pc, NEW s, NEW pending, NEW status, NEW intervention, NEW result,
         Thread(q, pc, s, pending, request[q].answer, request[q].got),
         State(r, status, intervention, result),
         \/ /\ pc \in {"routing", "validating"} /\ s = r
            /\ status = "running" /\ result = "none"
         \/ pc = "superseding" /\ s = request[q].run /\ status = "done" /\ result = run[r].result
  PROVE  Orderly(q)
<1>1. /\ Chats(q) /\ request[q].pc = "idle" /\ r \in RUNS /\ RUNS \subseteq Requests
      /\ takenOver \subseteq takenOver' /\ takenOver' \subseteq takenOver \cup {r}
      /\ r \notin takenOver' => run[r].status = "awaiting_customer"
      /\ request'[q].was = r
      /\ UNCHANGED <<RUNS, console_in, IDEMPOTENCY, aged, worker, employee, cookie>>
  BY DEF Takes, Typed, TypeOK
<1>2. /\ request'[q].pc = pc /\ request'[q].run = s
      /\ request'[q].answer = request[q].answer /\ request'[q].got = request[q].got
      /\ \A p \in Requests \ {q} : request'[p] = request[p]
      /\ run'[r].status = status /\ run'[r].result = result
      /\ \A p \in Requests \ {r} : run'[p] = run[p]
  BY DEF Thread, State
<1>3. ~Launched(q) /\ ~Launched(q)' /\ ~Held(q)
  BY <1>1, HeldUnlaunched DEF Launched, At, Held, Holding
<1>4. request[q].got = "none" /\ request[q].answer # "unbound"
  BY <1>1, OwnRun
<1>5. \A p : Handles(q, p)' => p = r
  BY <1>1, <1>2, <1>3 DEF Handles, Held, Chats, Holding
<1>6. \A p : ~Tends(q, p) /\ ~Between(q, p)
  BY <1>1, <1>3, <1>4 DEF Tends, Between
<1>7. r \notin takenOver' => Sole(q, r) /\ run[r].result # "cancelled"
  BY <1>1 DEF Sole, InOrder, Quiet
<1>8. Steady(q)
  BY <1>1, <1>2, <1>3 DEF Steady
<1>9. Grabs(q)
  BY <1>1, <1>2, <1>5, <1>7 DEF Grabs
<1>10. Writes(q)
  BY <1>1, <1>2, <1>7 DEF Writes
<1>11. pc \in {"routing", "validating"} => Tends(q, r)'
  BY <1>1, <1>2 DEF Tends, Held, Chats, Holding
<1>12. Attended(q)
  BY <1>1, <1>2, <1>6, <1>11 DEF Attended
<1>13. pc = "superseding" => Between(q, r)'
  BY <1>1, <1>2 DEF Between
<1>14. Concluded(q)
  BY <1>1, <1>2, <1>6, <1>13 DEF Concluded
<1>15. "none" \notin Bodies
  BY ServiceAssumptions DEF ServiceAssumptions, Bodies
<1>16. Sourced(q)
  BY <1>1, <1>2, <1>15 DEF Sourced
<1>17. Shows(q)'
  BY <1>1, <1>2, <1>3 DEF Shows
<1>18. Told(q)'
  BY <1>2, <1>4, <1>15 DEF Told, Bodies
<1> QED BY <1>8, <1>9, <1>10, <1>12, <1>14, <1>16, <1>17, <1>18 DEF Orderly

\* The message that registers a RunState of its own, and may cancel another.
LEMMA OpensOrderly ==
  ASSUME Typed, InOrder, Fresh, NEW q \in Requests, NEW pc \in {"routing", "validating"},
         NEW was, NEW pending, Opens(q, pc, was, pending),
         \/ request[q].pc = "idle" /\ run' = run
         \/ LET r == request[q].was IN
              /\ request[q].pc = "superseding"
              /\ r \in Requests /\ State(r, run[r].status, run[r].intervention, "cancelled")
  PROVE  Orderly(q)
<1> DEFINE r == request[q].was
<1>1. /\ Chats(q) /\ request[q].pc \in {"idle", "superseding"} /\ RUNS' = RUNS \cup {q}
      /\ RUNS \subseteq Requests
      /\ UNCHANGED <<console_in, IDEMPOTENCY, aged, worker, employee, cookie, takenOver>>
  BY DEF Opens, Typed, TypeOK
<1>2. /\ request'[q].pc = pc /\ request'[q].run = q
      /\ request'[q].answer = request[q].answer /\ request'[q].got = request[q].got
      /\ \A p \in Requests \ {q} : request'[p] = request[p]
  BY DEF Opens, Thread
<1>3. ~Launched(q) /\ ~Launched(q)' /\ ~Held(q)
  BY <1>1, HeldUnlaunched DEF Launched, At, Held, Holding
<1>4. request[q].got = "none" /\ request[q].answer # "unbound"
  BY <1>1, OwnRun
<1>5. ~Born(q)
  BY <1>1 DEF Born
<1>6. Sole(q, q) /\ run[q].status = "running" /\ run[q].result = "none" /\ r # q
      /\ q \notin RUNS
  BY <1>5 DEF Fresh, Sole, Handles
<1>7. /\ run'[q] = run[q]
      /\ \A p \in Requests : run'[p] # run[p] =>
           /\ p = r /\ request[q].pc = "superseding"
           /\ run'[p].status = run[p].status /\ run'[p].result = "cancelled"
  BY <1>6 DEF State
<1>8. \A p \in Requests : run'[p] # run[p] =>
        /\ Sole(q, p)
        /\ p \notin takenOver => run[p].result # "cancelled" /\ run[p].status = "done"
  BY <1>7, OwnRun DEF Handles, Shows
<1>9. \A p : Handles(q, p)' => p = q
  BY <1>1, <1>2, <1>3 DEF Handles
<1>10. \A p : ~Tends(q, p)
  BY <1>1, <1>3, <1>4 DEF Tends
<1>11. \A p : Between(q, p) => p = r /\ request[q].pc = "superseding"
  BY <1>1 DEF Between
<1>12. Steady(q)
  BY <1>1, <1>2, <1>3 DEF Steady
<1>13. Grabs(q)
  BY <1>1, <1>6, <1>7, <1>9 DEF Grabs
<1>14. Writes(q)
  BY <1>1, <1>7, <1>8 DEF Writes
<1>15. Tends(q, q)'
  BY <1>1, <1>2 DEF Tends, Held, Chats, Holding
<1>16. Attended(q)
  BY <1>1, <1>7, <1>8, <1>10, <1>15 DEF Attended
<1>17. request[q].pc = "superseding" => run'[r].result = "cancelled"
  BY <1>1 DEF State
<1>18. Concluded(q)
  BY <1>1, <1>6, <1>7, <1>11, <1>17 DEF Concluded
<1>19. "none" \notin Bodies /\ "cancelled" \notin Bodies
  BY ServiceAssumptions DEF ServiceAssumptions, Bodies
<1>20. Sourced(q)
  BY <1>1, <1>7, <1>19 DEF Sourced
<1>21. Shows(q)'
  BY <1>2, <1>3 DEF Shows
<1>22. Told(q)'
  BY <1>2, <1>4, <1>19 DEF Told, Bodies
<1> QED BY <1>12, <1>13, <1>14, <1>16, <1>18, <1>20, <1>21, <1>22 DEF Orderly

LEMMA ArrivesOrderly ==
  ASSUME Typed, InOrder, Fresh, NEW q \in Requests, Arrives(q)
  PROVE  Orderly(q)
<1>1. CASE InvokeArrives(q)
  <2>1. PICK pc \in {"starting", "answered"}, answer \in {request[q].answer, "refused"} :
          Thread(q, pc, request[q].run, request[q].pending, answer, request[q].got)
    BY <1>1, InvokeForm
  <2>2. /\ ~Chats(q) /\ request[q].pc = "idle"
        /\ UNCHANGED <<run, RUNS, console_in, IDEMPOTENCY, aged, worker, employee, cookie,
                       takenOver>>
    BY <1>1, InvokeForm
  <2>3. request[q].got = "none" /\ request[q].answer # "unbound" /\ "none" \notin Bodies
    BY <2>2, OwnRun, ServiceAssumptions DEF ServiceAssumptions, Bodies
  <2>4. Told(q)'
    BY <2>1, <2>3 DEF Told, Thread, Bodies
  <2> QED BY <2>1, <2>2, <2>3, <2>4, TurnOrderly DEF Held, Holding
<1>2. CASE ChatResumes(q)
  <2>1. PICK r \in Requests, pc \in {"routing", "validating"}, pending \in Someone :
          Resumes(q, r, pc, pending)
    BY <1>2, ResumesForm
  <2> QED BY <2>1, TakesOrderly DEF Resumes
<1>3. CASE ChatSupersedes(q)
  <2>1. PICK r \in Requests : Supersedes(q, r)
    BY <1>3, SupersedesForm
  <2> QED BY <2>1, TakesOrderly DEF Supersedes
<1>4. CASE ChatOpens(q)
  <2>1. PICK pc \in {"routing", "validating"}, pending \in Someone :
          Opens(q, pc, cookie[Owner[q]], pending)
    BY <1>4, OpensForm
  <2>2. request[q].pc = "idle" /\ run' = run
    BY <1>4, OpensForm
  <2> QED BY <2>1, <2>2, OpensOrderly
<1> QED BY <1>1, <1>2, <1>3, <1>4 DEF Arrives

LEMMA AnsweringOrderly ==
  ASSUME Typed, InOrder, NEW q \in Requests, Answering(q)
  PROVE  Orderly(q)
<1> DEFINE r == request[q].run
<1>0. PICK pc, status, answer, final, got : Replies(q, pc, status, answer, final, got)
  BY RepliesForm
<1>1. /\ Held(q) /\ r \in Requests
      /\ run'[r].status = status /\ run'[r].result = run[r].result
      /\ \A p \in Requests \ {r} : run'[p] = run[p]
      /\ status \in {"awaiting_customer", "policy_blocked", "done", "error"}
      /\ pc \in {"noting", "responding"} /\ (status = "done" => pc = "noting")
      /\ (status = "awaiting_customer" => pc = "responding")
      /\ UNCHANGED <<RUNS, console_in, IDEMPOTENCY, aged, worker, employee, cookie, takenOver>>
  BY <1>0 DEF Replies, State
<1>2. /\ request'[q].pc = pc /\ request'[q].run = r /\ request'[q].answer = answer
      /\ answer # "unbound" /\ request'[q].got \in {"none", request[q].got}
      /\ \A p \in Requests \ {q} : request'[p] = request[p]
  BY <1>0 DEF Replies, Turn, Thread
<1>3. ~Launched(q) /\ ~Launched(q)' /\ request[q].pc \notin {"superseding", "responding", "answered"}
  BY <1>1, HeldUnlaunched DEF Launched, At, Held, Holding
<1>4. request'[q].got = "none" /\ "none" \notin Bodies
  BY <1>2, <1>3, OwnRun, ServiceAssumptions DEF ServiceAssumptions, Bodies
<1>5. /\ Sole(q, r)
      /\ r \notin takenOver => r \in RUNS /\ run[r].result # "cancelled"
  BY <1>1, OwnRun DEF Handles
<1>6. \A p : Handles(q, p)' => p = r /\ pc = "noting"
  BY <1>1, <1>2, <1>3 DEF Handles, Held, Holding
<1>7. \A p : Tends(q, p) \/ Between(q, p) => p = r
  BY <1>3 DEF Tends, Between
<1>8. RUNS \subseteq Requests
  BY DEF Typed, TypeOK
<1> HIDE DEF r
<1>9. Steady(q)
  BY <1>1, <1>2, <1>3 DEF Steady
<1>10. Grabs(q)
  BY <1>1, <1>5, <1>6 DEF Grabs
<1>11. Writes(q)
  BY <1>1, <1>5 DEF Writes
<1>12. Attended(q)
  BY <1>1, <1>7, <1>8 DEF Attended
<1>13. \A s : s = r /\ pc = "noting" => Between(q, s)'
  BY <1>2 DEF Between, r
<1>14. Concluded(q)
  BY <1>1, <1>7, <1>8, <1>13 DEF Concluded
<1>15. Sourced(q)
  BY <1>1 DEF Sourced
<1>16. Shows(q)'
  BY <1>1, <1>2, <1>3 DEF Shows
<1>17. Told(q)'
  BY <1>1, <1>2, <1>4 DEF Told, Bodies
<1> QED BY <1>9, <1>10, <1>11, <1>12, <1>14, <1>15, <1>16, <1>17 DEF Orderly

LEMMA NotesOrderly ==
  ASSUME Typed, InOrder, NEW q \in Requests, ChatNotes(q)
  PROVE  Orderly(q)
<1> DEFINE r == request[q].run
<1>1. /\ request[q].pc = "noting" /\ Held(q) /\ r \in Requests
      /\ run'[r].status = run[r].status /\ run'[r].result = "note"
      /\ \A p \in Requests \ {r} : run'[p] = run[p]
      /\ UNCHANGED <<RUNS, console_in, IDEMPOTENCY, aged, worker, employee, cookie, takenOver>>
  BY NotesForm DEF State
<1>2. /\ request'[q].pc = "responding" /\ request'[q].run = r
      /\ request'[q].answer = request[q].answer /\ request'[q].got = request[q].got
      /\ \A p \in Requests \ {q} : request'[p] = request[p]
  BY NotesForm DEF Turn, Thread
<1>3. ~Launched(q) /\ ~Launched(q)'
  BY <1>1, HeldUnlaunched DEF Launched, At, Held, Holding
<1>4. request[q].got = "none" /\ {"none", "note"} \cap Bodies = {}
  BY <1>1, OwnRun, ServiceAssumptions DEF ServiceAssumptions, Bodies
<1>5. /\ Sole(q, r)
      /\ r \notin takenOver => run[r].result # "cancelled" /\ run[r].status # "running"
  BY <1>1, OwnRun DEF Handles, Shows
<1>6. \A p : ~Handles(q, p)'
  BY <1>2, <1>3 DEF Handles, Held, Holding
<1>7. \A p : Tends(q, p) \/ Between(q, p) => p = r
  BY <1>1 DEF Tends, Between
<1>8. RUNS \subseteq Requests
  BY DEF Typed, TypeOK
<1> HIDE DEF r
<1>9. Steady(q)
  BY <1>1, <1>2, <1>3 DEF Steady
<1>10. Grabs(q)
  BY <1>6 DEF Grabs
<1>11. Writes(q)
  BY <1>1, <1>5 DEF Writes
<1>12. Attended(q)
  BY <1>1, <1>5, <1>7, <1>8 DEF Attended
<1>13. Concluded(q)
  BY <1>1, <1>7, <1>8 DEF Concluded
<1>14. Sourced(q)
  BY <1>1, <1>4 DEF Sourced
<1>15. Shows(q)'
  BY <1>2, <1>3 DEF Shows
<1>16. Told(q)'
  BY <1>2, <1>4 DEF Told, Bodies
<1> QED BY <1>9, <1>10, <1>11, <1>12, <1>13, <1>14, <1>15, <1>16 DEF Orderly

\* The run found may be the one the request came with: then some other worker
\* handles it, so a message has taken it over.
LEMMA FindsOrderly ==
  ASSUME Typed, InOrder, Fresh, NEW q \in Requests, LookupFinds(q)
  PROVE  Orderly(q)
<1> DEFINE item == IDEMPOTENCY[Key[q]]
           own == request[q].run
<1>1. /\ request[q].pc = "starting" /\ Key[q] \in Keys /\ item # Nobody
      /\ item.body = Body[q] /\ item.run \in Requests
      /\ RUNS' = RUNS \ ({own} \ {item.run}) /\ RUNS \subseteq Requests
      /\ UNCHANGED <<run, console_in, IDEMPOTENCY, aged, worker, employee, cookie, takenOver>>
  BY FindsForm DEF Typed, TypeOK
<1>2. /\ request'[q].pc = IF Chats(q) THEN "awaiting" ELSE "answered"
      /\ request'[q].run = item.run /\ request'[q].got = request[q].got
      /\ request'[q].answer = IF Chats(q) THEN "none" ELSE "accepted"
      /\ \A p \in Requests \ {q} : request'[p] = request[p]
  BY FindsForm DEF Gets, Turn, Thread
<1>3. ~Launched(q) /\ ~Launched(q)'
  BY <1>1, HeldUnlaunched DEF Launched, At, Holding
<1>4. request[q].got = "none" /\ request[q].answer # "unbound" /\ "none" \notin Bodies
  BY <1>1, OwnRun, ServiceAssumptions DEF ServiceAssumptions, Bodies
<1>5. PICK p \in Requests : Launched(p) /\ request[p].run = item.run /\ Body[p] = Body[q]
  BY <1>1 DEF InOrder, Backed, Ran
<1>6. \/ Handles(q, own) /\ own \in Requests
      \/ ~Chats(q) /\ own = Nobody /\ ~Held(q)
  <2>1. CASE Chats(q)
    BY <1>1, <2>1 DEF Handles, Held, Holding, Typed, Placed
  <2>2. CASE ~Chats(q)
    BY <1>1, <2>2 DEF Fresh, Held
  <2> QED BY <2>1, <2>2
<1>7. Nobody \notin Requests
  BY ServiceAssumptions DEF ServiceAssumptions
<1>8. \A s \in Requests : Handles(q, s) => Sole(q, s)
  BY OwnRun
<1>9. Held(q) /\ own = item.run => own \in takenOver
  BY <1>1, <1>3, <1>5, <1>8 DEF Handles, Sole
<1>10. \A s : ~Handles(q, s)'
  BY <1>2, <1>3 DEF Handles, Held, Holding
<1>11. \A s : ~Between(q, s)
  BY <1>1 DEF Between
<1>12. \A s \in RUNS' \ takenOver : ~Tends(q, s)
  BY <1>1, <1>3, <1>4, <1>9 DEF Tends
<1>13. \A s \in RUNS \ RUNS' : Sole(q, s)
  BY <1>1, <1>6, <1>7, <1>8
<1>14. Ran(item.run, Body[q])'
  <2>1. Launched(p)' /\ request'[p].run = item.run
    BY <1>1, <1>2, <1>5 DEF Launched, At
  <2>2. \E s \in Requests : Launched(s)' /\ request'[s].run = request'[q].run /\ Body[s] = Body[q]
    BY <1>2, <1>5, <2>1
  <2>3. item' = item
    BY <1>1
  <2> QED BY <1>2, <2>2, <2>3 DEF Ran
<1>15. item' = item
  BY <1>1
<1>16. Ran(request[q].run, Body[q])'
  BY <1>2, <1>14, <1>15 DEF Ran
<1> HIDE DEF item, own
<1>17. Steady(q)
  BY <1>1, <1>2, <1>3 DEF Steady
<1>18. Grabs(q)
  BY <1>10 DEF Grabs
<1>19. Writes(q)
  BY <1>1, <1>13 DEF Writes
<1>20. Attended(q)
  BY <1>1, <1>12 DEF Attended
<1>21. Concluded(q)
  BY <1>1, <1>11 DEF Concluded
<1>22. Sourced(q)
  BY <1>1 DEF Sourced
<1>23. Shows(q)'
  BY <1>2, <1>3 DEF Shows
<1>24. Told(q)'
  BY <1>2, <1>4, <1>16 DEF Told, Bodies
<1> QED BY <1>17, <1>18, <1>19, <1>20, <1>21, <1>22, <1>23, <1>24 DEF Orderly

LEMMA LaunchOrderly ==
  ASSUME Typed, InOrder, Fresh, NEW q \in Requests, Launch(q)
  PROVE  Orderly(q)
<1>0. PICK r, intervention : Begins(q, r, intervention)
  BY LaunchForm
<1>1. /\ request[q].pc = "missed" /\ Key[q] \in Keys /\ r \in Requests
      /\ r = IF Chats(q) THEN request[q].run ELSE q
      /\ RUNS' = IF Chats(q) THEN RUNS ELSE RUNS \cup {q}
      /\ run'[r].status = "running" /\ run'[r].result = "none"
      /\ \A p \in Requests \ {r} : run'[p] = run[p]
      /\ IDEMPOTENCY' = [IDEMPOTENCY EXCEPT ![Key[q]] = [body |-> Body[q], run |-> r]]
      /\ UNCHANGED <<console_in, employee, cookie, takenOver>>
  BY <1>0 DEF Begins, State
<1>2. /\ request'[q].pc = IF Chats(q) THEN "awaiting" ELSE "answered"
      /\ request'[q].run = r /\ request'[q].got = request[q].got
      /\ request'[q].answer = IF Chats(q) THEN "none" ELSE "accepted"
      /\ \A p \in Requests \ {q} : request'[p] = request[p]
      /\ \A p \in Requests \ {q} : worker'[p] = worker[p]
      /\ worker'[q].pc = "starting"
  BY <1>0 DEF Begins, Gets, Turn, Thread, Worker
<1>3. ~Launched(q) /\ Launched(q)' /\ RUNS \subseteq Requests
  BY <1>1, <1>2, HeldUnlaunched DEF Launched, At, Holding, Typed, TypeOK
<1>4. request[q].got = "none" /\ request[q].answer # "unbound" /\ "none" \notin Bodies
  BY <1>1, OwnRun, ServiceAssumptions DEF ServiceAssumptions, Bodies
<1>5. /\ Sole(q, r)
      /\ r \notin takenOver => r \in RUNS' /\ run[r].result # "cancelled"
  <2>1. CASE Chats(q)
    <3>1. Handles(q, r)
      BY <1>1, <2>1 DEF Handles, Held, Holding
    <3> QED BY <1>1, <2>1, <3>1, OwnRun
  <2>2. CASE ~Chats(q)
    <3>1. ~Born(q) /\ r = q /\ q \in RUNS'
      BY <1>1, <1>3, <2>2 DEF Born
    <3> QED BY <3>1 DEF Fresh, Sole, Handles
  <2> QED BY <2>1, <2>2
<1>6. \A p : Handles(q, p)' => p = r
  BY <1>2 DEF Handles
<1>7. \A p : Tends(q, p) => p = r
  BY <1>1, <1>3, <1>4 DEF Tends, Held
<1>8. Tends(q, r)'
  BY <1>2, <1>3 DEF Tends, At
<1>9. \A p : ~Between(q, p)
  BY <1>1 DEF Between
<1>10. Ran(r, Body[q])'
  BY <1>2, <1>3 DEF Ran
<1>11. Steady(q)
  BY <1>1, <1>2, <1>3 DEF Steady
<1>12. Grabs(q)
  BY <1>1, <1>5, <1>6 DEF Grabs
<1>13. RUNS \subseteq RUNS' /\ \A p \in RUNS' : p = r \/ p \in RUNS
  BY <1>1
<1>14. Writes(q)
  BY <1>1, <1>5, <1>13 DEF Writes
<1>15. Attended(q)
  BY <1>1, <1>3, <1>7, <1>8, <1>13 DEF Attended
<1>16. Concluded(q)
  BY <1>1, <1>3, <1>9, <1>13 DEF Concluded
<1>17. Sourced(q)
  <2>1. \A k \in Keys : \/ IDEMPOTENCY'[k] = IDEMPOTENCY[k]
                        \/ IDEMPOTENCY'[k].run = r /\ IDEMPOTENCY'[k].body = Body[q]
    BY <1>1 DEF Typed, TypeOK
  <2> QED BY <1>1, <1>2, <1>3, <1>4, <2>1 DEF Sourced
<1>18. Shows(q)'
  BY <1>2 DEF Shows, At
<1>19. Told(q)'
  BY <1>2, <1>3, <1>4 DEF Told, Bodies, Ran
<1> QED BY <1>11, <1>12, <1>14, <1>15, <1>16, <1>17, <1>18, <1>19 DEF Orderly

LEMMA AwaitOrderly ==
  ASSUME Typed, InOrder, NEW q \in Requests, AwaitEnds(q)
  PROVE  Orderly(q)
<1> DEFINE r == request[q].run
<1>0. PICK answer, got : Returns(q, answer, got)
  BY AwaitForm
<1>1. /\ Chats(q) /\ request[q].pc = "awaiting" /\ r \in Requests
      /\ answer # "unbound" /\ got \in {"none", run[r].result}
      /\ Thread(q, "responding", r, request[q].pending, answer, got)
      /\ UNCHANGED <<run, RUNS, console_in, IDEMPOTENCY, aged, worker, employee, cookie, takenOver>>
  BY <1>0 DEF Returns, Turn
<1>2. request[q].answer # "unbound" /\ ~Held(q) /\ "none" \notin Bodies
  BY <1>1, OwnRun, ServiceAssumptions DEF ServiceAssumptions, Bodies, Held, Holding
<1>3. got \in Bodies => got = Body[q] \/ r \in takenOver
  <2> SUFFICES ASSUME got \in Bodies, r \notin takenOver PROVE got = Body[q]
    OBVIOUS
  <2>1. PICK p \in Requests : Launched(p) /\ request[p].run = r /\ Body[p] = Body[q]
    BY <1>1, OwnRun DEF Told, Ran
  <2>2. PICK s \in Requests : Launched(s) /\ request[s].run = r /\ Body[s] = got
    BY <1>1, <1>2 DEF InOrder, Resulted, Ran
  <2>3. p = s
    BY <1>1, <2>1, <2>2 DEF InOrder, Alone, Sole, Handles
  <2> QED BY <2>1, <2>2, <2>3
<1>4. Told(q)'
  BY <1>1, <1>2, <1>3 DEF Told, Thread, Bodies
<1> HIDE DEF r
<1> QED BY <1>1, <1>2, <1>4, TurnOrderly DEF r, Holding

LEMMA ServesOrderly ==
  ASSUME Typed, InOrder, Fresh, NEW q \in Requests, Serve(q)
  PROVE  Orderly(q)
<1>1. CASE ChatCancels(q)
  BY <1>1, CancelsForm, OpensOrderly
<1>2. CASE ChatUnbound(q)
  <2>1. Told(q)' /\ Held(q) /\ request[q].pc = "validating"
    BY <1>2, UnboundForm, ServiceAssumptions
    DEF ServiceAssumptions, Told, Turn, Thread, Bodies
  <2> QED BY <1>2, <2>1, UnboundForm, TurnOrderly, OwnRun DEF Turn, Holding
<1>3. CASE GoesOn(q)
  <2>1. PICK pc, pending : Proceeds(q, pc, pending)
    BY <1>3, GoesOnForm
  <2>2. /\ request[q].pc \in {"routing", "validating", "starting"}
        /\ pc \in {"validating", "starting", "missed"}
        /\ Thread(q, pc, request[q].run, pending, request[q].answer, request[q].got)
        /\ UNCHANGED <<run, RUNS, worker, takenOver>>
        /\ \A k \in Keys : IDEMPOTENCY'[k] \in {IDEMPOTENCY[k], Nobody}
    BY <2>1 DEF Proceeds, Turn, Typed, TypeOK
  <2>3. request[q].got = "none" /\ request[q].answer # "unbound" /\ "none" \notin Bodies
    BY <2>2, OwnRun, ServiceAssumptions DEF ServiceAssumptions, Bodies
  <2>4. Told(q)'
    BY <2>2, <2>3 DEF Told, Thread, Bodies
  <2> QED BY <2>2, <2>3, <2>4, TurnOrderly DEF Held, Holding
<1>4. CASE ChatResponds(q)
  <2>1. /\ request[q].pc = "responding"
        /\ Thread(q, "answered", request[q].run, request[q].pending, request[q].answer,
                  request[q].got)
        /\ UNCHANGED <<run, RUNS, IDEMPOTENCY, worker, takenOver>>
    BY <1>4, RespondsForm DEF Turn
  <2>2. Told(q)'
    BY <2>1, OwnRun DEF Told, Thread, Bodies
  <2> QED BY <2>1, <2>2, TurnOrderly DEF Held, Holding
<1>5. CASE LookupConflicts(q) /\ ~Chats(q)
  <2>1. /\ request[q].pc = "starting"
        /\ Thread(q, "answered", request[q].run, request[q].pending, "refused", request[q].got)
        /\ UNCHANGED <<run, RUNS, IDEMPOTENCY, worker, takenOver>>
    BY <1>5, ConflictForm DEF Turn
  <2>2. request[q].answer # "unbound"
    BY <2>1, OwnRun
  <2>3. Told(q)'
    BY <2>1, OwnRun DEF Told, Thread, Bodies
  <2> QED BY <1>5, <2>1, <2>2, <2>3, TurnOrderly DEF Held, Holding
<1> QED BY <1>1, <1>2, <1>3, <1>4, <1>5, ServeSplit, AnsweringOrderly, NotesOrderly,
           FindsOrderly, LaunchOrderly, AwaitOrderly

LEMMA WorkOrderly ==
  ASSUME Typed, InOrder, NEW q \in Requests, NEW pc, NEW asked, NEW outcome, NEW status,
         NEW intervention, NEW result,
         Works(q, pc, asked, outcome, status, intervention, result), pc # "none",
         status \in {run[request[q].run].status, "awaiting_human", "running", "done", "error"},
         pc = "ended" => status # "running",
         result \in {run[request[q].run].result, Body[q]},
         request[q].run \notin takenOver =>
           /\ status = "done" => status = run[request[q].run].status \/ result # "none"
           /\ pc \in {"shown", "console"} => status = "awaiting_human"
           /\ pc = "console" => intervention = asked
           /\ pc = "recorded" /\ outcome = "done" => result = Body[q]
  PROVE  Orderly(q)
<1> DEFINE r == request[q].run
<1>1. /\ Launched(q) /\ r \in Requests
      /\ run'[r].status = status /\ run'[r].intervention = intervention
      /\ run'[r].result = result
      /\ \A p \in Requests \ {r} : run'[p] = run[p]
      /\ worker'[q].pc = pc /\ worker'[q].asked = asked /\ worker'[q].outcome = outcome
      /\ \A p \in Requests \ {q} : worker'[p] = worker[p]
      /\ UNCHANGED <<RUNS, IDEMPOTENCY, aged, request, employee, cookie, takenOver>>
  BY DEF Works, Worker, State
<1>2. Launched(q)' /\ RUNS \subseteq Requests
  BY <1>1 DEF Launched, At, Typed, TypeOK
<1>3. ~Held(q) /\ request[q].pc \notin {"superseding", "noting"}
  BY <1>1 DEF Held, Holding, Typed, Placed
<1>4. Body[q] \notin {"none", "cancelled"} /\ Body[q] \in Bodies
  BY ServiceAssumptions DEF ServiceAssumptions, Bodies
<1>5. /\ Sole(q, r)
      /\ r \notin takenOver => /\ r \in RUNS /\ run[r].status # "awaiting_customer"
                               /\ run[r].result # "cancelled"
  BY <1>1, OwnRun DEF Handles
<1>6. \A p : Handles(q, p)' => p = r
  BY <1>1, <1>3 DEF Handles, Held, Chats
<1>7. \A p : Tends(q, p) => p = r
  BY DEF Tends
<1>8. \A p : ~Between(q, p)
  BY <1>3 DEF Between
<1>9. pc # "ended" => \A p : p = r => Tends(q, p)'
  BY <1>1, <1>2 DEF Tends, At
<1>10. r' = r
  BY <1>1
<1>11. Steady(q)
  BY <1>1, <1>2 DEF Steady
<1>12. Shows(q)'
  BY <1>1, <1>3, <1>10 DEF Shows, At
<1>13. Told(q)'
  <2>1. Told(q)
    BY OwnRun
  <2>2. request[q].pc = "awaiting" =>
          \E p \in Requests : Launched(p)' /\ request'[p].run = r /\ Body[p] = Body[q]
    BY <1>11, <2>1, RanStays DEF Told
  <2>3. request[q].pc = "awaiting" => Ran(request[q].run, Body[q])'
    BY <1>1, <2>2 DEF Ran
  <2> QED BY <1>1, <2>1, <2>3 DEF Told, Bodies
<1> HIDE DEF r
<1>14. Grabs(q)
  BY <1>1, <1>4, <1>5, <1>6 DEF Grabs, r
<1>15. Writes(q)
  BY <1>1, <1>4, <1>5 DEF Writes, r
<1>16. Attended(q)
  BY <1>1, <1>2, <1>7, <1>9 DEF Attended
<1>17. Concluded(q)
  BY <1>1, <1>2, <1>4, <1>8 DEF Concluded, r
<1>18. Sourced(q)
  BY <1>1, <1>2 DEF Sourced, r
<1> QED BY <1>11, <1>12, <1>13, <1>14, <1>15, <1>16, <1>17, <1>18 DEF Orderly

LEMMA WorksOrderly ==
  ASSUME Typed, InOrder, NEW q \in Requests, Work(q)
  PROVE  Orderly(q)
<1> DEFINE r == request[q].run
<1>1. /\ At(q, "shown") \/ At(q, "console") => Launched(q)
      /\ At(q, "recorded") => Launched(q) /\ worker[q].outcome \in {"done", "error"}
  BY DEF Launched, At, Typed, Placed, TypeOK, WorkerThreads
<1>2. Shows(q) /\ Body[q] # "none"
  BY OwnRun, ServiceAssumptions DEF ServiceAssumptions
<1>3. CASE WorkerStarts(q)
  BY <1>3, StartsForm, WorkOrderly DEF WorksTo
<1>4. CASE Handoff(q)
  BY <1>4, HandoffForm, WorkOrderly
<1>5. CASE ShowIntervention(q)
  BY <1>1, <1>2, <1>5, ShowForm, WorkOrderly DEF Shows
<1>6. CASE ConsoleReads(q)
  BY <1>1, <1>2, <1>6, ReadsForm, WorkOrderly DEF WorksTo, Shows
<1>7. CASE LeaveConsole(q)
  BY <1>7, LeavesForm, WorkOrderly
<1>8. CASE ClearIntervention(q)
  BY <1>8, ClearsForm, WorkOrderly
<1>9. CASE WorkerRecords(q)
  BY <1>9, RecordsForm, WorkOrderly
<1>10. CASE WorkerEnds(q)
  BY <1>1, <1>2, <1>10, EndsForm, WorkOrderly DEF Shows
<1> QED BY <1>3, <1>4, <1>5, <1>6, <1>7, <1>8, <1>9, <1>10 DEF Work

--------------------------------------------------------------------------------
(* The invariant and what it gives.                                         *)

Kempt == Typed /\ Fresh /\ InOrder

LEMMA InitKempt == Init => Kempt
<1> SUFFICES ASSUME Init PROVE Fresh /\ InOrder
  BY InitTyped DEF Kempt
<1>1. /\ \A q \in Requests : ~Held(q) /\ ~Launched(q) /\ request[q].pc = "idle"
                             /\ request[q].got = "none" /\ request[q].answer = "none"
                             /\ request[q].run = Nobody /\ request[q].was = Nobody
                             /\ request[q].pending = Nobody
      /\ \A r \in Requests : run[r].status = "running" /\ run[r].result = "none"
      /\ RUNS = {} /\ \A k \in Keys : IDEMPOTENCY[k] = Nobody
      /\ \A c \in Customers : cookie[c] = Nobody
  BY DEF Init, Held, Holding, Launched, At, NewRunState
<1>2. Nobody \notin Requests /\ "none" \notin Bodies
  BY ServiceAssumptions DEF ServiceAssumptions, Bodies
<1>3. Fresh
  BY <1>1, <1>2 DEF Fresh
<1>4. \A q, r \in Requests : ~Handles(q, r)
  BY <1>1 DEF Handles
<1>5. Alone /\ Quiet /\ Kept
  BY <1>1, <1>4 DEF Alone, Quiet, Kept
<1>6. Tended /\ DoneHasResult /\ Backed /\ Resulted
  BY <1>1, <1>2 DEF Tended, DoneHasResult, Backed, Resulted
<1>7. \A q \in Requests : Shows(q) /\ Told(q)
  BY <1>1, <1>2 DEF Shows, Told
<1> QED BY <1>3, <1>5, <1>6, <1>7 DEF InOrder

\* A step of a thread is orderly, and any other leaves all this as it is.
LEMMA KemptSteps ==
  ASSUME Kempt, [Next]_vars
  PROVE  AsBefore \/ \E q \in Requests : Orderly(q)
  BY NextSplit, OthersLeave, ArrivesOrderly, ServesOrderly, WorksOrderly DEF Kempt

LEMMA SameInOrder ==
  ASSUME Typed, InOrder, AsBefore
  PROVE  InOrder'
<1>1. /\ UNCHANGED <<run, RUNS, IDEMPOTENCY, worker, takenOver>>
      /\ \A q \in Requests :
           /\ request'[q].pc = request[q].pc /\ request'[q].run = request[q].run
           /\ request'[q].was = request[q].was /\ request'[q].answer = request[q].answer
           /\ request'[q].got = request[q].got
  BY DEF AsBefore
<1>2. ASSUME NEW q \in Requests
      PROVE  /\ Launched(q)' <=> Launched(q)
             /\ Held(q)' <=> Held(q)
             /\ At(q, "ended")' <=> At(q, "ended")
  BY <1>1 DEF Launched, Held, At, Chats
<1>3. ASSUME NEW q \in Requests, NEW r
      PROVE  /\ Handles(q, r)' <=> Handles(q, r)
             /\ Tends(q, r)' <=> Tends(q, r)
  BY <1>1, <1>2 DEF Handles, Tends
<1>4. ASSUME NEW r, NEW body
      PROVE  Ran(r, body)' <=> Ran(r, body)
  BY <1>1, <1>2 DEF Ran
<1>5. Alone' /\ Quiet' /\ Kept'
  BY <1>1, <1>3 DEF InOrder, Alone, Sole, Quiet, Kept
<1>6. Tended' /\ DoneHasResult'
  BY <1>1, <1>3 DEF InOrder, Tended, DoneHasResult, BetweenWrites
<1>7. Backed' /\ Resulted'
  <2>1. \A k \in Keys : IDEMPOTENCY[k] # Nobody =>
          \E p \in Requests : /\ Launched(p)' /\ request'[p].run = IDEMPOTENCY[k].run
                              /\ Body[p] = IDEMPOTENCY[k].body
    BY <1>1, <1>2 DEF InOrder, Backed, Ran
  <2>2. \A r \in Requests \ takenOver : run[r].result \in Bodies =>
          \E p \in Requests : /\ Launched(p)' /\ request'[p].run = r
                              /\ Body[p] = run[r].result
    BY <1>1, <1>2 DEF InOrder, Resulted, Ran
  <2> QED BY <1>1, <2>1, <2>2 DEF Backed, Resulted, Ran, Bodies
<1>8. ASSUME NEW q \in Requests PROVE Shows(q)' /\ Told(q)'
  <2>1. Shows(q) /\ Told(q)
    BY DEF InOrder
  <2>2. Shows(q)'
    BY <1>1, <2>1 DEF Shows, Launched, At
  <2>3. request[q].pc = "awaiting" =>
          \E p \in Requests : /\ Launched(p)' /\ request'[p].run = request'[q].run
                              /\ Body[p] = Body[q]
    BY <1>1, <1>2, <2>1 DEF Told, Ran
  <2>4. Told(q)'
    BY <1>1, <2>1, <2>3 DEF Told, Ran, Bodies
  <2> QED BY <2>2, <2>4
<1> QED BY <1>5, <1>6, <1>7, <1>8 DEF InOrder

LEMMA KemptStays == Kempt /\ [Next]_vars => Kempt'
<1> SUFFICES ASSUME Kempt, [Next]_vars PROVE Kempt'
  OBVIOUS
<1>1. Typed' /\ Fresh'
  BY TypedStays, FreshStays DEF Kempt
<1>2. InOrder'
  BY <1>1, KemptSteps, StepInOrder, SameInOrder DEF Kempt
<1> QED BY <1>1, <1>2 DEF Kempt

LEMMA SpecKempt == Spec => []Kempt
  BY InitKempt, KemptStays, PTL DEF Spec

\* Whoever polls a run and reads "done" reads its result, unless a chat request is
\* between its two writes or a message took the run over (app.py:612-613 against
\* 1468-1470, 1521-1523, 1529-1531), with whatever tabs and lost responses.
THEOREM DoneRunsHaveResults == Spec => []DoneHasResult
<1>1. Kempt => DoneHasResult
  BY DEF Kempt, InOrder
<1> QED BY <1>1, SpecKempt, PTL

\* A run that says "running" has a thread at work on it, apart from the two paths
\* named and from one that a message took over.
THEOREM RunsAreTended == Spec => []NoOrphans
<1>1. Kempt => NoOrphans
  <2> SUFFICES ASSUME Kempt, NEW r \in RUNS, r \notin takenOver, run[r].status = "running"
               PROVE  \E q \in Requests :
                        request[q].run = r /\ (Waiting(q) \/ Live(q) \/ Abandoned(q))
    BY DEF NoOrphans
  <2>1. PICK q \in Requests : Tends(q, r)
    BY DEF Kempt, InOrder, Tended
  <2> QED BY <2>1 DEF Tends, Held, Holding, Waiting, Launched, Live, Abandoned, At
<1> QED BY <1>1, SpecKempt, PTL

\* A chat request is answered with the outcome of what it asked for, or its run
\* is one that a message took over.
THEOREM AnswersAreOwn == Spec => []AnswersOwnRequest
<1>1. Kempt => AnswersOwnRequest
  BY DEF Kempt, InOrder, Told, AnswersOwnRequest
<1> QED BY <1>1, SpecKempt, PTL

\* A run that waits in the console can be found, says so and shows what it waits
\* for, unless a message took it over from its worker.
THEOREM HandoffsAreReachable == Spec => []HandoffIsReachable
<1>1. Kempt => HandoffIsReachable
  <2> SUFFICES ASSUME Kempt, NEW q \in Requests, At(q, "console"),
                      request[q].run \notin takenOver
               PROVE  /\ request[q].run \in RUNS
                      /\ run[request[q].run].status = "awaiting_human"
                      /\ run[request[q].run].intervention = worker[q].asked
    BY DEF HandoffIsReachable
  <2>1. Launched(q) /\ request[q].run \in Requests
    BY DEF Kempt, Typed, Placed, Launched, At
  <2>2. Handles(q, request[q].run)
    BY <2>1 DEF Handles
  <2> QED BY <2>1, <2>2 DEF Kempt, InOrder, Kept, Shows
<1> QED BY <1>1, SpecKempt, PTL

\* Two workers at work on one RunState: then a message took it over from a thread
\* that had not let go of it (app.py:1465-1479).
THEOREM WorkersAreAlone == Spec => []OneWorker
<1>1. Kempt => OneWorker
  <2> SUFFICES ASSUME Kempt, NEW p \in Requests, NEW q \in Requests, Live(p), Live(q),
                      request[p].run = request[q].run, request[q].run \notin takenOver
               PROVE  p = q
    BY DEF OneWorker
  <2>1. Launched(p) /\ Launched(q) /\ request[q].run \in Requests
    BY DEF Kempt, Typed, Placed, Live, Launched, At
  <2>2. Handles(p, request[q].run) /\ Handles(q, request[q].run)
    BY <2>1 DEF Handles
  <2> QED BY <2>1, <2>2 DEF Kempt, InOrder, Alone, Sole
<1> QED BY <1>1, SpecKempt, PTL

\* A chat request that was superseded stays as it was cancelled, unless a message
\* with the old cookie takes it over.
THEOREM SupersededStayCancelled == Spec => SupersededStays
<1>1. Kempt /\ [Next]_vars =>
        [\A r \in Requests :
           run[r].result = "cancelled" /\ r \notin takenOver' => run'[r] = run[r]]_vars
  BY KemptSteps DEF Orderly, Writes, AsBefore
<1> QED BY <1>1, SpecKempt, PTL DEF Spec, SupersededStays

================================================================================
