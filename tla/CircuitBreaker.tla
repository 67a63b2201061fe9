----------------------------- MODULE CircuitBreaker ----------------------------
(***************************************************************************)
(* CircuitBreaker of meridian_service/platform.py, as the chat's router     *)
(* uses it: request threads call an operation through it, the operation     *)
(* answers or raises at any later time, and every visit to the breaker's    *)
(* own state is one critical section.  A call the breaker refuses raises    *)
(* CircuitOpen and changes nothing; the chat then ranks artifacts instead.  *)
(*                                                                          *)
(* Time is how long the circuit has been open, up to reset_seconds, beyond  *)
(* which nothing compares it; _failures counts to failure_threshold for the *)
(* same reason.                                                             *)
(***************************************************************************)
EXTENDS Integers

CONSTANTS
  Threads,
  failure_threshold,
  reset_seconds

ASSUME BreakerAssumptions ==
  failure_threshold \in Nat \ {0} /\ reset_seconds \in Nat

VARIABLES
  failures,         \* _failures
  open,             \* _opened_at is not None
  opened_for,       \* seconds since _opened_at, 0 while there is none
  probe_in_flight,  \* _probe_in_flight
  call,             \* what each thread's operation will do: none, answer, raise
  up,               \* TRUE while the dependency answers every call
  old,              \* history: calls in flight that began before the circuit opened
  straggled         \* history: one of them has ended since

breaker == <<failures, open, opened_for, probe_in_flight>>
vars == <<failures, open, opened_for, probe_in_flight, call, up, old, straggled>>

InFlight == {t \in Threads : call[t] # "none"}

TypeOK ==
  /\ failures \in 0 .. failure_threshold
  /\ open \in BOOLEAN
  /\ opened_for \in 0 .. reset_seconds
  /\ probe_in_flight \in BOOLEAN
  /\ call \in [Threads -> {"none", "answer", "raise"}]
  /\ up \in BOOLEAN
  /\ old \subseteq Threads
  /\ straggled \in BOOLEAN

Init ==
  /\ failures = 0 /\ open = FALSE /\ opened_for = 0 /\ probe_in_flight = FALSE
  /\ call = [t \in Threads |-> "none"]
  /\ up = TRUE
  /\ old = {} /\ straggled = FALSE

\* The operation of thread t is under way; what it will do is the dependency's.
Begins(t) ==
  /\ call[t] = "none"
  /\ \E answer \in {"answer", "raise"} :
       /\ up => answer = "answer"
       /\ call' = [call EXCEPT ![t] = answer]

\* call() on a closed circuit.
Admit(t) ==
  /\ ~open
  /\ Begins(t)
  /\ UNCHANGED <<breaker, up, old, straggled>>

\* FAULT: the probe does not mark itself.
Probe_Fault(t) ==
  /\ open /\ opened_for = reset_seconds /\ ~probe_in_flight
  /\ Begins(t)
  /\ UNCHANGED <<breaker, up, old, straggled>>

\* call() once the circuit has been open long enough, nobody else probing.
Probe(t) ==
  /\ open /\ opened_for = reset_seconds /\ ~probe_in_flight
  /\ probe_in_flight' = TRUE
  /\ Begins(t)
  /\ UNCHANGED <<failures, open, opened_for, up, old, straggled>>

\* The history of a call that ends, t being the caller.
Ends(t) ==
  /\ call' = [call EXCEPT ![t] = "none"]
  /\ old' = IF ~open /\ open' THEN InFlight \ {t} ELSE old \ {t}
  /\ straggled' = (open /\ (straggled \/ t \in old))

\* FAULT: a success takes one failure back, of none even.
Succeeds_Fault(t) ==
  /\ call[t] = "answer"
  /\ failures' = failures - 1
  /\ open' = FALSE /\ opened_for' = 0
  /\ probe_in_flight' = FALSE
  /\ Ends(t)
  /\ UNCHANGED up

\* The operation returned.
Succeeds(t) ==
  /\ call[t] = "answer"
  /\ failures' = 0
  /\ open' = FALSE /\ opened_for' = 0
  /\ probe_in_flight' = FALSE
  /\ Ends(t)
  /\ UNCHANGED up

\* FAULT: the circuit opens and its count starts again.
Fails_CountFault(t) ==
  /\ call[t] = "raise"
  /\ probe_in_flight' = FALSE
  /\ failures' = IF failures + 1 < failure_threshold THEN failures + 1 ELSE 0
  /\ IF failures + 1 < failure_threshold
     THEN UNCHANGED <<open, opened_for>>
     ELSE open' = TRUE /\ opened_for' = 0
  /\ Ends(t)
  /\ UNCHANGED up

\* FAULT: a probe that raises stays marked as in flight.
Fails_FlagFault(t) ==
  /\ call[t] = "raise"
  /\ failures' = IF failures < failure_threshold THEN failures + 1 ELSE failures
  /\ IF failures + 1 < failure_threshold
     THEN UNCHANGED <<open, opened_for>>
     ELSE open' = TRUE /\ opened_for' = 0
  /\ Ends(t)
  /\ UNCHANGED <<probe_in_flight, up>>

\* The operation raised: at the threshold the circuit opens, or opens anew.
Fails(t) ==
  /\ call[t] = "raise"
  /\ probe_in_flight' = FALSE
  /\ failures' = IF failures < failure_threshold THEN failures + 1 ELSE failures
  /\ IF failures' = failure_threshold
     THEN open' = TRUE /\ opened_for' = 0
     ELSE UNCHANGED <<open, opened_for>>
  /\ Ends(t)
  /\ UNCHANGED up

Tick ==
  /\ open /\ opened_for < reset_seconds
  /\ opened_for' = opened_for + 1
  /\ UNCHANGED <<failures, open, probe_in_flight, call, up, old, straggled>>

\* The dependency goes down or comes back.
Turns ==
  /\ up' = ~up
  /\ UNCHANGED <<breaker, call, old, straggled>>

Visit(t) == Admit(t) \/ Probe(t)
Complete(t) == Succeeds(t) \/ Fails(t)

Next == Tick \/ Turns \/ \E t \in Threads : Visit(t) \/ Complete(t)

Spec == Init /\ [][Next]_vars

\* Time passes, operations end (the client has a timeout), and requests keep
\* coming on some thread.
LiveSpec ==
  /\ Spec
  /\ WF_vars(Tick)
  /\ \A t \in Threads : WF_vars(Complete(t))
  /\ WF_vars(\E t \in Threads : Visit(t))
--------------------------------------------------------------------------------
(* Properties *)

\* The circuit is open only on account of failure_threshold failures with no
\* success after the last of them.
OpenIsEarned == open => failures = failure_threshold

\* The mark of a probe stands for a call that is under way and began after the
\* circuit opened: a mark without one would keep the circuit open for ever.
MarkIsBacked == probe_in_flight => open /\ \E t \in InFlight : t \notin old

\* Only one probe is under way, unless a call from before the opening has ended
\* since: its end clears the mark of a probe that is not its own.
OneProbe ==
  open /\ ~straggled => \A s, t \in InFlight \ old : s = t

\* When the dependency is back for good, the circuit closes for good.
Recovers == <>[]up => <>[]~open
================================================================================
