-------------------------- MODULE CircuitBreaker_proofs ------------------------
(***************************************************************************)
(* The safety properties of the circuit breaker, for any number of threads, *)
(* any threshold and any reset time.                                        *)
(***************************************************************************)
EXTENDS CircuitBreaker, TLAPS

\* While the circuit is open and nothing has straggled, a call that began after
\* the opening carries the mark; a closed circuit is short of the threshold.
Marked == open /\ ~straggled /\ InFlight \ old # {} => probe_in_flight
ShortOfThreshold == ~open => failures < failure_threshold

IInv ==
  /\ TypeOK
  /\ OpenIsEarned /\ ShortOfThreshold
  /\ old \subseteq InFlight
  /\ MarkIsBacked /\ OneProbe /\ Marked

LEMMA Begun ==
  ASSUME IInv, NEW t \in Threads, Begins(t), UNCHANGED old
  PROVE  /\ call' \in [Threads -> {"none", "answer", "raise"}]
         /\ InFlight' = InFlight \cup {t}
         /\ t \notin old
         /\ (old \subseteq InFlight)'
<1>1. PICK answer \in {"answer", "raise"} : call' = [call EXCEPT ![t] = answer]
  BY DEF Begins
<1>2. call \in [Threads -> {"none", "answer", "raise"}] /\ call[t] = "none"
  BY DEF IInv, TypeOK, Begins
<1>3. call' \in [Threads -> {"none", "answer", "raise"}]
  BY <1>1, <1>2
<1>4. InFlight' = InFlight \cup {t}
  BY <1>1, <1>2 DEF InFlight
<1>5. t \notin old
  BY <1>2 DEF IInv, InFlight
<1> QED BY <1>3, <1>4, <1>5 DEF IInv

LEMMA Ended ==
  ASSUME IInv, NEW t \in Threads, call[t] # "none", Ends(t), open' \in BOOLEAN
  PROVE  /\ call' \in [Threads -> {"none", "answer", "raise"}]
         /\ InFlight' = InFlight \ {t}
         /\ old' \subseteq Threads /\ straggled' \in BOOLEAN
         /\ (old \subseteq InFlight)'
<1>1. call \in [Threads -> {"none", "answer", "raise"}] /\ old \subseteq InFlight
  BY DEF IInv, TypeOK
<1>2. call' = [call EXCEPT ![t] = "none"]
  BY DEF Ends
<1>3. call' \in [Threads -> {"none", "answer", "raise"}]
  BY <1>1, <1>2
<1>4. InFlight' = InFlight \ {t}
  BY <1>1, <1>2 DEF InFlight
<1>5. old' = InFlight \ {t} \/ old' = old \ {t}
  BY DEF Ends
<1>6. (old \subseteq InFlight)'
  BY <1>1, <1>4, <1>5
<1>7. old' \subseteq Threads
  BY <1>1, <1>5 DEF InFlight
<1>8. straggled' \in BOOLEAN
  BY DEF Ends
<1> QED BY <1>3, <1>4, <1>6, <1>7, <1>8

LEMMA Initially == Init => IInv
<1> SUFFICES ASSUME Init PROVE IInv
  OBVIOUS
<1>1. InFlight = {}
  BY DEF Init, InFlight
<1>2. failures \in 0 .. failure_threshold /\ opened_for \in 0 .. reset_seconds
  BY BreakerAssumptions DEF BreakerAssumptions, Init
<1>3. call \in [Threads -> {"none", "answer", "raise"}]
  BY DEF Init
<1>4. TypeOK
  BY <1>2, <1>3 DEF Init, TypeOK
<1>5. ShortOfThreshold
  BY BreakerAssumptions DEF BreakerAssumptions, Init, ShortOfThreshold
<1> QED BY <1>1, <1>4, <1>5 DEF Init, IInv, OpenIsEarned, MarkIsBacked, OneProbe, Marked

\* A call that ends opens the circuit with every other call an old one, closes it,
\* or leaves it as it is; in each case the probe under way, if any, was the caller.
LEMMA CompleteStep ==
  ASSUME IInv, NEW t \in Threads, call[t] # "none", Ends(t), UNCHANGED up,
         probe_in_flight' = FALSE, failures' \in 0 .. failure_threshold,
         open' \in BOOLEAN, opened_for' = 0 \/ opened_for' = opened_for,
         open' => failures' = failure_threshold,
         ~open' => failures' < failure_threshold
  PROVE  IInv'
<1>1. open' \in BOOLEAN /\ opened_for' \in 0 .. reset_seconds
  BY BreakerAssumptions DEF BreakerAssumptions, IInv, TypeOK
<1>2. /\ call' \in [Threads -> {"none", "answer", "raise"}]
      /\ InFlight' = InFlight \ {t}
      /\ old' \subseteq Threads /\ straggled' \in BOOLEAN
      /\ (old \subseteq InFlight)'
  BY <1>1, Ended
<1>3. TypeOK'
  BY <1>1, <1>2 DEF IInv, TypeOK
<1>4. OpenIsEarned' /\ ShortOfThreshold'
  BY BreakerAssumptions DEF BreakerAssumptions, OpenIsEarned, ShortOfThreshold, IInv, TypeOK
<1>5. MarkIsBacked'
  BY DEF MarkIsBacked
<1>6. ASSUME open', ~straggled' PROVE InFlight' \ old' = {}
  <2>1. CASE ~open
    BY <2>1, <1>2, <1>6 DEF Ends
  <2>2. CASE open
    <3>1. ~straggled /\ t \notin old /\ old' = old \ {t}
      BY <2>2, <1>6 DEF Ends
    <3>2. \A s \in InFlight \ old : s = t
      BY <2>2, <3>1 DEF IInv, OneProbe, InFlight
    <3> QED BY <3>1, <3>2, <1>2
  <2> QED BY <2>1, <2>2
<1>7. OneProbe' /\ Marked'
  BY <1>6 DEF OneProbe, Marked
<1> QED BY <1>2, <1>3, <1>4, <1>5, <1>7 DEF IInv

LEMMA Step == IInv /\ [Next]_vars => IInv'
<1> SUFFICES ASSUME IInv, [Next]_vars PROVE IInv'
  OBVIOUS
<1> USE BreakerAssumptions DEF BreakerAssumptions
<1>1. CASE Tick
  <2>1. UNCHANGED <<failures, open, probe_in_flight, call, up, old, straggled>>
    BY <1>1 DEF Tick
  <2>2. opened_for' \in 0 .. reset_seconds
    BY <1>1 DEF Tick, IInv, TypeOK
  <2> QED BY <2>1, <2>2 DEF IInv, TypeOK, OpenIsEarned, ShortOfThreshold, MarkIsBacked,
            OneProbe, Marked, InFlight
<1>2. CASE Turns
  BY <1>2 DEF Turns, breaker, IInv, TypeOK, OpenIsEarned, ShortOfThreshold, MarkIsBacked,
            OneProbe, Marked, InFlight
<1>3. ASSUME NEW t \in Threads, Admit(t) PROVE IInv'
  <2>1. ~open /\ UNCHANGED <<breaker, up, old, straggled>>
    BY <1>3 DEF Admit
  <2>2. /\ call' \in [Threads -> {"none", "answer", "raise"}]
        /\ (old \subseteq InFlight)'
    BY <1>3, Begun DEF Admit
  <2> QED BY <2>1, <2>2 DEF breaker, IInv, TypeOK, OpenIsEarned, ShortOfThreshold,
            MarkIsBacked, OneProbe, Marked
<1>4. ASSUME NEW t \in Threads, Probe(t) PROVE IInv'
  <2>1. /\ open /\ ~probe_in_flight /\ probe_in_flight' = TRUE
        /\ UNCHANGED <<failures, open, opened_for, up, old, straggled>>
    BY <1>4 DEF Probe
  <2>2. /\ call' \in [Threads -> {"none", "answer", "raise"}]
        /\ InFlight' = InFlight \cup {t}
        /\ t \notin old
        /\ (old \subseteq InFlight)'
    BY <1>4, Begun DEF Probe
  <2>3. TypeOK' /\ OpenIsEarned' /\ ShortOfThreshold'
    BY <2>1, <2>2 DEF IInv, TypeOK, OpenIsEarned, ShortOfThreshold
  <2>4. MarkIsBacked' /\ Marked'
    BY <2>1, <2>2 DEF MarkIsBacked, Marked
  <2>5. OneProbe'
    BY <2>1, <2>2 DEF IInv, Marked, OneProbe
  <2> QED BY <2>2, <2>3, <2>4, <2>5 DEF IInv
<1>5. ASSUME NEW t \in Threads, Succeeds(t) PROVE IInv'
  <2>1. failures' = 0 /\ opened_for' = 0 /\ ~open' /\ open' \in BOOLEAN
    BY <1>5 DEF Succeeds
  <2>2. failures' \in 0 .. failure_threshold /\ failures' < failure_threshold
    BY <2>1
  <2>3. call[t] # "none" /\ Ends(t) /\ UNCHANGED up /\ probe_in_flight' = FALSE
    BY <1>5 DEF Succeeds
  <2> QED BY <2>1, <2>2, <2>3, CompleteStep
<1>6. ASSUME NEW t \in Threads, Fails(t) PROVE IInv'
  <2>1. failures \in 0 .. failure_threshold /\ (open => failures = failure_threshold)
    BY DEF IInv, TypeOK, OpenIsEarned
  <2>2. failures' \in 0 .. failure_threshold /\ (open => failures' = failure_threshold)
    BY <1>6, <2>1 DEF Fails
  <2>3. CASE failures' = failure_threshold
    <3>1. open' /\ open' \in BOOLEAN /\ opened_for' = 0
      BY <1>6, <2>3 DEF Fails
    <3>2. call[t] # "none" /\ Ends(t) /\ UNCHANGED up /\ probe_in_flight' = FALSE
      BY <1>6 DEF Fails
    <3> QED BY <2>2, <2>3, <3>1, <3>2, CompleteStep
  <2>4. CASE failures' # failure_threshold
    <3>1. ~open' /\ open' \in BOOLEAN
      BY <1>6, <2>2, <2>4 DEF Fails, IInv, TypeOK
    <3>2. opened_for' = opened_for /\ failures' < failure_threshold
      BY <1>6, <2>2, <2>4 DEF Fails
    <3>3. call[t] # "none" /\ Ends(t) /\ UNCHANGED up /\ probe_in_flight' = FALSE
      BY <1>6 DEF Fails
    <3> QED BY <2>2, <3>1, <3>2, <3>3, CompleteStep
  <2> QED BY <2>3, <2>4
<1>7. CASE UNCHANGED vars
  BY <1>7 DEF vars, IInv, TypeOK, OpenIsEarned, ShortOfThreshold, MarkIsBacked,
            OneProbe, Marked, InFlight
<1> QED BY <1>1, <1>2, <1>3, <1>4, <1>5, <1>6, <1>7 DEF Next, Visit, Complete

LEMMA Inductive == Spec => []IInv
<1>1. IInv /\ [Next]_vars => IInv'
  BY Step
<1> QED BY Initially, <1>1, PTL DEF Spec

\* The breaker's fields keep their types: the count never passes the threshold,
\* the time the reset.
THEOREM TypeCorrect == Spec => []TypeOK
<1>1. IInv => TypeOK
  BY DEF IInv
<1> QED BY <1>1, Inductive, PTL

\* The circuit is open only after a full count of failures without a success.
THEOREM OpensForCause == Spec => []OpenIsEarned
<1>1. IInv => OpenIsEarned
  BY DEF IInv
<1> QED BY <1>1, Inductive, PTL

\* _probe_in_flight never outlives the call it was set for.
THEOREM NoStuckProbe == Spec => []MarkIsBacked
<1>1. IInv => MarkIsBacked
  BY DEF IInv
<1> QED BY <1>1, Inductive, PTL

\* Two probes run at once only behind the back of a straggling call.
THEOREM ProbesAlone == Spec => []OneProbe
<1>1. IInv => OneProbe
  BY DEF IInv
<1> QED BY <1>1, Inductive, PTL
================================================================================
