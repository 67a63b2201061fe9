--------------------------------- MODULE Clock ---------------------------------
(***************************************************************************)
(* time.monotonic() as the primitives of meridian_service/platform.py use   *)
(* it: a thread reads the clock first and takes the lock afterwards, so the *)
(* reading it works with may be old.  MaxLag bounds how old (the time a     *)
(* thread waits for the processor and the lock); MaxTime bounds the model.  *)
(***************************************************************************)
EXTENDS Integers

CONSTANTS Threads, MaxLag, MaxTime

ASSUME ClockAssumptions == MaxLag \in Nat /\ MaxTime \in Nat

VARIABLES
  now,      \* the clock
  read      \* what each thread last read from it

ReadClock(t) == read' = [read EXCEPT ![t] = now] /\ UNCHANGED now

\* The reading is a local of a call that is over.
DropReading(t) == read' = [read EXCEPT ![t] = 0] /\ UNCHANGED now

\* Time passes, unless a thread in holding would then work with a reading that is
\* more than MaxLag old.
TickClock(holding) ==
  /\ now < MaxTime
  /\ \A t \in holding : now < read[t] + MaxLag
  /\ now' = now + 1
  /\ UNCHANGED read

ClockTypeOK == now \in 0 .. MaxTime /\ read \in [Threads -> 0 .. MaxTime]
ClockInit == now = 0 /\ read = [t \in Threads |-> 0]
================================================================================
