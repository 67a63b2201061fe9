-------------------------------- MODULE TTLCache -------------------------------
(***************************************************************************)
(* TTLCache of meridian_service/platform.py, holding the capability         *)
(* catalog.  What it holds is represented by when it was loaded.  The       *)
(* loader runs under the lock: its run is part of the step.                 *)
(***************************************************************************)
EXTENDS Clock

CONSTANT ttl_seconds

ASSUME CacheAssumption == ttl_seconds \in Nat

VARIABLES
  filled,       \* _value is not None
  loaded_at,    \* when the value was loaded
  expires_at,   \* _expires_at
  served_age    \* history: how old the value last returned was

cacheVars == <<filled, loaded_at, expires_at, served_age>>

CacheTypeOK ==
  /\ filled \in BOOLEAN
  /\ loaded_at \in 0 .. MaxTime
  /\ expires_at \in 0 .. MaxTime + ttl_seconds
  /\ served_age \in 0 .. MaxTime

CacheInit == filled = FALSE /\ loaded_at = 0 /\ expires_at = 0 /\ served_age = 0

\* FAULT: the value counts as good for as long as it has not expired twice over.
Good_Fault(t) == filled /\ read[t] < expires_at + ttl_seconds

Good(t) == filled /\ read[t] < expires_at

GetReturns(t) ==
  /\ Good(t)
  /\ served_age' = now - loaded_at
  /\ UNCHANGED <<filled, loaded_at, expires_at>>

\* FAULT: an expired value is loaded anew and its time to live is not.
GetLoads_Fault(t) ==
  /\ ~Good(t)
  /\ filled' = TRUE /\ loaded_at' = now /\ served_age' = 0
  /\ UNCHANGED expires_at

\* FAULT: the time to live is taken off instead of added.
GetLoads_SignFault(t) ==
  /\ ~Good(t)
  /\ filled' = TRUE /\ loaded_at' = now /\ served_age' = 0
  /\ expires_at' = read[t] - ttl_seconds

GetLoads(t) ==
  /\ ~Good(t)
  /\ filled' = TRUE /\ loaded_at' = now /\ served_age' = 0
  /\ expires_at' = read[t] + ttl_seconds

\* The loader raises: the old value and its time stay.
GetRaises(t) == ~Good(t) /\ UNCHANGED cacheVars

\* No request is given a catalog older than the time to live and the age of its
\* own clock reading.
FreshEnough == served_age < ttl_seconds + MaxLag \/ served_age = 0
================================================================================
