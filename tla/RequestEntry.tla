------------------------------ MODULE RequestEntry -----------------------------
(***************************************************************************)
(* The way every API request of meridian_service/app.py begins: the rate    *)
(* limiter in before_request, then the capability catalog through its       *)
(* cache.  Both read the clock before they take their lock.                 *)
(***************************************************************************)
EXTENDS RateLimiter, TTLCache

VARIABLE pc   \* where each request thread is

vars == <<now, read, hits, admitted, cacheVars, pc>>

Places == {"idle", "checking", "admitted", "reading"}

TypeOK == ClockTypeOK /\ LimiterTypeOK /\ CacheTypeOK /\ pc \in [Threads -> Places]

Init == ClockInit /\ LimiterInit /\ CacheInit /\ pc = [t \in Threads |-> "idle"]

Goes(t, from, to) == pc[t] = from /\ pc' = [pc EXCEPT ![t] = to]

Holding == {t \in Threads : pc[t] \in {"checking", "reading"}}

Arrive(t) ==
  /\ Goes(t, "idle", "checking") /\ ReadClock(t)
  /\ UNCHANGED <<hits, admitted, cacheVars>>

\* Allowed: on to the handler; refused: the 429 response.
Check(t) ==
  /\ \E k \in Keys :
       \/ Goes(t, "checking", "admitted") /\ CheckAllows(t, k)
       \/ Goes(t, "checking", "idle") /\ CheckRefuses(t, k)
  /\ DropReading(t)
  /\ UNCHANGED cacheVars

ReadCatalog(t) ==
  /\ Goes(t, "admitted", "reading") /\ ReadClock(t)
  /\ UNCHANGED <<hits, admitted, cacheVars>>

GetOrLoad(t) ==
  /\ Goes(t, "reading", "idle")
  /\ GetReturns(t) \/ GetLoads(t) \/ GetRaises(t)
  /\ DropReading(t)
  /\ UNCHANGED <<hits, admitted>>

Tick == TickClock(Holding) /\ UNCHANGED <<hits, admitted, cacheVars, pc>>

Next == Tick \/ \E t \in Threads : Arrive(t) \/ Check(t) \/ ReadCatalog(t) \/ GetOrLoad(t)

Spec == Init /\ [][Next]_vars

\* The catalog is loaded at most once per time to live, less the age of a clock
\* reading: threads that find it expired together do not all load it.
LoadsAreSpaced ==
  [][filled /\ loaded_at' # loaded_at => loaded_at' + MaxLag >= loaded_at + ttl_seconds]_vars
================================================================================
