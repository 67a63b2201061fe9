------------------------------ MODULE RateLimiter ------------------------------
(***************************************************************************)
(* SlidingWindowRateLimiter of meridian_service/platform.py: per key, the   *)
(* deque of the clock readings of the requests it let through.              *)
(***************************************************************************)
EXTENDS Clock, Sequences

CONSTANTS Keys, limit, window_seconds

ASSUME LimiterAssumptions == limit \in Nat \ {0} /\ window_seconds \in Nat

VARIABLES
  hits,      \* _hits, oldest first
  admitted   \* history: when each request was let through

LimiterTypeOK ==
  /\ hits \in [Keys -> Seq(0 .. MaxTime)]
  /\ admitted \in [Keys -> Seq(0 .. MaxTime)]

LimiterInit == hits = [k \in Keys |-> <<>>] /\ admitted = [k \in Keys |-> <<>>]

\* The deque s without the first n readings.
Without(s, n) == SubSeq(s, n + 1, Len(s))

\* popleft while the first reading is at or before the cutoff: n of them go.
Expires(s, n, cutoff) ==
  /\ \A i \in 1 .. n : s[i] <= cutoff
  /\ n < Len(s) => s[n + 1] > cutoff

\* FAULT: one request more than the limit.
Admits_Fault(k, n) == Len(hits[k]) - n <= limit

Admits(k, n) == Len(hits[k]) - n < limit

\* check(), under the lock, with the reading thread t made before it; n readings
\* have expired.
CheckAllows(t, k) ==
  \E n \in 0 .. Len(hits[k]) :
    /\ Expires(hits[k], n, read[t] - window_seconds)
    /\ Admits(k, n)
    /\ hits' = [hits EXCEPT ![k] = Append(Without(@, n), read[t])]
    /\ admitted' = [admitted EXCEPT ![k] = Append(@, now)]

CheckRefuses(t, k) ==
  \E n \in 0 .. Len(hits[k]) :
    /\ Expires(hits[k], n, read[t] - window_seconds)
    /\ ~Admits(k, n)
    /\ hits' = [hits EXCEPT ![k] = Without(@, n)]
    /\ UNCHANGED admitted

\* Of limit + 1 requests let through in a row the last comes a window after the
\* first, less the age a clock reading may have when it is used: the window is
\* kept whatever the threads' order is, up to that.
WindowHolds ==
  \A k \in Keys : \A i, j \in 1 .. Len(admitted[k]) :
    j >= i + limit => admitted[k][j] + MaxLag >= admitted[k][i] + window_seconds
================================================================================
