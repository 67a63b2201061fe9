--------------------------- MODULE RequestEntry_proofs -------------------------
(***************************************************************************)
(* What the limiter and the cache promise although they work with clock     *)
(* readings made before they hold their lock: for every limit, window, time *)
(* to live, number of threads and bound on the age of a reading.            *)
(***************************************************************************)
EXTENDS RequestEntry, TLAPS

\* The deque h and the history a of one key at a time: the deque is what the end
\* of the history was stamped with, and what it has lost is out of every window.
KeyOK(h, a, time) ==
  /\ Len(h) <= Len(a)
  /\ \A i \in 1 .. Len(a) : a[i] <= time
  /\ \A i \in 1 .. Len(h) : a[Len(a) - Len(h) + i] <= h[i] + MaxLag
  /\ \A i \in 1 .. Len(a) - Len(h) : a[i] + window_seconds <= time + MaxLag
  /\ \A i, j \in 1 .. Len(a) : j >= i + limit => a[j] + MaxLag >= a[i] + window_seconds

\* What the cache holds expires a time to live after it was loaded, give or take
\* the age of the reading it was stamped with.
CacheOK ==
  filled => /\ loaded_at <= now
            /\ expires_at <= loaded_at + ttl_seconds
            /\ loaded_at + ttl_seconds <= expires_at + MaxLag

\* The readings in use.
Recent == \A t \in Holding : read[t] <= now /\ now <= read[t] + MaxLag

IInv ==
  /\ TypeOK
  /\ Recent
  /\ \A k \in Keys : KeyOK(hits[k], admitted[k], now)
  /\ CacheOK
  /\ FreshEnough

Time == 0 .. MaxTime

LEMMA ElementIsIn ==
  ASSUME NEW S, NEW s \in Seq(S), NEW k \in 1 .. Len(s)
  PROVE  s[k] \in S
  OBVIOUS

LEMMA WithoutFacts ==
  ASSUME NEW s \in Seq(Time), NEW n \in 0 .. Len(s)
  PROVE  /\ Without(s, n) \in Seq(Time)
         /\ Len(Without(s, n)) = Len(s) - n
         /\ \A i \in 1 .. Len(s) - n : Without(s, n)[i] = s[n + i]
BY DEF Without

LEMMA AppendFacts ==
  ASSUME NEW s \in Seq(Time), NEW e \in Time
  PROVE  /\ Append(s, e) \in Seq(Time)
         /\ Len(Append(s, e)) = Len(s) + 1
         /\ \A i \in 1 .. Len(s) : Append(s, e)[i] = s[i]
         /\ Append(s, e)[Len(s) + 1] = e
OBVIOUS

LEMMA Prune ==
  ASSUME NEW h \in Seq(Time), NEW a \in Seq(Time), NEW time \in Time, NEW r \in Time,
         NEW n \in 0 .. Len(h), KeyOK(h, a, time), r <= time,
         Expires(h, n, r - window_seconds)
  PROVE  KeyOK(Without(h, n), a, time)
<1> USE ClockAssumptions, LimiterAssumptions DEF ClockAssumptions, LimiterAssumptions, Time
<1> DEFINE g == Without(h, n)
<1>1. /\ Len(g) = Len(h) - n /\ Len(h) \in Nat /\ Len(a) \in Nat
      /\ \A i \in 1 .. Len(h) - n : g[i] = h[n + i]
  BY WithoutFacts
<1> HIDE DEF g
<1>2. Len(g) <= Len(a)
  BY <1>1 DEF KeyOK
<1>3. ASSUME NEW i \in 1 .. Len(g) PROVE a[Len(a) - Len(g) + i] <= g[i] + MaxLag
  <2>1. n + i \in 1 .. Len(h) /\ g[i] = h[n + i]
    BY <1>1
  <2>2. a[Len(a) - Len(h) + (n + i)] <= h[n + i] + MaxLag
    BY <2>1 DEF KeyOK
  <2>3. Len(a) - Len(h) + (n + i) = Len(a) - Len(g) + i
    BY <1>1
  <2> QED BY <2>1, <2>2, <2>3
<1>4. ASSUME NEW i \in 1 .. Len(a) - Len(g) PROVE a[i] + window_seconds <= time + MaxLag
  <2>1. CASE i <= Len(a) - Len(h)
    BY <2>1, <1>1 DEF KeyOK
  <2>2. CASE i > Len(a) - Len(h)
    <3> DEFINE p == i - (Len(a) - Len(h))
    <3>0. i \in Int /\ Len(a) \in Int /\ Len(h) \in Int /\ p \in Int
      BY <1>1
    <3>1. /\ p \in 1 .. n /\ p \in 1 .. Len(h) /\ i = Len(a) - Len(h) + p
          /\ i \in 1 .. Len(a)
      <4>1. i \in Int /\ 1 <= i /\ i <= Len(a) - Len(h) + n
        BY <1>1, <3>0
      <4>2. Len(h) <= Len(a) /\ n \in Nat /\ n <= Len(h)
        BY <1>1 DEF KeyOK
      <4> QED BY ONLY <3>0, <4>1, <4>2, <2>2
    <3>2. h[p] <= r - window_seconds
      BY <3>1 DEF Expires
    <3>3. a[i] <= h[p] + MaxLag
      BY <3>1 DEF KeyOK
    <3> HIDE DEF p
    <3>4. h[p] \in Time
      BY ONLY <3>1, h \in Seq(Time), ElementIsIn
    <3>5. a[i] \in Time
      BY ONLY <3>1, a \in Seq(Time), ElementIsIn
    <3>6. h[p] \in Int /\ a[i] \in Int /\ time \in Int /\ r \in Int /\ MaxLag \in Int
          /\ window_seconds \in Int
      BY <3>4, <3>5
    <3>7. a[i] <= r - window_seconds + MaxLag
      BY ONLY <3>2, <3>3, <3>6
    <3> QED BY ONLY <3>6, <3>7, r <= time
  <2> QED BY <2>1, <2>2, <1>1
<1> QED BY <1>2, <1>3, <1>4 DEF KeyOK, g

LEMMA Admission ==
  ASSUME NEW h \in Seq(Time), NEW a \in Seq(Time), NEW time \in Time, NEW r \in Time,
         KeyOK(h, a, time), r <= time, time <= r + MaxLag, Len(h) < limit
  PROVE  KeyOK(Append(h, r), Append(a, time), time)
<1> USE ClockAssumptions, LimiterAssumptions DEF ClockAssumptions, LimiterAssumptions, Time
<1> DEFINE g == Append(h, r)
           b == Append(a, time)
<1>1. /\ Len(g) = Len(h) + 1 /\ Len(h) \in Nat
      /\ \A i \in 1 .. Len(h) : g[i] = h[i]
      /\ g[Len(h) + 1] = r
  BY AppendFacts
<1>2. /\ Len(b) = Len(a) + 1 /\ Len(a) \in Nat
      /\ \A i \in 1 .. Len(a) : b[i] = a[i]
      /\ b[Len(a) + 1] = time
  BY AppendFacts
<1> HIDE DEF g, b
<1>3. Len(g) <= Len(b) /\ Len(b) - Len(g) = Len(a) - Len(h)
  BY <1>1, <1>2 DEF KeyOK
<1>4. ASSUME NEW i \in 1 .. Len(b) PROVE b[i] <= time
  <2>1. CASE i = Len(a) + 1
    BY <2>1, <1>2
  <2>2. CASE i \in 1 .. Len(a)
    BY <2>2, <1>2 DEF KeyOK
  <2> QED BY <2>1, <2>2, <1>2
<1>5. ASSUME NEW i \in 1 .. Len(g) PROVE b[Len(b) - Len(g) + i] <= g[i] + MaxLag
  <2>1. CASE i = Len(h) + 1
    BY <2>1, <1>1, <1>2, <1>3
  <2>2. CASE i \in 1 .. Len(h)
    <3>1. Len(a) - Len(h) + i \in 1 .. Len(a)
      BY <2>2, <1>1, <1>2 DEF KeyOK
    <3>2. a[Len(a) - Len(h) + i] <= h[i] + MaxLag
      BY <2>2 DEF KeyOK
    <3>3. g[i] = h[i] /\ b[Len(a) - Len(h) + i] = a[Len(a) - Len(h) + i]
      BY ONLY <1>1, <1>2, <2>2, <3>1
    <3>4. Len(b) - Len(g) + i = Len(a) - Len(h) + i
      BY ONLY <1>1, <1>2, <2>2
    <3> QED BY ONLY <3>2, <3>3, <3>4
  <2>3. i = Len(h) + 1 \/ i \in 1 .. Len(h)
    BY ONLY <1>1, i \in 1 .. Len(g)
  <2> QED BY ONLY <2>1, <2>2, <2>3
<1>6. ASSUME NEW i \in 1 .. Len(b) - Len(g) PROVE b[i] + window_seconds <= time + MaxLag
  <2>1. i \in 1 .. Len(a) - Len(h) /\ i \in 1 .. Len(a)
    BY <1>1, <1>2, <1>3
  <2> QED BY <2>1, <1>2 DEF KeyOK
<1>7. ASSUME NEW i \in 1 .. Len(b), NEW j \in 1 .. Len(b), j >= i + limit
      PROVE  b[j] + MaxLag >= b[i] + window_seconds
  <2>1. CASE j = Len(a) + 1
    <3>1. i \in 1 .. Len(b) - Len(g)
      BY <2>1, <1>1, <1>2, <1>3, <1>7
    <3> QED BY <3>1, <2>1, <1>2, <1>6
  <2>2. CASE j \in 1 .. Len(a)
    <3>1. i \in 1 .. Len(a)
      BY <2>2, <1>7
    <3>2. a[j] + MaxLag >= a[i] + window_seconds
      BY <3>1, <2>2, <1>7 DEF KeyOK
    <3>3. b[j] = a[j] /\ b[i] = a[i]
      BY ONLY <1>2, <2>2, <3>1
    <3> QED BY ONLY <3>2, <3>3
  <2>3. j = Len(a) + 1 \/ j \in 1 .. Len(a)
    BY ONLY <1>2, j \in 1 .. Len(b)
  <2> QED BY ONLY <2>1, <2>2, <2>3
<1> QED BY <1>3, <1>4, <1>5, <1>6, <1>7 DEF KeyOK, g, b

LEMMA Later ==
  ASSUME NEW h \in Seq(Time), NEW a \in Seq(Time), NEW time \in Time, KeyOK(h, a, time)
  PROVE  KeyOK(h, a, time + 1)
<1> USE ClockAssumptions, LimiterAssumptions DEF ClockAssumptions, LimiterAssumptions, Time
<1>1. Len(a) \in Nat /\ Len(h) \in Nat /\ \A i \in 1 .. Len(a) : a[i] \in Time
  OBVIOUS
<1>2. \A i \in 1 .. Len(a) : a[i] <= time + 1
  BY <1>1 DEF KeyOK
<1>3. ASSUME NEW i \in 1 .. Len(a) - Len(h)
      PROVE  a[i] + window_seconds <= (time + 1) + MaxLag
  BY <1>1 DEF KeyOK
<1> QED BY <1>2, <1>3 DEF KeyOK

LEMMA Initially == Init => IInv
<1> USE ClockAssumptions, LimiterAssumptions, CacheAssumption
    DEF ClockAssumptions, LimiterAssumptions, CacheAssumption
<1> SUFFICES ASSUME Init PROVE IInv
  OBVIOUS
<1>1. TypeOK
  <2>1. ClockTypeOK
    BY DEF Init, ClockInit, ClockTypeOK
  <2>2. LimiterTypeOK
    <3>1. <<>> \in Seq(0 .. MaxTime)
      OBVIOUS
    <3> QED BY <3>1 DEF Init, LimiterInit, LimiterTypeOK
  <2>3. filled \in BOOLEAN
    BY DEF Init, CacheInit
  <2>4. CacheTypeOK
    BY <2>3 DEF Init, CacheInit, CacheTypeOK
  <2>5. pc \in [Threads -> Places]
    BY DEF Init, Places
  <2> QED BY <2>1, <2>2, <2>4, <2>5 DEF TypeOK
<1>2. Recent
  BY DEF Init, Recent, Holding
<1>3. ASSUME NEW k \in Keys PROVE KeyOK(hits[k], admitted[k], now)
  BY DEF Init, ClockInit, LimiterInit, KeyOK
<1>4. CacheOK /\ FreshEnough
  BY DEF Init, CacheInit, CacheOK, FreshEnough
<1> QED BY <1>1, <1>2, <1>3, <1>4 DEF IInv

LEMMA TypeKept == TypeOK /\ CacheOK /\ [Next]_vars => TypeOK'
<1> USE ClockAssumptions, LimiterAssumptions, CacheAssumption
    DEF ClockAssumptions, LimiterAssumptions, CacheAssumption
<1> SUFFICES ASSUME TypeOK, CacheOK, [Next]_vars PROVE TypeOK'
  OBVIOUS
<1>1. ASSUME NEW t \in Threads, NEW a \in Places, NEW b \in Places, Goes(t, a, b)
      PROVE  pc' \in [Threads -> Places]
  BY <1>1 DEF Goes, TypeOK
<1>2. CASE Tick
  BY <1>2 DEF Tick, TickClock, TypeOK, ClockTypeOK, LimiterTypeOK, CacheTypeOK, cacheVars
<1>3. ASSUME NEW t \in Threads, Arrive(t) \/ ReadCatalog(t) PROVE TypeOK'
  <2>1. pc' \in [Threads -> Places]
    BY <1>1, <1>3 DEF Arrive, ReadCatalog, Places
  <2> QED BY <1>3, <2>1 DEF Arrive, ReadCatalog, ReadClock, TypeOK, ClockTypeOK,
             LimiterTypeOK, CacheTypeOK, cacheVars
<1>4. ASSUME NEW t \in Threads, Check(t) PROVE TypeOK'
  <2>1. pc' \in [Threads -> Places]
    BY <1>1, <1>4 DEF Check, Places
  <2>2. ClockTypeOK' /\ CacheTypeOK'
    BY <1>4 DEF Check, DropReading, TypeOK, ClockTypeOK, CacheTypeOK, cacheVars
  <2>3. PICK k \in Keys : CheckAllows(t, k) \/ CheckRefuses(t, k)
    BY <1>4 DEF Check
  <2>4. hits[k] \in Seq(Time) /\ admitted[k] \in Seq(Time) /\ read[t] \in Time /\ now \in Time
    BY DEF TypeOK, LimiterTypeOK, ClockTypeOK, Time
  <2>5. LimiterTypeOK'
    <3>1. CASE CheckAllows(t, k)
      <4>1. PICK n \in 0 .. Len(hits[k]) :
              /\ hits' = [hits EXCEPT ![k] = Append(Without(@, n), read[t])]
              /\ admitted' = [admitted EXCEPT ![k] = Append(@, now)]
        BY <3>1 DEF CheckAllows
      <4>2. Without(hits[k], n) \in Seq(Time)
        BY <2>4, WithoutFacts
      <4>3. Append(Without(hits[k], n), read[t]) \in Seq(Time) /\ Append(admitted[k], now) \in Seq(Time)
        BY <2>4, <4>2, AppendFacts
      <4> QED BY <4>1, <4>3 DEF TypeOK, LimiterTypeOK, Time
    <3>2. CASE CheckRefuses(t, k)
      <4>1. PICK n \in 0 .. Len(hits[k]) :
              hits' = [hits EXCEPT ![k] = Without(@, n)] /\ UNCHANGED admitted
        BY <3>2 DEF CheckRefuses
      <4>2. Without(hits[k], n) \in Seq(Time)
        BY <2>4, WithoutFacts
      <4> QED BY <4>1, <4>2 DEF TypeOK, LimiterTypeOK, Time
    <3> QED BY <2>3, <3>1, <3>2
  <2> QED BY <2>1, <2>2, <2>5 DEF TypeOK
<1>5. ASSUME NEW t \in Threads, GetOrLoad(t) PROVE TypeOK'
  <2>1. pc' \in [Threads -> Places]
    BY <1>1, <1>5 DEF GetOrLoad, Places
  <2>2. ClockTypeOK' /\ LimiterTypeOK'
    BY <1>5 DEF GetOrLoad, DropReading, TypeOK, ClockTypeOK, LimiterTypeOK
  <2>3. CacheTypeOK'
    <3>1. now \in 0 .. MaxTime /\ read[t] \in 0 .. MaxTime
      BY DEF TypeOK, ClockTypeOK
    <3>2. CASE GetReturns(t)
      <4>1. loaded_at <= now
        BY <3>2 DEF GetReturns, Good, CacheOK
      <4> QED BY <3>1, <3>2, <4>1 DEF GetReturns, TypeOK, CacheTypeOK
    <3>3. CASE GetLoads(t)
      BY <3>1, <3>3 DEF GetLoads, TypeOK, CacheTypeOK
    <3>4. CASE GetRaises(t)
      BY <3>4 DEF GetRaises, cacheVars, TypeOK, CacheTypeOK
    <3> QED BY <1>5, <3>2, <3>3, <3>4 DEF GetOrLoad
  <2> QED BY <2>1, <2>2, <2>3 DEF TypeOK
<1>6. CASE UNCHANGED vars
  BY <1>6 DEF vars, cacheVars, TypeOK, ClockTypeOK, LimiterTypeOK, CacheTypeOK
<1> QED BY <1>2, <1>3, <1>4, <1>5, <1>6 DEF Next

LEMMA RecentKept == TypeOK /\ Recent /\ [Next]_vars => Recent'
<1> USE ClockAssumptions DEF ClockAssumptions
<1> SUFFICES ASSUME TypeOK, Recent, [Next]_vars PROVE Recent'
  OBVIOUS
<1>0. now \in Nat /\ MaxLag \in Nat /\ \A t \in Threads : read[t] \in Nat
  BY DEF TypeOK, ClockTypeOK
<1>1. CASE Tick
  <2>1. Holding' = Holding
    BY <1>1 DEF Tick, Holding
  <2>2. /\ now' = now + 1 /\ read' = read
        /\ \A t \in Holding : now < read[t] + MaxLag
    BY <1>1 DEF Tick, TickClock
  <2>3. ASSUME NEW t \in Holding PROVE read'[t] <= now' /\ now' <= read'[t] + MaxLag
    <3>1. t \in Threads /\ read[t] <= now /\ now < read[t] + MaxLag
      BY <2>2 DEF Recent, Holding
    <3> QED BY <1>0, <2>2, <3>1
  <2> QED BY <2>1, <2>3 DEF Recent
<1>2. ASSUME NEW t \in Threads, Arrive(t) \/ ReadCatalog(t) PROVE Recent'
  <2>1. /\ now' = now /\ read' = [read EXCEPT ![t] = now]
        /\ \A u \in Threads \ {t} : pc'[u] = pc[u]
    BY <1>2 DEF Arrive, ReadCatalog, ReadClock, Goes, TypeOK
  <2>2. ASSUME NEW u \in Threads, u \in Holding' PROVE read'[u] <= now' /\ now' <= read'[u] + MaxLag
    <3>1. CASE u = t
      <4>1. read'[u] = now
        BY <2>1, <3>1 DEF TypeOK, ClockTypeOK
      <4> QED BY <1>0, <2>1, <4>1
    <3>2. CASE u # t
      <4>1. u \in Holding /\ read'[u] = read[u]
        BY <2>1, <2>2, <3>2 DEF Holding, TypeOK, ClockTypeOK
      <4> QED BY <2>1, <4>1 DEF Recent
    <3> QED BY <3>1, <3>2
  <2> QED BY <2>2 DEF Recent, Holding
<1>3. ASSUME NEW t \in Threads, Check(t) \/ GetOrLoad(t) PROVE Recent'
  <2>1. /\ now' = now /\ read' = [read EXCEPT ![t] = 0]
        /\ pc' \in {[pc EXCEPT ![t] = "admitted"], [pc EXCEPT ![t] = "idle"]}
    BY <1>3 DEF Check, GetOrLoad, DropReading, Goes
  <2>2. ASSUME NEW u \in Threads, u \in Holding' PROVE u # t /\ u \in Holding
    BY <2>1, <2>2 DEF Holding, TypeOK
  <2>3. ASSUME NEW u \in Threads, u \in Holding' PROVE read'[u] = read[u]
    BY <2>1, <2>2, <2>3 DEF TypeOK, ClockTypeOK
  <2> QED BY <2>1, <2>2, <2>3 DEF Recent, Holding
<1>4. CASE UNCHANGED vars
  BY <1>4 DEF vars, Recent, Holding
<1> QED BY <1>1, <1>2, <1>3, <1>4 DEF Next

LEMMA KeysKept ==
  TypeOK /\ Recent /\ (\A k \in Keys : KeyOK(hits[k], admitted[k], now)) /\ [Next]_vars
    => \A k \in Keys : KeyOK(hits'[k], admitted'[k], now')
<1> SUFFICES ASSUME TypeOK, Recent, \A k \in Keys : KeyOK(hits[k], admitted[k], now), [Next]_vars,
                    NEW key \in Keys
             PROVE  KeyOK(hits'[key], admitted'[key], now')
  OBVIOUS
<1>0. /\ now \in Time /\ \A t \in Threads : read[t] \in Time
      /\ \A k \in Keys : hits[k] \in Seq(Time) /\ admitted[k] \in Seq(Time)
  BY DEF TypeOK, ClockTypeOK, LimiterTypeOK, Time
<1>1. CASE Tick
  <2>1. now' = now + 1 /\ hits' = hits /\ admitted' = admitted
    BY <1>1 DEF Tick, TickClock
  <2> QED BY <1>0, <2>1, Later
<1>2. ASSUME UNCHANGED <<now, hits, admitted>> PROVE KeyOK(hits'[key], admitted'[key], now')
  BY <1>2
<1>3. ASSUME NEW t \in Threads, Check(t) PROVE KeyOK(hits'[key], admitted'[key], now')
  <2>1. PICK k \in Keys : /\ t \in Holding /\ now' = now
                          /\ CheckAllows(t, k) \/ CheckRefuses(t, k)
    BY <1>3 DEF Check, Goes, Holding, DropReading
  <2>2. /\ read[t] <= now /\ now <= read[t] + MaxLag /\ read[t] \in Time
        /\ hits[k] \in Seq(Time) /\ admitted[k] \in Seq(Time)
        /\ KeyOK(hits[k], admitted[k], now)
    BY <1>0, <2>1 DEF Recent
  <2>3. CASE CheckAllows(t, k)
    <3>1. PICK n \in 0 .. Len(hits[k]) :
            /\ Expires(hits[k], n, read[t] - window_seconds)
            /\ Admits(k, n)
            /\ hits' = [hits EXCEPT ![k] = Append(Without(@, n), read[t])]
            /\ admitted' = [admitted EXCEPT ![k] = Append(@, now)]
      BY <2>3 DEF CheckAllows
    <3>2. KeyOK(Without(hits[k], n), admitted[k], now)
      BY <1>0, <2>2, <3>1, Prune
    <3>3. /\ Without(hits[k], n) \in Seq(Time)
          /\ Len(Without(hits[k], n)) < limit
      BY <2>2, <3>1, WithoutFacts DEF Admits
    <3>4. KeyOK(Append(Without(hits[k], n), read[t]), Append(admitted[k], now), now)
      BY <1>0, <2>2, <3>2, <3>3, Admission
    <3>5. CASE key = k
      <4>1. /\ hits'[key] = Append(Without(hits[k], n), read[t])
            /\ admitted'[key] = Append(admitted[k], now)
        BY <3>1, <3>5 DEF TypeOK, LimiterTypeOK
      <4> QED BY <2>1, <3>4, <4>1
    <3>6. CASE key # k
      <4>1. hits'[key] = hits[key] /\ admitted'[key] = admitted[key]
        BY <3>1, <3>6 DEF TypeOK, LimiterTypeOK
      <4> QED BY <2>1, <4>1
    <3> QED BY <3>5, <3>6
  <2>4. CASE CheckRefuses(t, k)
    <3>1. PICK n \in 0 .. Len(hits[k]) :
            /\ Expires(hits[k], n, read[t] - window_seconds)
            /\ hits' = [hits EXCEPT ![k] = Without(@, n)]
            /\ UNCHANGED admitted
      BY <2>4 DEF CheckRefuses
    <3>2. KeyOK(Without(hits[k], n), admitted[k], now)
      BY <1>0, <2>2, <3>1, Prune
    <3>3. CASE key = k
      <4>1. hits'[key] = Without(hits[k], n) /\ admitted'[key] = admitted[k]
        BY <3>1, <3>3 DEF TypeOK, LimiterTypeOK
      <4> QED BY <2>1, <3>2, <4>1
    <3>4. CASE key # k
      <4>1. hits'[key] = hits[key] /\ admitted'[key] = admitted[key]
        BY <3>1, <3>4 DEF TypeOK, LimiterTypeOK
      <4> QED BY <2>1, <4>1
    <3> QED BY <3>3, <3>4
  <2> QED BY <2>1, <2>3, <2>4
<1>4. ASSUME NEW t \in Threads, Arrive(t) \/ ReadCatalog(t) \/ GetOrLoad(t)
      PROVE  KeyOK(hits'[key], admitted'[key], now')
  BY <1>2, <1>4 DEF Arrive, ReadCatalog, GetOrLoad, ReadClock, DropReading
<1>5. CASE UNCHANGED vars
  BY <1>2, <1>5 DEF vars
<1> QED BY <1>1, <1>3, <1>4, <1>5 DEF Next

LEMMA CacheKept == TypeOK /\ Recent /\ CacheOK /\ FreshEnough /\ [Next]_vars => CacheOK' /\ FreshEnough'
<1> USE ClockAssumptions, CacheAssumption DEF ClockAssumptions, CacheAssumption
<1> SUFFICES ASSUME TypeOK, Recent, CacheOK, FreshEnough, [Next]_vars PROVE CacheOK' /\ FreshEnough'
  OBVIOUS
<1>0. /\ now \in Nat /\ loaded_at \in Nat /\ expires_at \in Nat /\ served_age \in Nat
      /\ \A t \in Threads : read[t] \in Nat
  BY DEF TypeOK, ClockTypeOK, CacheTypeOK
<1>1. ASSUME now' = now \/ now' = now + 1, UNCHANGED cacheVars PROVE CacheOK' /\ FreshEnough'
  <2>1. CacheOK'
    BY <1>0, <1>1 DEF cacheVars, CacheOK
  <2>2. FreshEnough'
    BY <1>1 DEF cacheVars, FreshEnough
  <2> QED BY <2>1, <2>2
<1>2. ASSUME NEW t \in Threads, GetOrLoad(t) PROVE CacheOK' /\ FreshEnough'
  <2>1. now' = now /\ t \in Holding
    BY <1>2 DEF GetOrLoad, DropReading, Goes, Holding
  <2>2. read[t] <= now /\ now <= read[t] + MaxLag
    BY <2>1 DEF Recent
  <2>3. CASE GetReturns(t)
    <3>1. filled /\ read[t] < expires_at /\ served_age' = now - loaded_at
          /\ UNCHANGED <<filled, loaded_at, expires_at>>
      BY <2>3 DEF GetReturns, Good
    <3>2. CacheOK'
      BY <1>0, <2>1, <3>1 DEF CacheOK
    <3>3. expires_at <= loaded_at + ttl_seconds
      BY <3>1 DEF CacheOK
    <3>4. FreshEnough'
      BY <1>0, <2>2, <3>1, <3>3 DEF FreshEnough
    <3> QED BY <3>2, <3>4
  <2>4. CASE GetLoads(t)
    <3>1. loaded_at' = now /\ served_age' = 0 /\ expires_at' = read[t] + ttl_seconds
      BY <2>4 DEF GetLoads
    <3>2. CacheOK'
      BY <1>0, <2>1, <2>2, <3>1 DEF CacheOK
    <3> QED BY <3>1, <3>2 DEF FreshEnough
  <2>5. CASE GetRaises(t)
    BY <1>1, <2>1, <2>5 DEF GetRaises
  <2> QED BY <1>2, <2>3, <2>4, <2>5 DEF GetOrLoad
<1>3. ASSUME NEW t \in Threads, Arrive(t) \/ Check(t) \/ ReadCatalog(t) PROVE CacheOK' /\ FreshEnough'
  BY <1>1, <1>3 DEF Arrive, Check, ReadCatalog, ReadClock, DropReading
<1>4. CASE Tick
  BY <1>1, <1>4 DEF Tick, TickClock
<1>5. CASE UNCHANGED vars
  BY <1>1, <1>5 DEF vars
<1> QED BY <1>2, <1>3, <1>4, <1>5 DEF Next

LEMMA Invariance == Spec => []IInv
<1>1. IInv /\ [Next]_vars => IInv'
  <2> SUFFICES ASSUME IInv, [Next]_vars PROVE IInv'
    OBVIOUS
  <2>1. TypeOK' /\ Recent'
    BY TypeKept, RecentKept DEF IInv
  <2>2. \A k \in Keys : KeyOK(hits'[k], admitted'[k], now')
    BY KeysKept DEF IInv
  <2>3. CacheOK' /\ FreshEnough'
    BY CacheKept DEF IInv
  <2> QED BY <2>1, <2>2, <2>3 DEF IInv
<1> QED BY Initially, <1>1, PTL DEF Spec

\* Every variable of the limiter, the cache and the request threads keeps its type,
\* the age of a served catalog included: the clock never runs behind a load.
THEOREM TypeCorrect == Spec => []TypeOK
<1>1. IInv => TypeOK
  BY DEF IInv
<1> QED BY Invariance, <1>1, PTL

\* SlidingWindowRateLimiter.check keeps its window for every limit and window and
\* every order of the threads, up to the age of a reading.
THEOREM WindowIsKept == Spec => []WindowHolds
<1>1. IInv => WindowHolds
  BY DEF IInv, KeyOK, WindowHolds
<1> QED BY Invariance, <1>1, PTL

\* TTLCache.get_or_load never serves a catalog older than its time to live and the
\* age of the caller's reading.
THEOREM CatalogIsFresh == Spec => []FreshEnough
<1>1. IInv => FreshEnough
  BY DEF IInv
<1> QED BY Invariance, <1>1, PTL

\* TTLCache.get_or_load loads once per time to live, however many threads find the
\* catalog expired, up to the age of a reading.
THEOREM LoadsSpaced == Spec => LoadsAreSpaced
<1> USE ClockAssumptions, CacheAssumption DEF ClockAssumptions, CacheAssumption
<1>1. IInv /\ [Next]_vars =>
        [filled /\ loaded_at' # loaded_at => loaded_at' + MaxLag >= loaded_at + ttl_seconds]_vars
  <2> SUFFICES ASSUME IInv, [Next]_vars, filled, loaded_at' # loaded_at
               PROVE  loaded_at' + MaxLag >= loaded_at + ttl_seconds
    OBVIOUS
  <2>1. PICK t \in Threads : GetOrLoad(t)
    BY DEF Next, Tick, Arrive, Check, ReadCatalog, vars, cacheVars
  <2>2. ~Good(t) /\ loaded_at' = now
    BY <2>1 DEF GetOrLoad, GetReturns, GetLoads, GetRaises, cacheVars
  <2>3. t \in Holding
    BY <2>1 DEF GetOrLoad, Goes, Holding
  <2>4. /\ now \in Nat /\ loaded_at \in Nat /\ expires_at \in Nat /\ read[t] \in Nat
    BY <2>1 DEF IInv, TypeOK, ClockTypeOK, CacheTypeOK
  <2>5. read[t] >= expires_at
    BY <2>2, <2>4 DEF Good
  <2>6. loaded_at + ttl_seconds <= expires_at + MaxLag /\ read[t] <= now
    BY <2>3 DEF IInv, CacheOK, Recent
  <2> QED BY <2>2, <2>4, <2>5, <2>6
<1> QED BY Invariance, <1>1, PTL DEF Spec, LoadsAreSpaced
================================================================================
