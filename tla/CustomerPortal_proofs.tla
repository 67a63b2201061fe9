-------------------------- MODULE CustomerPortal_proofs -------------------------
(***************************************************************************)
(* Proofs about CustomerPortal, for any number of customers, employees,     *)
(* accounts, capabilities, requests and responses on their way.             *)
(***************************************************************************)
EXTENDS CustomerPortal, TLAPS

--------------------------------------------------------------------------------
(* What a message is routed to *)

\* A route is a reply, a question about a capability, or a run of one, whose inputs
\* are complete if the ranker found it and writes are not in its way.
IsRoute(route) ==
  \/ route.does = "reply"
  \/ route.does = "ask" /\ route.capability \in Capabilities
  \/ /\ route.does = "run"
     /\ route.capability \in Capabilities
     /\ DOMAIN route.input \subseteq Inputs
     /\ route.router \in Routers
     /\ route.router = "ranker" /\ ~Blocked(route.capability) =>
          Needs[route.capability] \subseteq DOMAIN route.input

LEMMA RankedIsRoute ==
  ASSUME NEW m \in Messages
  PROVE  IsRoute(Ranked(m))
<1> DEFINE c == m.topic
           missing == Needs[c] \ Supplied(m, c)
<1>1. c \in Capabilities \cup {None}
  BY DEF Messages
<1>2. CASE c = None
  BY <1>2 DEF Ranked, Replies, IsRoute
<1>3. CASE c # None /\ Blocked(c)
  <2>1. Ranked(m) = Runs(c, <<>>, "ranker")
    BY <1>3 DEF Ranked
  <2>2. DOMAIN <<>> = {}
    OBVIOUS
  <2> QED BY <1>1, <1>3, <2>1, <2>2 DEF Runs, IsRoute, Routers
<1>4. CASE c # None /\ ~Blocked(c) /\ missing = {}
  <2>1. Ranked(m) = Runs(c, Extracted(m, c), "ranker")
    BY <1>4 DEF Ranked
  <2>2. DOMAIN Extracted(m, c) = Supplied(m, c)
    BY DEF Extracted
  <2>3. Supplied(m, c) \subseteq Needs[c] /\ Needs[c] \subseteq Inputs
    BY <1>1, <1>4, PortalAssumption DEF PortalAssumption, Supplied
  <2> QED BY <1>1, <1>4, <2>1, <2>2, <2>3 DEF Runs, IsRoute, Routers
<1>5. CASE c # None /\ ~Blocked(c) /\ missing = {"account_no"}
  <2>1. Ranked(m) = Asks(c)
    BY <1>5 DEF Ranked
  <2> QED BY <1>1, <1>5, <2>1 DEF Asks, IsRoute
<1>6. CASE c # None /\ ~Blocked(c) /\ missing # {} /\ missing # {"account_no"}
  <2>1. Ranked(m) = Replies
    BY <1>6 DEF Ranked
  <2> QED BY <2>1 DEF Replies, IsRoute
<1> QED BY <1>2, <1>3, <1>4, <1>5, <1>6

LEMMA CalledIsRoute ==
  ASSUME NEW route \in Called
  PROVE  IsRoute(route)
<1>1. CASE route = Replies
  BY <1>1 DEF Replies, IsRoute
<1>2. CASE route # Replies
  <2>1. PICK c \in Capabilities :
          route \in {Runs(c, input, "llm") :
            input \in UNION {[S -> Accounts] : S \in SUBSET (Needs[c] \cap AccountInputs)}}
    BY <1>2 DEF Called
  <2>2. PICK input \in UNION {[S -> Accounts] : S \in SUBSET (Needs[c] \cap AccountInputs)} :
          route = Runs(c, input, "llm")
    BY <2>1
  <2>3. PICK S \in SUBSET (Needs[c] \cap AccountInputs) : input \in [S -> Accounts]
    BY <2>2
  <2>4. DOMAIN input \subseteq Inputs
    BY <2>3 DEF Inputs
  <2> QED BY <2>2, <2>4 DEF Runs, IsRoute, Routers
<1> QED BY <1>1, <1>2

LEMMA RoutesAreRoutes ==
  ASSUME NEW M \in SUBSET Messages, NEW route \in Routes(M)
  PROVE  IsRoute(route)
<1>1. CASE route \in Called
  BY <1>1, CalledIsRoute
<1>2. CASE \E m \in M : route = Ranked(m)
  BY <1>2, RankedIsRoute
<1>3. CASE route = Replies
  BY <1>3 DEF Replies, IsRoute
<1> QED BY <1>1, <1>2, <1>3 DEF Routes

--------------------------------------------------------------------------------
(***************************************************************************)
(* The inductive invariant.  A question is its customer's in every cookie   *)
(* there is: in the browser's, in those that requests carry and in those    *)
(* that responses will bring (Asked).  It stays so because a RunState never *)
(* changes hands: its owner is set by the request it is named after, which  *)
(* until then had served nobody (Unused).  Kept says what a response may    *)
(* change of the identities its request came with.                          *)
(***************************************************************************)

Asked(s) ==
  s.pending # NoQuestion /\ s.customer # Nobody => owner[s.pending.run] = s.customer

Unused(q) ==
  /\ pc[q] # "answered" => serves[q] = Nobody /\ launch[q] = NoLaunch
  /\ pc[q] = "idle" => owner[q] = Nobody

Served(q) ==
  /\ serves[q] # Nobody =>
       sent[q].customer # Nobody /\ owner[serves[q]] = sent[q].customer
  /\ launch[q] # NoLaunch =>
       serves[q] # Nobody /\ launch[q].member = sent[q].customer

Kept(q) ==
  pc[q] = "answered" =>
    /\ surface[q] # "customer" => session[q].customer = sent[q].customer
    /\ surface[q] # "employee" => session[q].employee = sent[q].employee

IInv ==
  /\ TypeOK
  /\ launch = [q \in Requests |-> launch[q]]
  /\ Asked(jar)
  /\ \A q \in Requests :
       Asked(sent[q]) /\ Asked(session[q]) /\ Unused(q) /\ Served(q) /\ Kept(q)
  /\ LaunchIsValidated

LEMMA InitIInv == Init => IInv
<1> SUFFICES ASSUME Init PROVE IInv
  OBVIOUS
<1>1. NoSession \in Sessions
  BY DEF NoSession, Sessions
<1>2. TypeOK /\ launch = [q \in Requests |-> launch[q]]
  BY <1>1 DEF Init, TypeOK
<1>3. Asked(jar) /\ \A q \in Requests : Asked(sent[q]) /\ Asked(session[q])
  BY DEF Init, Asked, NoSession
<1>4. \A q \in Requests : Unused(q) /\ Served(q) /\ Kept(q)
  BY DEF Init, Unused, Served, Kept
<1>5. LaunchIsValidated
  BY DEF Init, LaunchIsValidated, OwnAccountsOnly, WritesFailClosed, RankedIsComplete
<1> QED BY <1>2, <1>3, <1>4, <1>5 DEF IInv

--------------------------------------------------------------------------------
(* Requests *)

\* A customer does not become the owner of what another one asked.
LEMMA AskedStays ==
  ASSUME IInv, NEW q \in Requests, pc[q] = "idle", NEW c,
         owner' = owner \/ owner' = [owner EXCEPT ![q] = c],
         NEW s \in Sessions, Asked(s)
  PROVE  Asked(s)'
<1> SUFFICES ASSUME s.pending # NoQuestion, s.customer # Nobody
             PROVE  owner'[s.pending.run] = s.customer
  BY DEF Asked
<1>1. s.pending.run \in Requests
  BY DEF Sessions, Questions
<1>2. owner[s.pending.run] = s.customer
  BY DEF Asked
<1>3. s.pending.run # q
  BY <1>2 DEF IInv, Unused
<1> QED BY <1>1, <1>2, <1>3 DEF IInv, TypeOK

\* What a launch is made of.
Valid(l) ==
  /\ l.member \in Customers
  /\ l.capability \in Capabilities
  /\ DOMAIN l.input \subseteq Inputs
  /\ l.router \in Routers
  /\ config.synthetic =>
       \A i \in AccountInputs \cap DOMAIN l.input : l.input[i] \in Owned[l.member]
  /\ ~Blocked(l.capability)
  /\ l.router = "ranker" => Needs[l.capability] \subseteq DOMAIN l.input

LEMMA LaunchesAreValid ==
  ASSUME IInv, NEW q \in Requests, launch[q] # NoLaunch
  PROVE  Valid(launch[q])
  BY DEF IInv, TypeOK, LaunchIsValidated, OwnAccountsOnly, WritesFailClosed,
     RankedIsComplete, Valid

\* A handler that leaves a session of the same customer and employee, but for the
\* identity the request is for, and works on a RunState of the customer's.
LEMMA HandlesKeeps ==
  ASSUME IInv, NEW q \in Requests,
         NEW for \in {"customer", "employee", "chat"}, NEW s \in Sessions,
         NEW changed \in BOOLEAN, Handles(q, for, s, changed),
         for # "customer" => s.customer = jar.customer,
         for # "employee" => s.employee = jar.employee,
         Asked(s)',
         NEW r \in Requests \cup {Nobody}, serves' = [serves EXCEPT ![q] = r],
         r # Nobody => jar.customer \in Customers /\ owner'[r] = jar.customer,
         \/ owner' = owner
         \/ jar.customer \in Customers /\ owner' = [owner EXCEPT ![q] = jar.customer],
         NEW l,
         \/ launch' = launch
         \/ /\ r # Nobody /\ l.member = jar.customer /\ Valid(l)
            /\ launch' = [launch EXCEPT ![q] = l]
  PROVE  IInv'
<1>1. /\ pc[q] = "idle" /\ config' = config /\ jar' = jar
      /\ pc' = [pc EXCEPT ![q] = "answered"] /\ sent' = [sent EXCEPT ![q] = jar]
      /\ session' = [session EXCEPT ![q] = s] /\ modified' = [modified EXCEPT ![q] = changed]
      /\ surface' = [surface EXCEPT ![q] = for]
  BY DEF Handles, IsNext
<1>2. /\ TypeOK /\ launch = [p \in Requests |-> launch[p]] /\ Asked(jar)
      /\ \A p \in Requests :
           Asked(sent[p]) /\ Asked(session[p]) /\ Unused(p) /\ Served(p) /\ Kept(p)
  BY DEF IInv
<1>3. Nobody \notin Customers
  BY PortalAssumption DEF PortalAssumption
<1>4. /\ launch' = [p \in Requests |-> launch'[p]]
      /\ \A p \in Requests : p # q => launch'[p] = launch[p]
      /\ \/ launch'[q] = launch[q]
         \/ launch'[q] = l /\ r # Nobody /\ l.member = jar.customer /\ Valid(l)
  BY <1>2
<1>5. launch[q] = NoLaunch /\ serves[q] = Nobody
  BY <1>1, <1>2 DEF Unused
<1>6. \A p \in Requests : launch'[p] # NoLaunch => Valid(launch'[p])
  BY <1>4, <1>5, LaunchesAreValid
<1>7. TypeOK'
  <2>1. owner' \in [Requests -> Customers \cup {Nobody}]
    BY <1>2 DEF TypeOK
  <2>2. serves' \in [Requests -> Requests \cup {Nobody}]
    BY <1>2 DEF TypeOK
  <2>3. \A p \in Requests : launch'[p] # NoLaunch =>
          /\ launch'[p].member \in Customers
          /\ launch'[p].capability \in Capabilities
          /\ DOMAIN launch'[p].input \subseteq Inputs
          /\ launch'[p].router \in Routers
    BY <1>6 DEF Valid
  <2> QED BY <1>1, <1>2, <2>1, <2>2, <2>3 DEF TypeOK
<1>8. Asked(jar)' /\ \A p \in Requests : Asked(sent[p])' /\ Asked(session[p])'
  <2>1. \A x \in Sessions : Asked(x) => Asked(x)'
    BY <1>1, AskedStays
  <2>2. /\ jar \in Sessions /\ \A p \in Requests : sent[p] \in Sessions /\ session[p] \in Sessions
    BY <1>2 DEF TypeOK
  <2>3. owner'[jar.pending.run] = jar.customer \/ jar.pending = NoQuestion \/ jar.customer = Nobody
    BY <1>2, <2>1, <2>2 DEF Asked
  <2>4. \A p \in Requests : p # q => sent'[p] = sent[p] /\ session'[p] = session[p]
    BY <1>1, <1>2 DEF TypeOK
  <2>5. sent'[q] = jar /\ session'[q] = s
    BY <1>1, <1>2 DEF TypeOK
  <2> QED BY <1>1, <1>2, <2>1, <2>2, <2>3, <2>4, <2>5 DEF Asked
<1>9. \A p \in Requests : Unused(p)'
  BY <1>1, <1>2, <1>4 DEF Unused, TypeOK
<1>10. \A p \in Requests : Served(p)'
  <2> SUFFICES ASSUME NEW p \in Requests PROVE Served(p)'
    OBVIOUS
  <2>1. CASE p = q
    <3>1. sent'[q] = jar /\ serves'[q] = r
      BY <1>1, <1>2 DEF TypeOK
    <3> QED BY <1>3, <1>4, <1>5, <2>1, <3>1 DEF Served
  <2>2. CASE p # q
    <3>1. /\ sent'[p] = sent[p] /\ serves'[p] = serves[p] /\ launch'[p] = launch[p]
      BY <1>1, <1>2, <1>4, <2>2 DEF TypeOK
    <3>2. serves[p] # Nobody => owner'[serves[p]] = owner[serves[p]]
      <4>1. serves[p] # Nobody => serves[p] \in Requests /\ owner[serves[p]] # Nobody
        BY <1>2 DEF TypeOK, Served
      <4>2. owner[q] = Nobody
        BY <1>1, <1>2 DEF Unused
      <4> QED BY <1>2, <4>1, <4>2 DEF TypeOK
    <3> QED BY <1>2, <3>1, <3>2 DEF Served
  <2> QED BY <2>1, <2>2
<1>11. \A p \in Requests : Kept(p)'
  BY <1>1, <1>2 DEF Kept, TypeOK
<1>12. LaunchIsValidated'
  BY <1>1, <1>6 DEF Valid, Blocked, WritesEnabled, LaunchIsValidated, OwnAccountsOnly,
     WritesFailClosed, RankedIsComplete
<1> QED BY <1>4, <1>7, <1>8, <1>9, <1>10, <1>11, <1>12 DEF IInv

\* Logins and logouts: no RunState is worked on and nothing launched.
LEMMA IdentitiesKeep ==
  ASSUME IInv, NEW q \in Requests,
         NEW for \in {"customer", "employee"}, NEW s \in Sessions,
         NEW changed \in BOOLEAN, Handles(q, for, s, changed),
         for # "customer" => s.customer = jar.customer,
         for # "employee" => s.employee = jar.employee,
         \/ s.pending = NoQuestion
         \/ s.customer = Nobody
         \/ s.pending = jar.pending /\ s.customer = jar.customer,
         UNCHANGED <<serves, owner, launch>>
  PROVE  IInv'
<1>1. serves' = [serves EXCEPT ![q] = Nobody]
  BY DEF IInv, TypeOK, Unused, Handles, IsNext
<1>2. Asked(s)'
  BY DEF IInv, Asked
<1>3. owner' = owner /\ launch' = launch
  OBVIOUS
<1> QED BY <1>1, <1>2, <1>3, HandlesKeeps, Zenon

LEMMA LoginsAndLogoutsKeep ==
  ASSUME IInv, NEW q \in Requests,
         \/ \E c \in Customers : CustomerLogin(q, c)
         \/ \E e \in Employees : EmployeeLogin(q, e)
         \/ CustomerLogout(q)
         \/ EmployeeLogout(q)
  PROVE  IInv'
<1>1. /\ jar \in [customer : Customers \cup {Nobody}, employee : Employees \cup {Nobody},
                  pending : Questions \cup {NoQuestion}]
      /\ Sessions = [customer : Customers \cup {Nobody}, employee : Employees \cup {Nobody},
                     pending : Questions \cup {NoQuestion}]
  BY DEF IInv, TypeOK, Sessions
<1>2. ASSUME NEW c \in Customers, CustomerLogin(q, c) PROVE IInv'
  <2> DEFINE s == [customer |-> c, employee |-> jar.employee, pending |-> NoQuestion]
  <2>1. s \in Sessions /\ s.employee = jar.employee /\ s.pending = NoQuestion
    BY <1>1
  <2>2. Handles(q, "customer", s, TRUE) /\ UNCHANGED <<serves, owner, launch>>
    BY <1>2 DEF CustomerLogin
  <2> HIDE DEF s
  <2> QED BY <2>1, <2>2, IdentitiesKeep
<1>3. ASSUME NEW e \in Employees, EmployeeLogin(q, e) PROVE IInv'
  <2> DEFINE s == [customer |-> jar.customer, employee |-> e, pending |-> NoQuestion]
  <2>1. s \in Sessions /\ s.customer = jar.customer /\ s.pending = NoQuestion
    BY <1>1
  <2>2. Handles(q, "employee", s, TRUE) /\ UNCHANGED <<serves, owner, launch>>
    BY <1>3 DEF EmployeeLogin
  <2> HIDE DEF s
  <2> QED BY <2>1, <2>2, IdentitiesKeep
<1>4. ASSUME CustomerLogout(q) PROVE IInv'
  <2> DEFINE s == [jar EXCEPT !.customer = Nobody]
             changed == jar.customer # Nobody
  <2>1. s \in Sessions /\ s.employee = jar.employee /\ s.customer = Nobody
    BY <1>1
  <2>2. Handles(q, "customer", s, changed) /\ UNCHANGED <<serves, owner, launch>>
    BY <1>4 DEF CustomerLogout
  <2>3. changed \in BOOLEAN
    OBVIOUS
  <2> HIDE DEF s, changed
  <2> QED BY <2>1, <2>2, <2>3, IdentitiesKeep
<1>5. ASSUME EmployeeLogout(q) PROVE IInv'
  <2> DEFINE s == [jar EXCEPT !.employee = Nobody]
             changed == jar.employee # Nobody
  <2>1. s \in Sessions /\ s.customer = jar.customer /\ s.pending = jar.pending
    BY <1>1
  <2>2. Handles(q, "employee", s, changed) /\ UNCHANGED <<serves, owner, launch>>
    BY <1>5 DEF EmployeeLogout
  <2>3. changed \in BOOLEAN
    OBVIOUS
  <2> HIDE DEF s, changed
  <2> QED BY <2>1, <2>2, <2>3, IdentitiesKeep
<1> QED BY <1>2, <1>3, <1>4, <1>5

\* Whatever becomes of a route, the session keeps its identities, the question in
\* it is the old one, none, or one about r, and a launch is valid.
LEMMA ActsForms ==
  ASSUME IInv, NEW q \in Requests, NEW r \in Requests, jar.customer \in Customers,
         NEW kept \in {jar.pending, NoQuestion}, NEW route, IsRoute(route),
         Acts(q, r, kept, route)
  PROVE  \E s, changed, l :
           /\ s \in Sessions /\ changed \in BOOLEAN
           /\ Handles(q, "chat", s, changed)
           /\ s.customer = jar.customer /\ s.employee = jar.employee
           /\ s.pending \in {jar.pending, NoQuestion} \/ s.pending.run = r
           /\ \/ launch' = launch
              \/ /\ launch' = [launch EXCEPT ![q] = l]
                 /\ l.member = jar.customer /\ Valid(l)
<1> DEFINE With(question) == [jar EXCEPT !.pending = question]
           Asking == [capability |-> route.capability, run |-> r]
<1>1. \A x \in Questions \cup {NoQuestion} :
        /\ With(x) \in Sessions
        /\ With(x).customer = jar.customer /\ With(x).employee = jar.employee
        /\ With(x).pending = x
  BY DEF IInv, TypeOK, Sessions
<1>2. kept \in Questions \cup {NoQuestion} /\ NoQuestion \in Questions \cup {NoQuestion}
  BY DEF IInv, TypeOK, Sessions
<1>3. route.capability \in Capabilities => Asking \in Questions /\ Asking.run = r
  BY DEF Questions
<1>4. CASE route.does = "reply" /\ Handles(q, "chat", With(kept), kept # jar.pending)
           /\ UNCHANGED launch
  <2>1. (kept # jar.pending) \in BOOLEAN
    OBVIOUS
  <2> HIDE DEF With
  <2> QED BY <1>1, <1>2, <1>4, <2>1
<1>5. CASE /\ route.does = "ask" \/ route.does = "run"
           /\ Handles(q, "chat", With(Asking), TRUE) /\ UNCHANGED launch
  <2>1. Asking \in Questions \cup {NoQuestion}
    BY <1>3, <1>5 DEF IsRoute
  <2>2. Asking.run = r
    BY <1>3, <1>5 DEF IsRoute
  <2> HIDE DEF With, Asking
  <2> QED BY <1>1, <1>5, <2>1, <2>2
<1>6. CASE /\ route.does = "run" /\ ~NotOwned(jar.customer, route)
           /\ Handles(q, "chat", With(NoQuestion), jar.pending # NoQuestion)
           /\ \/ ~Blocked(route.capability) /\ Launches(q, jar.customer, route)
              \/ UNCHANGED launch
  <2> DEFINE l == [member |-> jar.customer, capability |-> route.capability,
                   input |-> route.input, router |-> route.router]
  <2>1. (jar.pending # NoQuestion) \in BOOLEAN
    OBVIOUS
  <2>2. /\ l.member = jar.customer /\ l.capability = route.capability
        /\ l.input = route.input /\ l.router = route.router
    OBVIOUS
  <2>3. launch' = launch \/ (~Blocked(route.capability) /\ launch' = [launch EXCEPT ![q] = l])
    BY <1>6 DEF Launches
  <2> HIDE DEF l
  <2>4. ~Blocked(route.capability) => Valid(l)
    BY <1>6, <2>2 DEF IsRoute, NotOwned, Valid
  <2> HIDE DEF With
  <2> QED BY <1>1, <1>2, <1>6, <2>1, <2>2, <2>3, <2>4
<1> QED BY <1>4, <1>5, <1>6 DEF Acts

LEMMA ChatKeeps ==
  ASSUME IInv, NEW q \in Requests, NEW answer \in Accounts \cup {None}, Chat(q, answer)
  PROVE  IInv'
<1> DEFINE asked == jar.pending
           answers == asked # NoQuestion /\ answer # None
           straight == answers /\ "account_no" \in Needs[asked.capability]
           r == IF answers THEN asked.run ELSE q
           direct == Runs(asked.capability, [i \in {"account_no"} |-> answer], "answer")
<1>1. /\ pc[q] = "idle" /\ jar.customer # Nobody
      /\ serves' = [serves EXCEPT ![q] = r]
      /\ owner' = IF answers THEN owner ELSE [owner EXCEPT ![q] = jar.customer]
      /\ \/ straight /\ Acts(q, r, asked, direct)
         \/ ~straight /\ \E route \in Routes({m \in Messages : m.answer = answer}) :
                           Acts(q, r, NoQuestion, route)
  BY DEF Chat, IsNext
<1>2. jar \in Sessions /\ jar.customer \in Customers /\ Asked(jar)
  BY <1>1 DEF IInv, TypeOK, Sessions
<1>3. asked # NoQuestion => asked \in Questions
  BY <1>2 DEF Sessions
<1>4. r \in Requests /\ owner'[r] = jar.customer
  <2>1. CASE answers
    BY <1>1, <1>2, <1>3, <2>1 DEF Questions, Asked
  <2>2. CASE ~answers
    BY <1>1, <2>2 DEF IInv, TypeOK
  <2> QED BY <2>1, <2>2
<1>5. PICK kept, route : /\ kept \in {jar.pending, NoQuestion}
                        /\ IsRoute(route) /\ Acts(q, r, kept, route)
  <2>1. CASE straight /\ Acts(q, r, asked, direct)
    <3>1. asked.capability \in Capabilities
      BY <1>3, <2>1 DEF Questions
    <3>2. DOMAIN [i \in {"account_no"} |-> answer] \subseteq Inputs
      BY DEF Inputs, AccountInputs
    <3>3. IsRoute(direct)
      BY <3>1, <3>2 DEF Runs, IsRoute, Routers
    <3> HIDE DEF direct
    <3> QED BY <2>1, <3>3
  <2>2. CASE \E route \in Routes({m \in Messages : m.answer = answer}) :
               Acts(q, r, NoQuestion, route)
    <3>1. {m \in Messages : m.answer = answer} \in SUBSET Messages
      OBVIOUS
    <3> QED BY <2>2, <3>1, RoutesAreRoutes
  <2> QED BY <1>1, <2>1, <2>2
<1> HIDE DEF r
<1>6. PICK s, changed, l :
        /\ s \in Sessions /\ changed \in BOOLEAN
        /\ Handles(q, "chat", s, changed)
        /\ s.customer = jar.customer /\ s.employee = jar.employee
        /\ s.pending \in {jar.pending, NoQuestion} \/ s.pending.run = r
        /\ \/ launch' = launch
           \/ /\ launch' = [launch EXCEPT ![q] = l]
              /\ l.member = jar.customer /\ Valid(l)
  BY <1>2, <1>4, <1>5, ActsForms
<1>7. owner' = owner \/ owner' = [owner EXCEPT ![q] = jar.customer]
  BY <1>1
<1>8. \A x \in Sessions : Asked(x) => Asked(x)'
  BY <1>1, <1>7, AskedStays
<1>9. Asked(s)'
  <2>1. jar.pending = NoQuestion \/ owner'[jar.pending.run] = jar.customer
    BY <1>1, <1>2, <1>8 DEF Asked
  <2> QED BY <1>4, <1>6, <2>1 DEF Asked
<1>10. r # Nobody
  BY <1>4, PortalAssumption DEF PortalAssumption
<1>11. launch' = launch
       \/ (r # Nobody /\ l.member = jar.customer /\ Valid(l) /\ launch' = [launch EXCEPT ![q] = l])
  BY <1>6, <1>10
<1>12. /\ s \in Sessions /\ changed \in BOOLEAN
       /\ r \in Requests \cup {Nobody} /\ serves' = [serves EXCEPT ![q] = r]
       /\ jar.customer \in Customers /\ owner'[r] = jar.customer
       /\ Handles(q, "chat", s, changed)
       /\ s.customer = jar.customer /\ s.employee = jar.employee
  BY <1>1, <1>2, <1>4, <1>6
<1>13. "chat" \in {"customer", "employee", "chat"}
  OBVIOUS
<1> HIDE DEF asked, answers, straight, direct
<1> QED BY ONLY IInv, q \in Requests, <1>7, <1>9, <1>11, <1>12, <1>13, HandlesKeeps

--------------------------------------------------------------------------------
(* Responses, and the theorems *)

LEMMA DeliverKeeps ==
  ASSUME IInv, NEW q \in Requests, Deliver(q)
  PROVE  IInv'
<1>1. /\ TypeOK /\ launch = [p \in Requests |-> launch[p]] /\ Asked(jar)
      /\ \A p \in Requests :
           Asked(sent[p]) /\ Asked(session[p]) /\ Unused(p) /\ Served(p) /\ Kept(p)
      /\ LaunchIsValidated
  BY DEF IInv
<1>2. NoSession \in Sessions /\ NoSession.pending = NoQuestion
  BY DEF NoSession, Sessions
<1>3. /\ owner' = owner /\ config' = config
      /\ launch' = [launch EXCEPT ![q] = NoLaunch]
      /\ launch' = [p \in Requests |-> launch'[p]]
      /\ \A p \in Requests : launch'[p] \in {launch[p], NoLaunch}
  BY <1>1 DEF Deliver
<1>4. TypeOK'
  <2>1. jar' \in Sessions
    BY <1>1 DEF Deliver, TypeOK
  <2>2. \A p \in Requests : launch'[p] # NoLaunch =>
          /\ launch'[p].member \in Customers
          /\ launch'[p].capability \in Capabilities
          /\ DOMAIN launch'[p].input \subseteq Inputs
          /\ launch'[p].router \in Routers
    BY <1>1, <1>3 DEF TypeOK
  <2> QED BY <1>1, <1>2, <2>1, <2>2 DEF Deliver, TypeOK
<1>5. Asked(jar)' /\ \A p \in Requests : Asked(sent[p])' /\ Asked(session[p])'
  BY <1>1, <1>2 DEF Deliver, TypeOK, Asked
<1>6. \A p \in Requests : Unused(p)' /\ Served(p)' /\ Kept(p)'
  BY <1>1, <1>3 DEF Deliver, TypeOK, Unused, Served, Kept
<1>7. LaunchIsValidated'
  BY <1>1, <1>3 DEF LaunchIsValidated, OwnAccountsOnly, WritesFailClosed,
     RankedIsComplete, Blocked, WritesEnabled
<1> QED BY <1>3, <1>4, <1>5, <1>6, <1>7 DEF IInv

THEOREM Invariance == Spec => []IInv
<1>1. IInv /\ [Next]_vars => IInv'
  <2> SUFFICES ASSUME IInv, [Next]_vars PROVE IInv'
    OBVIOUS
  <2>1. CASE Next
    BY <2>1, LoginsAndLogoutsKeep, ChatKeeps, DeliverKeeps DEF Next
  <2>2. CASE UNCHANGED vars
    BY <2>2 DEF vars, IInv, TypeOK, Asked, Unused, Served, Kept, LaunchIsValidated,
       OwnAccountsOnly, WritesFailClosed, RankedIsComplete, Blocked, WritesEnabled
  <2> QED BY <2>1, <2>2
<1> QED BY <1>1, InitIInv, PTL DEF Spec

\* Every variable has its type.
THEOREM TypeCorrect == Spec => []TypeOK
<1>1. IInv => TypeOK
  BY DEF IInv
<1> QED BY <1>1, Invariance, PTL

\* A question, its answer and the replay they lead to are one customer's, whatever
\* comes between them and in whatever order responses arrive.
THEOREM OneCustomer == Spec => []RunsServeOneCustomer
<1>1. IInv => RunsServeOneCustomer
  BY DEF IInv, Served, Asked, RunsServeOneCustomer
<1> QED BY <1>1, Invariance, PTL

\* Every route to a launch passes the validation of accounts and the rule for writes,
\* and the ranker's launches are complete.
THEOREM EveryLaunchIsValidated == Spec => []LaunchIsValidated
<1>1. IInv => LaunchIsValidated
  BY DEF IInv
<1> QED BY <1>1, Invariance, PTL

\* A response to a request of the identities the browser still has changes no other
\* identity than the one the request was for.
THEOREM IndependentSurfaces == Spec => SurfacesAreIndependent
<1> DEFINE Independent ==
      \A q \in Requests :
        pc[q] = "answered" /\ pc'[q] = "over" /\ Identities(sent[q]) = Identities(jar) =>
          /\ jar'.customer # jar.customer => surface[q] = "customer"
          /\ jar'.employee # jar.employee => surface[q] = "employee"
<1>1. IInv /\ [Next]_vars => [Independent]_vars
  <2> SUFFICES ASSUME IInv, Next, NEW q \in Requests,
                      pc[q] = "answered", pc'[q] = "over", Identities(sent[q]) = Identities(jar)
               PROVE  /\ jar'.customer # jar.customer => surface[q] = "customer"
                      /\ jar'.employee # jar.employee => surface[q] = "employee"
    OBVIOUS
  <2>1. PICK p \in Requests : Deliver(p) \/ pc' = [pc EXCEPT ![p] = "answered"]
    <3>1. \A p \in Requests : \A for, s, changed :
            Handles(p, for, s, changed) => pc' = [pc EXCEPT ![p] = "answered"]
      BY DEF Handles
    <3>2. \A p \in Requests : \A r, kept, route :
            Acts(p, r, kept, route) => pc' = [pc EXCEPT ![p] = "answered"]
      BY <3>1 DEF Acts
    <3> QED BY <3>1, <3>2 DEF Next, CustomerLogin, EmployeeLogin, CustomerLogout,
               EmployeeLogout, Chat
  <2>2. pc \in [Requests -> {"idle", "answered", "over"}] /\ Kept(q)
    BY DEF IInv, TypeOK
  <2>3. Deliver(q)
    BY <2>1, <2>2 DEF Deliver
  <2> QED BY <2>2, <2>3 DEF Deliver, Kept, Identities
<1>2. SurfacesAreIndependent <=> [][Independent]_vars
  BY DEF SurfacesAreIndependent
<1> HIDE DEF Independent
<1> QED BY <1>1, <1>2, Invariance, PTL DEF Spec

================================================================================
