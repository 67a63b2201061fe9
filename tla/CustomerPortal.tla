----------------------------- MODULE CustomerPortal ----------------------------
(***************************************************************************)
(* The customer and employee surfaces of meridian_service/app.py as one     *)
(* browser uses them: logins, logouts and chat messages, from several tabs. *)
(*                                                                          *)
(* Everything a surface remembers is in one signed cookie.  A request       *)
(* carries the cookie as it was when it was sent; a response whose handler  *)
(* modified the session replaces all of it.  A chat answers after its       *)
(* replay, so responses arrive in any order.                                *)
(*                                                                          *)
(* Of a chat this is what RunService.tla leaves out: what a message is      *)
(* routed to and launched with.  A message is what routing finds in it; a   *)
(* Topic is the capability that ranks clearly first, None stands for        *)
(* everything answered by a reply alone.  Pages that are only read, wrong   *)
(* passwords, and chats without a customer (401) change nothing.            *)
(***************************************************************************)
EXTENDS Naturals, Sequences, FiniteSets

CONSTANTS
  Customers,      \* KNOWN_CUSTOMERS
  Employees,      \* KNOWN_EMPLOYEES
  Accounts,       \* account numbers a message may name
  Owned,          \* customer -> the accounts of the profile
  Capabilities,   \* published for the customer's system
  Needs,          \* capability -> its required inputs, without member_id
  Mutating,       \* capabilities with a risky step
  Configs,        \* settings of the environment the service may run under
  MaxRequests,    \* bound: requests the browser makes
  MaxInFlight,    \* bound: requests whose responses are awaited at a time
  Nobody,         \* no identity, no run
  None,           \* no capability, no account
  Text            \* the value of an input that is not an account

AccountInputs == {"account_no", "from_account", "to_account"}
Inputs == AccountInputs \cup {"detail"}
Requests == 1 .. MaxRequests

ASSUME PortalAssumption ==
  /\ Owned \in [Customers -> SUBSET Accounts]
  /\ Needs \in [Capabilities -> SUBSET Inputs]
  /\ Mutating \subseteq Capabilities
  /\ Configs \subseteq [synthetic : BOOLEAN, readOnly : BOOLEAN,
                        writes : BOOLEAN, key : BOOLEAN]
  /\ MaxRequests \in Nat
  /\ MaxInFlight \in Nat
  /\ Nobody \notin Customers \cup Employees \cup Requests
  /\ None \notin Capabilities \cup Accounts

VARIABLES
  config,    \* the environment
  jar,       \* the cookie in the browser
  pc,        \* whether a request is still to be made, is on its way or over
  sent,      \* the cookie a request carried
  session,   \* the session its handler left behind
  modified,  \* its response carries that session
  surface,   \* what it was for
  serves,    \* the RunState a chat works on, named after the chat that made it
  owner,     \* RunState -> the customer whose request it is
  launch     \* the replay a chat started

vars == <<config, jar, pc, sent, session, modified, surface, serves, owner, launch>>

NoQuestion == [capability |-> None, run |-> Nobody]
Questions == [capability : Capabilities, run : Requests]
Sessions ==
  [customer : Customers \cup {Nobody},
   employee : Employees \cup {Nobody},
   pending  : Questions \cup {NoQuestion}]

NoSession == [customer |-> Nobody, employee |-> Nobody, pending |-> NoQuestion]

Routers == {"answer", "ranker", "llm"}
NoLaunch == [member |-> Nobody, capability |-> None, input |-> <<>>, router |-> "answer"]

TypeOK ==
  /\ config \in Configs
  /\ jar \in Sessions
  /\ pc \in [Requests -> {"idle", "answered", "over"}]
  /\ sent \in [Requests -> Sessions]
  /\ session \in [Requests -> Sessions]
  /\ modified \in [Requests -> BOOLEAN]
  /\ surface \in [Requests -> {"customer", "employee", "chat", "none"}]
  /\ serves \in [Requests -> Requests \cup {Nobody}]
  /\ owner \in [Requests -> Customers \cup {Nobody}]
  /\ \A q \in Requests : launch[q] # NoLaunch =>
       /\ launch[q].member \in Customers
       /\ launch[q].capability \in Capabilities
       /\ DOMAIN launch[q].input \subseteq Inputs
       /\ launch[q].router \in Routers

\* A browser that has logged in to what it likes and asked nothing yet.
Init ==
  /\ config \in Configs
  /\ jar \in {s \in Sessions : s.pending = NoQuestion}
  /\ pc = [q \in Requests |-> "idle"]
  /\ sent = [q \in Requests |-> NoSession]
  /\ session = [q \in Requests |-> NoSession]
  /\ modified = [q \in Requests |-> FALSE]
  /\ surface = [q \in Requests |-> "none"]
  /\ serves = [q \in Requests |-> Nobody]
  /\ owner = [q \in Requests |-> Nobody]
  /\ launch = [q \in Requests |-> NoLaunch]

--------------------------------------------------------------------------------
(* Requests and responses *)

IsNext(q) ==
  /\ pc[q] = "idle"
  /\ \A p \in 1 .. q - 1 : pc[p] # "idle"
  /\ Cardinality({p \in Requests : pc[p] = "answered"}) < MaxInFlight

\* q is sent with the cookie of the moment; its handler leaves the session s.
Handles(q, for, s, changed) ==
  /\ IsNext(q)
  /\ pc' = [pc EXCEPT ![q] = "answered"]
  /\ sent' = [sent EXCEPT ![q] = jar]
  /\ session' = [session EXCEPT ![q] = s]
  /\ modified' = [modified EXCEPT ![q] = changed]
  /\ surface' = [surface EXCEPT ![q] = for]
  /\ UNCHANGED <<config, jar>>

\* The response arrives, and nothing needs to be known of the request any more.
Deliver(q) ==
  /\ pc[q] = "answered"
  /\ pc' = [pc EXCEPT ![q] = "over"]
  /\ jar' = IF modified[q] THEN session[q] ELSE jar
  /\ sent' = [sent EXCEPT ![q] = NoSession]
  /\ session' = [session EXCEPT ![q] = NoSession]
  /\ modified' = [modified EXCEPT ![q] = FALSE]
  /\ surface' = [surface EXCEPT ![q] = "none"]
  /\ serves' = [serves EXCEPT ![q] = Nobody]
  /\ launch' = [launch EXCEPT ![q] = NoLaunch]
  /\ UNCHANGED <<config, owner>>

\* FAULT: the customer is put into the session as it is.
CustomerLogin_KeepFault(q, c) ==
  /\ Handles(q, "customer", [jar EXCEPT !.customer = c], TRUE)
  /\ UNCHANGED <<serves, owner, launch>>

\* FAULT: everything is cleared.
CustomerLogin_ClearFault(q, c) ==
  /\ Handles(q, "customer",
             [customer |-> c, employee |-> Nobody, pending |-> NoQuestion], TRUE)
  /\ UNCHANGED <<serves, owner, launch>>

\* The session is cleared but for the employee of the same browser.
CustomerLogin(q, c) ==
  /\ Handles(q, "customer",
             [customer |-> c, employee |-> jar.employee, pending |-> NoQuestion], TRUE)
  /\ UNCHANGED <<serves, owner, launch>>

\* Only the identity goes; an unanswered question stays in the cookie.
CustomerLogout(q) ==
  /\ Handles(q, "customer", [jar EXCEPT !.customer = Nobody], jar.customer # Nobody)
  /\ UNCHANGED <<serves, owner, launch>>

\* The session is cleared but for the customer, whose question is lost.
EmployeeLogin(q, e) ==
  /\ Handles(q, "employee",
             [customer |-> jar.customer, employee |-> e, pending |-> NoQuestion], TRUE)
  /\ UNCHANGED <<serves, owner, launch>>

EmployeeLogout(q) ==
  /\ Handles(q, "employee", [jar EXCEPT !.employee = Nobody], jar.employee # Nobody)
  /\ UNCHANGED <<serves, owner, launch>>

--------------------------------------------------------------------------------
(* _route_customer_message *)

\* An account-only message is a possible answer to a question.
Messages ==
  [topic : Capabilities \cup {None}, accounts : UNION {[1 .. n -> Accounts] : n \in 0 .. 2},
   detail : BOOLEAN, answer : {None}]
  \cup
  {[topic |-> t, accounts |-> <<a>>, detail |-> FALSE, answer |-> a] :
     t \in Capabilities \cup {None}, a \in Accounts}

Replies == [does |-> "reply"]
Asks(c) == [does |-> "ask", capability |-> c]
Runs(c, input, router) ==
  [does |-> "run", capability |-> c, input |-> input, router |-> router]

WritesEnabled == config.writes /\ config.synthetic
Blocked(c) == config.readOnly /\ c \in Mutating /\ ~WritesEnabled

\* The inputs the ranker finds in m for c.
Supplied(m, c) ==
  {i \in Needs[c] : CASE i = "detail" -> m.detail
                      [] i = "to_account" -> Len(m.accounts) > 1
                      [] OTHER -> m.accounts # <<>>}

Extracted(m, c) ==
  [i \in Supplied(m, c) |-> CASE i = "detail" -> Text
                              [] i = "to_account" -> m.accounts[2]
                              [] OTHER -> m.accounts[1]]

\* FAULT: the question back is remembered without a capability to ask for.
Ranked_Fault(m) ==
  LET c == m.topic
      missing == IF c = None THEN {"account_no"} ELSE Needs[c] \ Supplied(m, c)
  IN CASE c # None /\ (Blocked(c) \/ missing = {}) -> Runs(c, Extracted(m, c), "ranker")
       [] missing = {"account_no"} -> Asks(c)
       [] OTHER -> Replies

\* _public_demo_route: run what is complete, ask for an account that is all that
\* is missing and remember the question, answer anything else.
Ranked(m) ==
  LET c == m.topic
      missing == Needs[c] \ Supplied(m, c)
  IN CASE c = None -> Replies
       [] c # None /\ Blocked(c) -> Runs(c, <<>>, "ranker")
       [] c # None /\ ~Blocked(c) /\ missing = {} -> Runs(c, Extracted(m, c), "ranker")
       [] c # None /\ ~Blocked(c) /\ missing = {"account_no"} -> Asks(c)
       [] OTHER -> Replies

\* _llm_chat_route: a reply, or a tool call with whatever arguments.
Called ==
  {Replies} \cup
  UNION {{Runs(c, input, "llm") :
            input \in UNION {[S -> Accounts] : S \in SUBSET (Needs[c] \cap AccountInputs)}} :
         c \in Capabilities}

\* What some message of M may be routed to.  With a key the model is asked first;
\* without it, or when it cannot be reached, the bundled demo ranks and any other
\* deployment gives up.
Routes(M) ==
  (IF config.key THEN Called ELSE {})
    \cup (IF config.synthetic THEN {Ranked(m) : m \in M} ELSE {Replies})

--------------------------------------------------------------------------------
(* api_chat *)

Launches(q, member, route) ==
  launch' = [launch EXCEPT ![q] = [member |-> member, capability |-> route.capability,
                                   input |-> route.input, router |-> route.router]]

\* FAULT: an answered question is not validated again.
NotOwned_Fault(c, route) ==
  /\ config.synthetic
  /\ route.router # "answer"
  /\ \E i \in AccountInputs \cap DOMAIN route.input : route.input[i] \notin Owned[c]

\* _validate_customer_account_inputs finds an account that is not c's.
NotOwned(c, route) ==
  /\ config.synthetic
  /\ \E i \in AccountInputs \cap DOMAIN route.input : route.input[i] \notin Owned[c]

\* What becomes of a routed message of the run r.  kept is the question the
\* session still holds.  A launch fails where public writes are disabled, and may
\* fail for the credentials of a bank other than the bundled one.
Acts(q, r, kept, route) ==
  LET c == jar.customer
      With(question) == [jar EXCEPT !.pending = question]
      Asking(capability) == With([capability |-> capability, run |-> r])
  IN \/ /\ route.does = "reply"
        /\ Handles(q, "chat", With(kept), kept # jar.pending)
        /\ UNCHANGED launch
     \/ /\ route.does = "ask"
        /\ Handles(q, "chat", Asking(route.capability), TRUE)
        /\ UNCHANGED launch
     \/ /\ route.does = "run" /\ NotOwned(c, route)
        /\ Handles(q, "chat", Asking(route.capability), TRUE)
        /\ UNCHANGED launch
     \/ /\ route.does = "run" /\ ~NotOwned(c, route)
        /\ Handles(q, "chat", With(NoQuestion), jar.pending # NoQuestion)
        /\ \/ ~Blocked(route.capability) /\ Launches(q, c, route)
           \/ (Blocked(route.capability) \/ ~config.synthetic) /\ UNCHANGED launch

\* A message whose answer is an account, or None for all that are more than that.
\* One that answers the pending question goes on with its RunState, any other one
\* has a RunState of its own; the capability asked about is run at once with the
\* account as its only input, if an account is what it needs.
Chat(q, answer) ==
  LET c == jar.customer
      asked == jar.pending
      answers == asked # NoQuestion /\ answer # None
      straight == answers /\ "account_no" \in Needs[asked.capability]
      r == IF answers THEN asked.run ELSE q
  IN /\ IsNext(q)
     /\ c # Nobody
     /\ IF straight
        THEN Acts(q, r, asked,
                  Runs(asked.capability, [i \in {"account_no"} |-> answer], "answer"))
        ELSE \E route \in Routes({m \in Messages : m.answer = answer}) :
               Acts(q, r, NoQuestion, route)
     /\ serves' = [serves EXCEPT ![q] = r]
     /\ owner' = IF answers THEN owner ELSE [owner EXCEPT ![q] = c]

Next ==
  \E q \in Requests :
    \/ \E c \in Customers : CustomerLogin(q, c)
    \/ \E e \in Employees : EmployeeLogin(q, e)
    \/ CustomerLogout(q)
    \/ EmployeeLogout(q)
    \/ \E answer \in Accounts \cup {None} : Chat(q, answer)
    \/ Deliver(q)

Spec == Init /\ [][Next]_vars
--------------------------------------------------------------------------------
(* Properties *)

\* "The logged-in member identity is bound on the server" (README.md): whatever
\* logins, logouts and late responses come between a question and its answer, a
\* RunState is only ever worked on, and a replay only ever launched, for the
\* customer whose request it is; and the question in the cookie is the customer's
\* who is logged in.
RunsServeOneCustomer ==
  /\ \A q \in Requests :
       /\ serves[q] # Nobody => owner[serves[q]] = sent[q].customer
       /\ launch[q] # NoLaunch => owner[serves[q]] = launch[q].member
  /\ jar.pending # NoQuestion /\ jar.customer # Nobody =>
       owner[jar.pending.run] = jar.customer

\* A launched replay touches only accounts of its member, in the bundled demo.
OwnAccountsOnly ==
  \A q \in Requests : launch[q] # NoLaunch /\ config.synthetic =>
    \A i \in AccountInputs \cap DOMAIN launch[q].input :
      launch[q].input[i] \in Owned[launch[q].member]

\* Nothing that writes is launched where public writes are disabled.
WritesFailClosed ==
  \A q \in Requests : launch[q] # NoLaunch => ~Blocked(launch[q].capability)

\* What the ranker launches has all its inputs; only the answer to a question,
\* which repeats the account and nothing else of the first message, and a model's
\* tool call can reach the engine short of one.
RankedIsComplete ==
  \A q \in Requests : launch[q] # NoLaunch /\ launch[q].router = "ranker" =>
    Needs[launch[q].capability] \subseteq DOMAIN launch[q].input

\* "Required account IDs and typed inputs are validated before execution"
\* (README.md), on every path that leads to a launch.
LaunchIsValidated == OwnAccountsOnly /\ WritesFailClosed /\ RankedIsComplete

Identities(s) == <<s.customer, s.employee>>

\* "Demoing both surfaces side by side shouldn't log one out to log the other in"
\* (app.py:1660): a response to a request that was sent with the identities the
\* browser still has changes only the identity it was for.  (A response to an older
\* request brings the identities of its time back.)
SurfacesAreIndependent ==
  [][\A q \in Requests :
       pc[q] = "answered" /\ pc'[q] = "over" /\ Identities(sent[q]) = Identities(jar) =>
         /\ jar'.customer # jar.customer => surface[q] = "customer"
         /\ jar'.employee # jar.employee => surface[q] = "employee"]_vars
================================================================================
