---------------------------------- MODULE Bank ---------------------------------
(***************************************************************************)
(* mock_app/data.py behind the routes of mock_app/app.py: the accounts and  *)
(* the card of one member, under requests that gunicorn serves with several *)
(* threads and no lock.  An operation is as many steps as it has accesses   *)
(* to what the others write.                                                *)
(*                                                                          *)
(* A balance is kept as text with two decimals, an amount is whatever       *)
(* float() reads: so balances here are whole cents, amounts are whole units *)
(* of which Cent make a cent, and either can be NaN, which no comparison    *)
(* rejects.  Left out: infinite amounts; reference numbers, and the lists   *)
(* of bills, holds, loans and sub-accounts, which nothing reads; contact    *)
(* details; and forms refused before any account is looked up.              *)
(***************************************************************************)
EXTENDS Integers

CONSTANTS
  Accounts,     \* Member.accounts, by number
  Opening,      \* [Accounts -> Nat], their balances at the start
  Threads,      \* the bank's request threads
  Cent,         \* units of an amount in a cent
  Amounts,      \* what float() makes of the amounts on the forms
  NaN,          \* float("nan")
  MaxRequests   \* bound: requests received

ASSUME NumberAssumption == NaN \notin Int
ASSUME MoneyAssumption ==
  /\ Cent \in Nat \ {0}
  /\ Amounts \subseteq Int \cup {NaN}
  /\ Opening \in [Accounts -> Nat]
ASSUME SomeAssumption == Accounts # {} /\ Amounts # {}
ASSUME CardAssumption == "card" \notin Accounts

VARIABLES
  balance,   \* Account.balance
  status,    \* Account.status
  card,      \* Card.status of the member's card
  pc,        \* the access a thread makes next
  form,      \* the request a thread serves
  seen,      \* the balance a thread has read last
  requests,  \* how many were received
  credited,  \* history: amounts paid into an account
  debited,   \* history: amounts taken from an account
  posted,    \* history: how often an account's balance was written
  toggles,   \* history: how often the card's status was written
  fresh,     \* history: threads whose last reading still holds
  stale,     \* history: what was written from a reading that did not
  paidIn     \* history: accounts credited while CLOSED

ledger == <<balance, credited, debited, posted, stale, paidIn>>
plastic == <<card, toggles>>
vars == <<ledger, plastic, status, pc, form, seen, requests, fresh>>

Balances == Nat \cup {NaN}
Statuses == {"OPEN", "HOLD", "CLOSED"}
CardStatuses == {"ACTIVE", "LOCKED"}
Operations == {"transfer", "pay_bill", "close", "hold", "toggle"}
Pcs == {"idle", "status", "available", "debit", "to", "credit", "closing",
        "empty", "close", "holding", "hold", "card", "lock", "unlock"}

\* What a request's form says, and the fields an operation does not look at.
Forms == [op : Operations, from : Accounts, to : Accounts, amount : Amounts]
SomeAccount == CHOOSE a \in Accounts : TRUE
SomeAmount == CHOOSE x \in Amounts : TRUE

TypeOK ==
  /\ balance \in [Accounts -> Balances]
  /\ status \in [Accounts -> Statuses]
  /\ card \in CardStatuses
  /\ pc \in [Threads -> Pcs]
  /\ form \in [Threads -> Forms]
  /\ seen \in [Threads -> Balances]
  /\ requests \in Nat
  /\ credited \in [Accounts -> Nat]
  /\ debited \in [Accounts -> Nat]
  /\ posted \in [Accounts -> Nat]
  /\ toggles \in Nat
  /\ fresh \subseteq Threads
  /\ stale \subseteq Accounts \cup {"card"}
  /\ paidIn \subseteq Accounts

Init ==
  /\ balance = Opening
  /\ status = [a \in Accounts |-> "OPEN"]
  /\ card = "ACTIVE"
  /\ pc = [t \in Threads |-> "idle"]
  /\ form = [t \in Threads |-> CHOOSE f \in Forms : TRUE]
  /\ seen = [t \in Threads |-> 0]
  /\ requests = 0
  /\ credited = [a \in Accounts |-> 0]
  /\ debited = [a \in Accounts |-> 0]
  /\ posted = [a \in Accounts |-> 0]
  /\ toggles = 0
  /\ fresh = {}
  /\ stale = {}
  /\ paidIn = {}

--------------------------------------------------------------------------------
(* _parse_balance and _format_balance *)

IsNumber(x) == x # NaN

\* Comparisons of floats: false as soon as one side is NaN.
AtMostZero(x) == IsNumber(x) /\ x <= 0
Exceeds(x, cents) == IsNumber(x) /\ IsNumber(cents) /\ x > Cent * cents

Distance(x, y) == IF x < y THEN y - x ELSE x - y

\* The texts a value is written as: the nearest whole cent, either of the two
\* when it lies half way between them, for binary fractions decide such ties.
Rounded(value) ==
  {c \in {value \div Cent, value \div Cent + 1} : 2 * Distance(Cent * c, value) <= Cent}

Less(cents, x) ==
  IF IsNumber(cents) /\ IsNumber(x) THEN Rounded(Cent * cents - x) ELSE {NaN}

Plus(cents, x) ==
  IF IsNumber(cents) /\ IsNumber(x) THEN Rounded(Cent * cents + x) ELSE {NaN}

Value(x) == IF IsNumber(x) THEN x ELSE 0

--------------------------------------------------------------------------------
(* Steps of a request *)

Goes(t, label) == pc' = [pc EXCEPT ![t] = label]

\* A page says why the request was refused, or the browser is sent to the page
\* that confirms it.
Answers(t) == Goes(t, "idle")

From(t) == form[t].from
To(t) == form[t].to
Amount(t) == form[t].amount

\* The account whose balance a thread has read and is about to rely on.
Source(t) == IF pc[t] = "credit" THEN To(t) ELSE From(t)

\* Threads that hold a reading of a's balance.
Readers(a) == {t \in Threads : pc[t] \in {"debit", "credit", "close"} /\ Source(t) = a}

\* t reads the balance of a.
Reads(t, a) ==
  /\ seen' = [seen EXCEPT ![t] = balance[a]]
  /\ fresh' = fresh \cup {t}

\* t writes the balance of a, which it computed from its last reading.
Writes(t, a, cents) ==
  /\ balance' = [balance EXCEPT ![a] = cents]
  /\ posted' = [posted EXCEPT ![a] = @ + 1]
  /\ stale' = IF t \in fresh THEN stale ELSE stale \cup {a}
  /\ fresh' = fresh \ Readers(a)

\* A POST route of the teller console calls its operation, whose first access is
\* at label.
Posts(t, op, from, to, amount, label) ==
  /\ requests < MaxRequests
  /\ pc[t] = "idle"
  /\ requests' = requests + 1
  /\ form' = [form EXCEPT ![t] = [op |-> op, from |-> from, to |-> to, amount |-> amount]]
  /\ Goes(t, label)
  /\ UNCHANGED <<ledger, plastic, status, seen, fresh>>

TransferExecute(t) ==
  \E a \in Accounts, b \in Accounts, x \in Amounts : Posts(t, "transfer", a, b, x, "status")

BillpayPay(t) ==
  \E a \in Accounts, x \in Amounts : Posts(t, "pay_bill", a, a, x, "available")

CloseExecute(t) == \E a \in Accounts : Posts(t, "close", a, a, SomeAmount, "closing")

HoldPlace(t) == \E a \in Accounts : Posts(t, "hold", a, a, SomeAmount, "holding")

CardsToggle(t) == Posts(t, "toggle", SomeAccount, SomeAccount, SomeAmount, "card")

Receive(t) ==
  \/ TransferExecute(t) \/ BillpayPay(t)
  \/ CloseExecute(t) \/ HoldPlace(t)
  \/ CardsToggle(t)

\* transfer_funds debits only an OPEN account.
CheckStatus(t) ==
  /\ pc[t] = "status"
  /\ IF status[From(t)] = "OPEN" THEN Goes(t, "available") ELSE Answers(t)
  /\ UNCHANGED <<ledger, plastic, status, form, seen, requests, fresh>>

\* FAULT: the amount is held against the balance of the account that is paid.
ReadAvailable_Fault(t) ==
  /\ pc[t] = "available"
  /\ Reads(t, From(t))
  /\ IF AtMostZero(Amount(t)) \/ Exceeds(Amount(t), balance[To(t)])
     THEN Answers(t)
     ELSE Goes(t, "debit")
  /\ UNCHANGED <<ledger, plastic, status, form, requests>>

\* Both operations read what is available, and refuse an amount that is not
\* greater than zero or that exceeds it.
ReadAvailable(t) ==
  /\ pc[t] = "available"
  /\ Reads(t, From(t))
  /\ IF AtMostZero(Amount(t)) \/ Exceeds(Amount(t), balance[From(t)])
     THEN Answers(t)
     ELSE Goes(t, "debit")
  /\ UNCHANGED <<ledger, plastic, status, form, requests>>

\* FAULT: both balances are read before either is written.
Debit_Fault(t) ==
  /\ pc[t] = "debit"
  /\ \E cents \in Less(seen[t], Amount(t)) :
       /\ balance' = [balance EXCEPT ![From(t)] = cents]
       /\ posted' = [posted EXCEPT ![From(t)] = @ + 1]
  /\ stale' = IF t \in fresh THEN stale ELSE stale \cup {From(t)}
  /\ seen' = [seen EXCEPT ![t] = balance[To(t)]]
  /\ fresh' = (fresh \ Readers(From(t))) \cup {t}
  /\ debited' = [debited EXCEPT ![From(t)] = @ + Value(Amount(t))]
  /\ IF form[t].op = "transfer" THEN Goes(t, "credit") ELSE Answers(t)
  /\ UNCHANGED <<credited, paidIn, plastic, status, form, requests>>

Debit(t) ==
  /\ pc[t] = "debit"
  /\ \E cents \in Less(seen[t], Amount(t)) : Writes(t, From(t), cents)
  /\ debited' = [debited EXCEPT ![From(t)] = @ + Value(Amount(t))]
  /\ IF form[t].op = "transfer" THEN Goes(t, "to") ELSE Answers(t)
  /\ UNCHANGED <<credited, paidIn, plastic, status, form, seen, requests>>

\* The other account's balance is read only now, so a transfer from an account
\* to itself finds what it has just written.
ReadTo(t) ==
  /\ pc[t] = "to"
  /\ Reads(t, To(t))
  /\ Goes(t, "credit")
  /\ UNCHANGED <<ledger, plastic, status, form, requests>>

\* Nothing looks at the status of the account that is credited.
Credit(t) ==
  /\ pc[t] = "credit"
  /\ \E cents \in Plus(seen[t], Amount(t)) : Writes(t, To(t), cents)
  /\ credited' = [credited EXCEPT ![To(t)] = @ + Value(Amount(t))]
  /\ paidIn' = IF status[To(t)] = "CLOSED" THEN paidIn \cup {To(t)} ELSE paidIn
  /\ Answers(t)
  /\ UNCHANGED <<debited, plastic, status, form, seen, requests>>

\* close_account: not when it is closed already ...
CheckNotClosed(t) ==
  /\ pc[t] = "closing"
  /\ IF status[From(t)] = "CLOSED" THEN Answers(t) ELSE Goes(t, "empty")
  /\ UNCHANGED <<ledger, plastic, status, form, seen, requests, fresh>>

\* FAULT: a single cent is not money.
CheckEmpty_Fault(t) ==
  /\ pc[t] = "empty"
  /\ Reads(t, From(t))
  /\ IF IsNumber(balance[From(t)]) /\ balance[From(t)] > 1
     THEN Answers(t)
     ELSE Goes(t, "close")
  /\ UNCHANGED <<ledger, plastic, status, form, requests>>

\* ... and not while there is money in it.
CheckEmpty(t) ==
  /\ pc[t] = "empty"
  /\ Reads(t, From(t))
  /\ IF IsNumber(balance[From(t)]) /\ balance[From(t)] > 0
     THEN Answers(t)
     ELSE Goes(t, "close")
  /\ UNCHANGED <<ledger, plastic, status, form, requests>>

Close(t) ==
  /\ pc[t] = "close"
  /\ status' = [status EXCEPT ![From(t)] = "CLOSED"]
  /\ stale' = IF t \in fresh THEN stale ELSE stale \cup {From(t)}
  /\ Answers(t)
  /\ UNCHANGED <<balance, credited, debited, posted, paidIn, plastic, form, seen,
                 requests, fresh>>

\* place_hold: an account with a hold gets no second one; a closed one does.
CheckNotHeld(t) ==
  /\ pc[t] = "holding"
  /\ IF status[From(t)] = "HOLD" THEN Answers(t) ELSE Goes(t, "hold")
  /\ UNCHANGED <<ledger, plastic, status, form, seen, requests, fresh>>

PlaceHold(t) ==
  /\ pc[t] = "hold"
  /\ status' = [status EXCEPT ![From(t)] = "HOLD"]
  /\ Answers(t)
  /\ UNCHANGED <<ledger, plastic, form, seen, requests, fresh>>

\* toggle_card reads the card's status ...
ReadCard(t) ==
  /\ pc[t] = "card"
  /\ Goes(t, IF card = "ACTIVE" THEN "lock" ELSE "unlock")
  /\ fresh' = fresh \cup {t}
  /\ UNCHANGED <<ledger, plastic, status, form, seen, requests>>

\* ... and writes the other one.
ToggleCard(t) ==
  /\ pc[t] \in {"lock", "unlock"}
  /\ card' = IF pc[t] = "lock" THEN "LOCKED" ELSE "ACTIVE"
  /\ toggles' = toggles + 1
  /\ stale' = IF t \in fresh THEN stale ELSE stale \cup {"card"}
  /\ fresh' = fresh \ {u \in Threads : pc[u] \in {"lock", "unlock"}}
  /\ Answers(t)
  /\ UNCHANGED <<balance, credited, debited, posted, paidIn, status, form, seen,
                 requests>>

Serve(t) ==
  \/ CheckStatus(t) \/ ReadAvailable(t) \/ Debit(t) \/ ReadTo(t) \/ Credit(t)
  \/ CheckNotClosed(t) \/ CheckEmpty(t) \/ Close(t)
  \/ CheckNotHeld(t) \/ PlaceHold(t)
  \/ ReadCard(t) \/ ToggleCard(t)

Next == \E t \in Threads : Receive(t) \/ Serve(t)

Spec == Init /\ [][Next]_vars
--------------------------------------------------------------------------------
(* Properties *)

\* Whatever ran at the same time, an account holds what it opened with, plus what
\* was paid in, less what was taken out, give or take half a cent for each time
\* its balance was written: unless a balance was written from a reading another
\* request had overtaken, or the account was made "nan".
BalanceIsItsHistory ==
  \A a \in Accounts :
    \/ a \in stale
    \/ ~IsNumber(balance[a])
    \/ 2 * Distance(Cent * balance[a], Cent * Opening[a] + credited[a] - debited[a])
         <= Cent * posted[a]

\* "Close a zero-balance account" (README.md): an account that is CLOSED has no
\* money, unless a transfer credited it afterwards, which nothing stops, or one
\* of the writes was made from a reading another request had overtaken; or its
\* balance is no number any more: "nan" passes for empty.
ClosedIsEmpty ==
  \A a \in Accounts :
    status[a] = "CLOSED" => balance[a] \in {0, NaN} \/ a \in stale \/ a \in paidIn

\* The card is locked after an odd number of toggles and active after an even
\* one, unless two of them read the same status.
CardFollowsToggles ==
  "card" \in stale \/ (card = "LOCKED" <=> toggles % 2 = 1)

\* What was done to the accounts and to the card is in them, nothing lost or made.
HistoryHolds == BalanceIsItsHistory /\ CardFollowsToggles
================================================================================
