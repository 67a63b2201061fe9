------------------------------- MODULE Bank_proofs -----------------------------
(***************************************************************************)
(* Proofs about Bank, for every set of accounts with every opening balance, *)
(* every number of threads, every amount and every unit.                    *)
(***************************************************************************)
EXTENDS Bank, TLAPS

--------------------------------------------------------------------------------
(* What is written for a value is its nearest cent. *)

LEMMA RoundedIsNear ==
  ASSUME NEW v \in Int, NEW c \in Rounded(v)
  PROVE  c \in Int /\ 2 * Distance(Cent * c, v) <= Cent
  BY MoneyAssumption DEF MoneyAssumption, Rounded

\* A value that is not negative is written without a sign.
LEMMA RoundedIsNat ==
  ASSUME NEW v \in Nat, NEW c \in Rounded(v)
  PROVE  c \in Nat
<1>1. c \in Int /\ 2 * Distance(Cent * c, v) <= Cent
  BY RoundedIsNear
<1>2. Cent \in Nat /\ Cent > 0
  BY MoneyAssumption DEF MoneyAssumption
<1>3. ASSUME c < 0 PROVE FALSE
  <2>1. Cent * c \in Int /\ Cent * c <= -Cent
    BY <1>1, <1>2, <1>3
  <2> QED BY <1>1, <1>2, <2>1 DEF Distance
<1> QED BY <1>1, <1>3

\* One more write adds at most half a cent to what was rounded away before.
LEMMA RoundingAddsUp ==
  ASSUME NEW b \in Int, NEW c \in Int, NEW x \in Int, NEW h \in Int, NEW n \in Nat,
         2 * Distance(Cent * b, h) <= Cent * n,
         2 * Distance(Cent * c, Cent * b + x) <= Cent
  PROVE  2 * Distance(Cent * c, h + x) <= Cent * (n + 1)
<1>1. Cent \in Nat
  BY MoneyAssumption DEF MoneyAssumption
<1>2. /\ Cent * b \in Int /\ Cent * c \in Int /\ Cent * n \in Int
      /\ Cent * (n + 1) = Cent * n + Cent
  BY <1>1
<1> DEFINE B == Cent * b
           C == Cent * c
           N == Cent * n
<1>3. B \in Int /\ C \in Int /\ N \in Int
  BY <1>2
<1>4. 2 * Distance(B, h) <= N /\ 2 * Distance(C, B + x) <= Cent
  OBVIOUS
<1> HIDE DEF B, C, N
<1>5. 2 * Distance(C, h + x) <= N + Cent
  BY <1>1, <1>3, <1>4 DEF Distance
<1> QED BY <1>2, <1>5 DEF C, N

--------------------------------------------------------------------------------
(***************************************************************************)
(* The inductive invariant.  BalanceIsItsHistory is not inductive: a write  *)
(* that is computed from a reading keeps the account's history only if the  *)
(* reading still holds, which Holds says of the threads in fresh; and a     *)
(* balance stays a natural number because of what Checked says a thread has *)
(* made sure of before it writes.                                           *)
(***************************************************************************)

Checked ==
  \A t \in Threads :
    /\ pc[t] \in {"debit", "to", "credit"} /\ IsNumber(Amount(t)) => Amount(t) > 0
    /\ pc[t] = "debit" /\ IsNumber(seen[t]) /\ IsNumber(Amount(t)) =>
         Amount(t) <= Cent * seen[t]
    /\ pc[t] = "close" => seen[t] \in {0, NaN}

Holds ==
  \A t \in fresh :
    /\ pc[t] \in {"debit", "credit", "close"} => seen[t] = balance[Source(t)]
    /\ pc[t] = "lock" => card = "ACTIVE"
    /\ pc[t] = "unlock" => card = "LOCKED"

IInv ==
  /\ TypeOK
  /\ Checked
  /\ Holds
  /\ BalanceIsItsHistory
  /\ ClosedIsEmpty
  /\ CardFollowsToggles

LEMMA InitIInv == Init => IInv
<1> SUFFICES ASSUME Init PROVE IInv
  OBVIOUS
<1>1. TypeOK
  <2>1. (CHOOSE f \in Forms : TRUE) \in Forms
    <3>1. PICK a \in Accounts, x \in Amounts : TRUE
      BY SomeAssumption DEF SomeAssumption
    <3>2. [op |-> "close", from |-> a, to |-> a, amount |-> x] \in Forms
      BY <3>1 DEF Forms, Operations
    <3> QED BY <3>2
  <2> QED BY <2>1, MoneyAssumption
          DEF MoneyAssumption, Init, TypeOK, Balances, Statuses, CardStatuses, Pcs
<1>2. Checked /\ Holds
  BY DEF Init, Checked, Holds
<1>3. BalanceIsItsHistory
  <2> SUFFICES ASSUME NEW a \in Accounts
               PROVE  2 * Distance(Cent * Opening[a], Cent * Opening[a] + 0 - 0) <= Cent * 0
    BY DEF Init, BalanceIsItsHistory
  <2>1. Cent * Opening[a] \in Int /\ Cent * 0 = 0
    BY MoneyAssumption DEF MoneyAssumption
  <2> QED BY <2>1 DEF Distance
<1>4. ClosedIsEmpty /\ CardFollowsToggles
  BY DEF Init, ClosedIsEmpty, CardFollowsToggles
<1> QED BY <1>1, <1>2, <1>3, <1>4 DEF IInv

--------------------------------------------------------------------------------
(* What the routes do has one form: a thread is given a form and a place to start. *)

Entries == {"status", "available", "closing", "holding", "card"}

Received(t, f, label) ==
  /\ pc[t] = "idle"
  /\ form' = [form EXCEPT ![t] = f]
  /\ pc' = [pc EXCEPT ![t] = label]
  /\ requests' = requests + 1
  /\ UNCHANGED <<balance, credited, debited, posted, stale, paidIn, card, toggles,
                 status, seen, fresh>>

LEMMA ReceiveForm ==
  ASSUME NEW t \in Threads, Receive(t)
  PROVE  \E f \in Forms, label \in Entries : Received(t, f, label)
<1>1. SomeAccount \in Accounts /\ SomeAmount \in Amounts
  BY SomeAssumption DEF SomeAssumption, SomeAccount, SomeAmount
<1>2. \A op \in Operations, a \in Accounts, b \in Accounts, x \in Amounts, label \in Entries :
        Posts(t, op, a, b, x, label) => \E f \in Forms : Received(t, f, label)
  BY DEF Posts, Received, Forms, Goes, ledger, plastic
<1>3. /\ {"transfer", "pay_bill", "close", "hold", "toggle"} = Operations
      /\ Entries = {"status", "available", "closing", "holding", "card"}
  BY DEF Operations, Entries
<1>4. CASE TransferExecute(t)
  BY <1>2, <1>3, <1>4 DEF TransferExecute
<1>5. CASE BillpayPay(t)
  BY <1>2, <1>3, <1>5 DEF BillpayPay
<1>6. CASE CloseExecute(t)
  BY <1>1, <1>2, <1>3, <1>6 DEF CloseExecute
<1>7. CASE HoldPlace(t)
  BY <1>1, <1>2, <1>3, <1>7 DEF HoldPlace
<1>8. CASE CardsToggle(t)
  BY <1>1, <1>2, <1>3, <1>8 DEF CardsToggle
<1> QED BY <1>4, <1>5, <1>6, <1>7, <1>8 DEF Receive

--------------------------------------------------------------------------------
(* What a thread writes, given what it has checked. *)

LEMMA DebitWrites ==
  ASSUME IInv, NEW t \in Threads, pc[t] = "debit",
         NEW cents \in Less(seen[t], Amount(t))
  PROVE  /\ cents \in Balances
         /\ Value(Amount(t)) \in Nat
         /\ IsNumber(cents) =>
              /\ IsNumber(seen[t]) /\ IsNumber(Amount(t))
              /\ Amount(t) \in Nat
              /\ 2 * Distance(Cent * cents, Cent * seen[t] - Amount(t)) <= Cent
<1>1. seen[t] \in Balances /\ Amount(t) \in Int \cup {NaN} /\ Cent \in Nat
  BY MoneyAssumption DEF MoneyAssumption, IInv, TypeOK, Forms, Amount
<1>2. IsNumber(Amount(t)) => Amount(t) \in Nat /\ Value(Amount(t)) = Amount(t)
  BY <1>1 DEF IInv, Checked, IsNumber, Value
<1>3. Value(Amount(t)) \in Nat
  BY <1>2 DEF Value
<1>4. CASE IsNumber(seen[t]) /\ IsNumber(Amount(t))
  <2>1. cents \in Rounded(Cent * seen[t] - Amount(t))
    BY <1>4 DEF Less
  <2>2. seen[t] \in Nat /\ Amount(t) <= Cent * seen[t]
    BY <1>1, <1>4 DEF IInv, Checked, Balances, IsNumber
  <2>3. Cent * seen[t] \in Nat
    BY <1>1, <2>2
  <2>4. Cent * seen[t] - Amount(t) \in Nat
    BY <1>2, <1>4, <2>2, <2>3
  <2> QED BY <1>2, <1>3, <1>4, <2>1, <2>4, RoundedIsNear, RoundedIsNat DEF Balances
<1>5. CASE ~(IsNumber(seen[t]) /\ IsNumber(Amount(t)))
  BY <1>3, <1>5 DEF Less, Balances, IsNumber
<1> QED BY <1>4, <1>5

LEMMA CreditWrites ==
  ASSUME IInv, NEW t \in Threads, pc[t] = "credit",
         NEW cents \in Plus(seen[t], Amount(t))
  PROVE  /\ cents \in Balances
         /\ Value(Amount(t)) \in Nat
         /\ IsNumber(cents) =>
              /\ IsNumber(seen[t]) /\ IsNumber(Amount(t))
              /\ Amount(t) \in Nat
              /\ 2 * Distance(Cent * cents, Cent * seen[t] + Amount(t)) <= Cent
<1>1. seen[t] \in Balances /\ Amount(t) \in Int \cup {NaN} /\ Cent \in Nat
  BY MoneyAssumption DEF MoneyAssumption, IInv, TypeOK, Forms, Amount
<1>2. IsNumber(Amount(t)) => Amount(t) \in Nat /\ Value(Amount(t)) = Amount(t)
  BY <1>1 DEF IInv, Checked, IsNumber, Value
<1>3. Value(Amount(t)) \in Nat
  BY <1>2 DEF Value
<1>4. CASE IsNumber(seen[t]) /\ IsNumber(Amount(t))
  <2>1. cents \in Rounded(Cent * seen[t] + Amount(t))
    BY <1>4 DEF Plus
  <2>2. Cent * seen[t] \in Nat
    BY <1>1, <1>4 DEF Balances, IsNumber
  <2>3. Cent * seen[t] + Amount(t) \in Nat
    BY <1>2, <1>4, <2>2
  <2> QED BY <1>2, <1>3, <1>4, <2>1, <2>3, RoundedIsNear, RoundedIsNat DEF Balances
<1>5. CASE ~(IsNumber(seen[t]) /\ IsNumber(Amount(t)))
  BY <1>3, <1>5 DEF Plus, Balances, IsNumber
<1> QED BY <1>4, <1>5
--------------------------------------------------------------------------------
(* Steps preserve the invariant, conjunct by conjunct. *)

LEMMA NextTypeOK ==
  ASSUME IInv, NEW t \in Threads, Receive(t) \/ Serve(t)
  PROVE  TypeOK'
<1> USE DEF ledger, plastic, Goes, Answers
<1>1. /\ TypeOK
      /\ form[t] \in Forms /\ From(t) \in Accounts /\ To(t) \in Accounts
      /\ balance[From(t)] \in Balances /\ balance[To(t)] \in Balances
  BY DEF IInv, TypeOK, Forms, From, To
<1>2. CASE Receive(t)
  <2>1. PICK f \in Forms, label \in Entries : Received(t, f, label)
    BY <1>2, ReceiveForm
  <2>2. pc' \in [Threads -> Pcs]
    BY <1>1, <2>1 DEF Received, Entries, TypeOK, Pcs
  <2>3. form' \in [Threads -> Forms]
    BY <1>1, <2>1 DEF Received, TypeOK
  <2> QED BY <1>1, <2>1, <2>2, <2>3 DEF Received, TypeOK
<1>3. CASE CheckStatus(t) \/ CheckNotClosed(t) \/ CheckNotHeld(t)
  BY <1>1, <1>3 DEF CheckStatus, CheckNotClosed, CheckNotHeld, TypeOK, Pcs
<1>4. CASE ReadAvailable(t) \/ ReadTo(t) \/ CheckEmpty(t)
  <2>1. seen' \in [Threads -> Balances] /\ fresh' \subseteq Threads
    BY <1>1, <1>4 DEF ReadAvailable, ReadTo, CheckEmpty, Reads, TypeOK
  <2>2. pc' \in [Threads -> Pcs]
    BY <1>1, <1>4 DEF ReadAvailable, ReadTo, CheckEmpty, TypeOK, Pcs
  <2> QED BY <1>1, <1>4, <2>1, <2>2 DEF ReadAvailable, ReadTo, CheckEmpty, TypeOK
<1>5. CASE Debit(t)
  <2>1. PICK cents \in Less(seen[t], Amount(t)) : Writes(t, From(t), cents)
    BY <1>5 DEF Debit
  <2>2. cents \in Balances /\ Value(Amount(t)) \in Nat
    BY <1>5, <2>1, DebitWrites DEF Debit
  <2>3. /\ balance' \in [Accounts -> Balances] /\ posted' \in [Accounts -> Nat]
        /\ fresh' \subseteq Threads /\ stale' \subseteq Accounts \cup {"card"}
    BY <1>1, <2>1, <2>2 DEF Writes, TypeOK
  <2>4. debited' \in [Accounts -> Nat] /\ pc' \in [Threads -> Pcs]
    BY <1>1, <1>5, <2>2 DEF Debit, TypeOK, Pcs
  <2> QED BY <1>1, <1>5, <2>3, <2>4 DEF Debit, TypeOK
<1>6. CASE Credit(t)
  <2>1. PICK cents \in Plus(seen[t], Amount(t)) : Writes(t, To(t), cents)
    BY <1>6 DEF Credit
  <2>2. cents \in Balances /\ Value(Amount(t)) \in Nat
    BY <1>6, <2>1, CreditWrites DEF Credit
  <2>3. /\ balance' \in [Accounts -> Balances] /\ posted' \in [Accounts -> Nat]
        /\ fresh' \subseteq Threads /\ stale' \subseteq Accounts \cup {"card"}
    BY <1>1, <2>1, <2>2 DEF Writes, TypeOK
  <2>4. /\ credited' \in [Accounts -> Nat] /\ pc' \in [Threads -> Pcs]
        /\ paidIn' \subseteq Accounts
    BY <1>1, <1>6, <2>2 DEF Credit, TypeOK, Pcs
  <2> QED BY <1>1, <1>6, <2>3, <2>4 DEF Credit, TypeOK
<1>7. CASE Close(t) \/ PlaceHold(t)
  BY <1>1, <1>7 DEF Close, PlaceHold, TypeOK, Statuses, Pcs
<1>8. CASE ReadCard(t) \/ ToggleCard(t)
  BY <1>1, <1>8 DEF ReadCard, ToggleCard, TypeOK, CardStatuses, Pcs
<1> QED BY <1>2, <1>3, <1>4, <1>5, <1>6, <1>7, <1>8 DEF Serve

\* A thread goes on to write only what its own checks allow.
LEMMA NextChecked ==
  ASSUME IInv, NEW t \in Threads, Receive(t) \/ Serve(t)
  PROVE  Checked'
<1> USE DEF ledger, plastic, Goes, Answers, Amount
<1>1. TypeOK /\ Checked
  BY DEF IInv
<1>2. CASE Receive(t)
  <2>1. PICK f \in Forms, label \in Entries : Received(t, f, label)
    BY <1>2, ReceiveForm
  <2>2. pc'[t] \notin {"debit", "to", "credit", "close"}
    BY <1>1, <2>1 DEF Received, Entries, TypeOK
  <2> QED BY <1>1, <2>1, <2>2 DEF Received, TypeOK, Checked
<1>3. CASE CheckStatus(t) \/ CheckNotClosed(t) \/ CheckNotHeld(t) \/ Close(t)
           \/ PlaceHold(t) \/ ReadCard(t) \/ ToggleCard(t)
  BY <1>1, <1>3 DEF CheckStatus, CheckNotClosed, CheckNotHeld, Close, PlaceHold,
      ReadCard, ToggleCard, TypeOK, Checked
<1>4. CASE ReadAvailable(t)
  <2>1. /\ seen' = [seen EXCEPT ![t] = balance[From(t)]] /\ form' = form
        /\ \/ pc' = [pc EXCEPT ![t] = "idle"]
           \/ /\ pc' = [pc EXCEPT ![t] = "debit"]
              /\ ~AtMostZero(Amount(t)) /\ ~Exceeds(Amount(t), balance[From(t)])
    BY <1>4 DEF ReadAvailable, Reads
  <2>2. /\ Amount(t) \in Int \cup {NaN} /\ balance[From(t)] \in Balances
        /\ Cent \in Nat
    BY <1>1, MoneyAssumption DEF MoneyAssumption, TypeOK, Forms, From
  <2>3. IsNumber(balance[From(t)]) => Cent * balance[From(t)] \in Nat
    BY <2>2 DEF Balances, IsNumber
  <2>4. pc'[t] = "debit" =>
          /\ IsNumber(Amount(t)) => Amount(t) > 0
          /\ IsNumber(balance[From(t)]) /\ IsNumber(Amount(t)) =>
               Amount(t) <= Cent * balance[From(t)]
    BY <1>1, <2>1, <2>2, <2>3 DEF TypeOK, AtMostZero, Exceeds, IsNumber
  <2> QED BY <1>1, <2>1, <2>4 DEF TypeOK, Checked
<1>5. CASE ReadTo(t)
  BY <1>1, <1>5 DEF ReadTo, Reads, TypeOK, Checked
<1>6. CASE CheckEmpty(t)
  <2>1. balance[From(t)] \in Balances
    BY <1>1 DEF TypeOK, Forms, From
  <2>2. pc'[t] = "close" => balance[From(t)] \in {0, NaN}
    BY <1>1, <1>6, <2>1 DEF CheckEmpty, TypeOK, Balances, IsNumber
  <2> QED BY <1>1, <1>6, <2>2 DEF CheckEmpty, Reads, TypeOK, Checked
<1>7. CASE Debit(t) \/ Credit(t)
  BY <1>1, <1>7 DEF Debit, Credit, TypeOK, Checked
<1> QED BY <1>2, <1>3, <1>4, <1>5, <1>6, <1>7 DEF Serve

\* A thread stays in fresh for as long as what it read is so.
LEMMA NextHolds ==
  ASSUME IInv, NEW t \in Threads, Receive(t) \/ Serve(t)
  PROVE  Holds'
<1> USE DEF ledger, plastic, Goes, Answers, Source, From, To
<1>1. TypeOK /\ Holds
  BY DEF IInv
<1>2. CASE Receive(t)
  <2>1. PICK f \in Forms, label \in Entries : Received(t, f, label)
    BY <1>2, ReceiveForm
  <2>2. pc'[t] \notin {"debit", "credit", "close", "lock", "unlock"}
    BY <1>1, <2>1 DEF Received, Entries, TypeOK
  <2> QED BY <1>1, <2>1, <2>2 DEF Received, TypeOK, Holds
<1>3. CASE CheckStatus(t) \/ CheckNotClosed(t) \/ CheckNotHeld(t) \/ Close(t)
           \/ PlaceHold(t)
  BY <1>1, <1>3 DEF CheckStatus, CheckNotClosed, CheckNotHeld, Close, PlaceHold,
      TypeOK, Holds
<1>4. CASE ReadAvailable(t) \/ ReadTo(t) \/ CheckEmpty(t)
  BY <1>1, <1>4 DEF ReadAvailable, ReadTo, CheckEmpty, Reads, TypeOK, Holds
<1>5. CASE Debit(t) \/ Credit(t)
  <2>1. PICK a \in Accounts :
          /\ \A b \in Accounts \ {a} : balance'[b] = balance[b]
          /\ fresh' = fresh \ Readers(a)
          /\ form' = form /\ seen' = seen /\ card' = card
          /\ pc' = [pc EXCEPT ![t] = "idle"] \/ pc' = [pc EXCEPT ![t] = "to"]
    BY <1>1, <1>5 DEF Debit, Credit, Writes, TypeOK, Forms
  <2> SUFFICES ASSUME NEW u \in fresh', pc'[u] \in {"debit", "credit", "close",
                                                    "lock", "unlock"}
               PROVE  /\ pc'[u] \in {"debit", "credit", "close"} =>
                            seen'[u] = balance'[Source(u)']
                      /\ pc'[u] = "lock" => card' = "ACTIVE"
                      /\ pc'[u] = "unlock" => card' = "LOCKED"
    BY DEF Holds
  <2>2. u \in Threads /\ u \in fresh /\ pc'[u] = pc[u] /\ u \notin Readers(a)
    BY <1>1, <2>1 DEF TypeOK
  <2>3. Source(u)' = Source(u) /\ Source(u) \in Accounts
    BY <1>1, <2>1, <2>2 DEF TypeOK, Forms
  <2>4. pc[u] \in {"debit", "credit", "close"} => Source(u) # a
    BY <2>2 DEF Readers
  <2>5. pc[u] \in {"debit", "credit", "close"} => balance'[Source(u)] = balance[Source(u)]
    BY <2>1, <2>3, <2>4
  <2> QED BY <1>1, <2>1, <2>2, <2>3, <2>5 DEF Holds
<1>6. CASE ReadCard(t)
  BY <1>1, <1>6 DEF ReadCard, TypeOK, Holds, CardStatuses
<1>7. CASE ToggleCard(t)
  BY <1>1, <1>7 DEF ToggleCard, TypeOK, Holds
<1> QED BY <1>2, <1>3, <1>4, <1>5, <1>6, <1>7 DEF Serve
\* A write from a reading that still holds moves the account's money by what its
\* history says, give or take half a cent.
LEMMA NextHistory ==
  ASSUME IInv, NEW t \in Threads, Receive(t) \/ Serve(t)
  PROVE  BalanceIsItsHistory'
<1> USE DEF ledger, plastic
<1>1. TypeOK /\ Holds /\ BalanceIsItsHistory
  BY DEF IInv
<1>2. /\ From(t) \in Accounts /\ To(t) \in Accounts /\ Cent \in Nat
      /\ \A a \in Accounts : Opening[a] \in Nat /\ Cent * Opening[a] \in Int
  BY <1>1, MoneyAssumption DEF MoneyAssumption, TypeOK, Forms, From, To
<1> SUFFICES ASSUME NEW a \in Accounts, a \notin stale', IsNumber(balance'[a])
             PROVE  2 * Distance(Cent * balance'[a],
                                 Cent * Opening[a] + credited'[a] - debited'[a])
                      <= Cent * posted'[a]
  BY DEF BalanceIsItsHistory, IsNumber
<1>3. CASE /\ balance'[a] = balance[a] /\ credited'[a] = credited[a]
           /\ debited'[a] = debited[a] /\ posted'[a] = posted[a]
           /\ a \in stale => a \in stale'
  BY <1>1, <1>3 DEF BalanceIsItsHistory, IsNumber
<1>4. CASE Debit(t) /\ a = From(t)
  <2>1. PICK cents \in Less(seen[t], Amount(t)) : Writes(t, a, cents)
    BY <1>4 DEF Debit
  <2>2. /\ balance'[a] = cents /\ posted'[a] = posted[a] + 1
        /\ t \in fresh /\ a \notin stale
    BY <1>1, <2>1 DEF Writes, TypeOK
  <2>3. seen[t] = balance[a]
    BY <1>1, <1>4, <2>2 DEF Debit, Holds, Source
  <2>4. /\ IsNumber(balance[a]) /\ IsNumber(Amount(t)) /\ Amount(t) \in Nat
        /\ cents \in Nat
        /\ 2 * Distance(Cent * cents, Cent * balance[a] - Amount(t)) <= Cent
    BY <1>4, <2>1, <2>2, <2>3, DebitWrites DEF Debit, Balances, IsNumber
  <2>5. debited'[a] = debited[a] + Amount(t) /\ credited'[a] = credited[a]
    BY <1>1, <1>4, <2>4 DEF Debit, Value, TypeOK
  <2>6. /\ balance[a] \in Nat /\ posted[a] \in Nat
        /\ credited[a] \in Nat /\ debited[a] \in Nat
    BY <1>1, <2>4 DEF TypeOK, Balances, IsNumber
  <2> DEFINE h == Cent * Opening[a] + credited[a] - debited[a]
             x == -Amount(t)
  <2>7. h \in Int /\ x \in Int
    BY <1>2, <2>4, <2>6
  <2>8. 2 * Distance(Cent * balance[a], h) <= Cent * posted[a]
    BY <1>1, <2>2, <2>4 DEF BalanceIsItsHistory
  <2>9. 2 * Distance(Cent * cents, Cent * balance[a] + x) <= Cent
    <3>1. Cent * balance[a] \in Int
      BY <1>2, <2>6
    <3>2. Cent * balance[a] + x = Cent * balance[a] - Amount(t)
      BY <2>4, <3>1
    <3> QED BY <2>4, <3>2
  <2>10. Cent * Opening[a] + credited'[a] - debited'[a] = h + x
    BY <1>2, <2>4, <2>5, <2>6
  <2> HIDE DEF h, x
  <2>11. 2 * Distance(Cent * cents, h + x) <= Cent * (posted[a] + 1)
    BY <2>4, <2>6, <2>7, <2>8, <2>9, RoundingAddsUp
  <2> QED BY <2>2, <2>10, <2>11
<1>5. CASE Credit(t) /\ a = To(t)
  <2>1. PICK cents \in Plus(seen[t], Amount(t)) : Writes(t, a, cents)
    BY <1>5 DEF Credit
  <2>2. /\ balance'[a] = cents /\ posted'[a] = posted[a] + 1
        /\ t \in fresh /\ a \notin stale
    BY <1>1, <2>1 DEF Writes, TypeOK
  <2>3. seen[t] = balance[a]
    BY <1>1, <1>5, <2>2 DEF Credit, Holds, Source
  <2>4. /\ IsNumber(balance[a]) /\ IsNumber(Amount(t)) /\ Amount(t) \in Nat
        /\ cents \in Nat
        /\ 2 * Distance(Cent * cents, Cent * balance[a] + Amount(t)) <= Cent
    BY <1>5, <2>1, <2>2, <2>3, CreditWrites DEF Credit, Balances, IsNumber
  <2>5. credited'[a] = credited[a] + Amount(t) /\ debited'[a] = debited[a]
    BY <1>1, <1>5, <2>4 DEF Credit, Value, TypeOK
  <2>6. /\ balance[a] \in Nat /\ posted[a] \in Nat
        /\ credited[a] \in Nat /\ debited[a] \in Nat
    BY <1>1, <2>4 DEF TypeOK, Balances, IsNumber
  <2> DEFINE h == Cent * Opening[a] + credited[a] - debited[a]
             x == Amount(t)
  <2>7. h \in Int /\ x \in Int
    BY <1>2, <2>4, <2>6
  <2>8. 2 * Distance(Cent * balance[a], h) <= Cent * posted[a]
    BY <1>1, <2>2, <2>4 DEF BalanceIsItsHistory
  <2>9. 2 * Distance(Cent * cents, Cent * balance[a] + x) <= Cent
    BY <2>4
  <2>10. Cent * Opening[a] + credited'[a] - debited'[a] = h + x
    BY <1>2, <2>4, <2>5, <2>6
  <2> HIDE DEF h, x
  <2>11. 2 * Distance(Cent * cents, h + x) <= Cent * (posted[a] + 1)
    BY <2>4, <2>6, <2>7, <2>8, <2>9, RoundingAddsUp
  <2> QED BY <2>2, <2>10, <2>11
<1>6. CASE (Debit(t) /\ a # From(t)) \/ (Credit(t) /\ a # To(t))
  BY <1>1, <1>2, <1>3, <1>6 DEF Debit, Credit, Writes, TypeOK
<1>7. CASE Close(t) \/ ToggleCard(t)
  BY <1>3, <1>7 DEF Close, ToggleCard
<1>8. CASE Receive(t) \/ CheckStatus(t) \/ ReadAvailable(t) \/ ReadTo(t)
           \/ CheckNotClosed(t) \/ CheckEmpty(t) \/ CheckNotHeld(t)
           \/ PlaceHold(t) \/ ReadCard(t)
  BY <1>3, <1>8, ReceiveForm DEF Received, CheckStatus, ReadAvailable, ReadTo, CheckNotClosed,
      CheckEmpty, CheckNotHeld, PlaceHold, ReadCard
<1> QED BY <1>4, <1>5, <1>6, <1>7, <1>8 DEF Serve

LEMMA NextClosed ==
  ASSUME IInv, NEW t \in Threads, Receive(t) \/ Serve(t)
  PROVE  ClosedIsEmpty'
<1> USE DEF ledger, plastic
<1>1. TypeOK /\ Holds /\ Checked /\ ClosedIsEmpty
  BY DEF IInv
<1> SUFFICES ASSUME NEW a \in Accounts, status'[a] = "CLOSED",
                    a \notin stale', a \notin paidIn'
             PROVE  balance'[a] \in {0, NaN}
  BY DEF ClosedIsEmpty
<1>2. CASE Close(t)
  <2>1. CASE a = From(t)
    <3>1. t \in fresh /\ seen[t] \in {0, NaN} /\ balance' = balance
      BY <1>1, <1>2, <2>1 DEF Close, Checked
    <3>2. seen[t] = balance[a]
      BY <1>1, <1>2, <2>1, <3>1 DEF Close, Holds, Source
    <3> QED BY <3>1, <3>2
  <2>2. CASE a # From(t)
    BY <1>1, <1>2, <2>2 DEF Close, ClosedIsEmpty, TypeOK
  <2> QED BY <2>1, <2>2
<1>3. CASE Credit(t)
  <2>1. PICK cents \in Plus(seen[t], Amount(t)) : Writes(t, To(t), cents)
    BY <1>3 DEF Credit
  <2>2. a # To(t) /\ status' = status /\ a \notin paidIn /\ a \notin stale
    BY <1>1, <1>3, <2>1 DEF Credit, Writes
  <2>3. balance'[a] = balance[a]
    BY <1>1, <2>1, <2>2 DEF Writes, TypeOK
  <2> QED BY <1>1, <2>2, <2>3 DEF ClosedIsEmpty
<1>4. CASE Debit(t)
  <2>1. PICK cents \in Less(seen[t], Amount(t)) : Writes(t, From(t), cents)
    BY <1>4 DEF Debit
  <2>2. status' = status /\ a \notin paidIn /\ a \notin stale
    BY <1>1, <1>4, <2>1 DEF Debit, Writes
  <2>3. balance[a] \in {0, NaN}
    BY <1>1, <2>2 DEF ClosedIsEmpty
  <2>4. CASE a # From(t)
    BY <1>1, <2>1, <2>3, <2>4 DEF Writes, TypeOK
  <2>5. CASE a = From(t)
    <3>1. t \in fresh /\ balance'[a] = cents
      BY <1>1, <2>1, <2>5 DEF Writes, TypeOK
    <3>2. seen[t] = balance[a]
      BY <1>1, <1>4, <2>5, <3>1 DEF Debit, Holds, Source
    <3>3. ~(IsNumber(seen[t]) /\ IsNumber(Amount(t)))
      <4>1. Amount(t) \in Int \cup {NaN} /\ Cent \in Nat
        BY <1>1, MoneyAssumption DEF MoneyAssumption, TypeOK, Forms, Amount
      <4>2. seen[t] = NaN \/ Cent * seen[t] = 0
        BY <2>3, <3>2, <4>1
      <4> QED BY <1>1, <1>4, <4>1, <4>2 DEF Debit, Checked, IsNumber
    <3> QED BY <3>1, <3>3 DEF Less
  <2> QED BY <2>4, <2>5
<1>5. CASE Receive(t) \/ CheckStatus(t) \/ ReadAvailable(t) \/ ReadTo(t)
           \/ CheckNotClosed(t) \/ CheckEmpty(t) \/ CheckNotHeld(t)
           \/ PlaceHold(t) \/ ReadCard(t) \/ ToggleCard(t)
  BY <1>1, <1>5, ReceiveForm DEF Received, CheckStatus, ReadAvailable, ReadTo, CheckNotClosed,
      CheckEmpty, CheckNotHeld, PlaceHold, ReadCard, ToggleCard, ClosedIsEmpty, TypeOK
<1> QED BY <1>2, <1>3, <1>4, <1>5 DEF Serve

LEMMA NextCard ==
  ASSUME IInv, NEW t \in Threads, Receive(t) \/ Serve(t)
  PROVE  CardFollowsToggles'
<1> USE DEF ledger, plastic
<1>1. TypeOK /\ Holds /\ CardFollowsToggles
  BY DEF IInv
<1>2. CASE ToggleCard(t)
  <2> SUFFICES ASSUME "card" \notin stale'
               PROVE  card' = "LOCKED" <=> toggles' % 2 = 1
    BY DEF CardFollowsToggles
  <2>1. t \in fresh /\ "card" \notin stale /\ toggles' = toggles + 1
    BY <1>2 DEF ToggleCard
  <2>2. card' = IF pc[t] = "lock" THEN "LOCKED" ELSE "ACTIVE"
    BY <1>2 DEF ToggleCard
  <2>3. pc[t] = "lock" <=> card = "ACTIVE"
    BY <1>1, <1>2, <2>1 DEF ToggleCard, Holds
  <2>4. card = "LOCKED" <=> toggles % 2 = 1
    BY <1>1, <2>1 DEF CardFollowsToggles
  <2>5. toggles \in Nat /\ card \in CardStatuses
    BY <1>1 DEF TypeOK
  <2>6. (toggles + 1) % 2 = 1 <=> ~(toggles % 2 = 1)
    BY <2>5
  <2> QED BY <2>1, <2>2, <2>3, <2>4, <2>5, <2>6 DEF CardStatuses
<1>3. CASE Debit(t) \/ Credit(t) \/ Close(t)
  <2>1. card' = card /\ toggles' = toggles
    BY <1>3 DEF Debit, Credit, Close
  <2>2. "card" \in stale => "card" \in stale'
    BY <1>3 DEF Debit, Credit, Close, Writes
  <2> QED BY <1>1, <2>1, <2>2 DEF CardFollowsToggles
<1>4. CASE Receive(t) \/ CheckStatus(t) \/ ReadAvailable(t) \/ ReadTo(t)
           \/ CheckNotClosed(t) \/ CheckEmpty(t) \/ CheckNotHeld(t)
           \/ PlaceHold(t) \/ ReadCard(t)
  BY <1>1, <1>4, ReceiveForm DEF Received, CheckStatus, ReadAvailable, ReadTo, CheckNotClosed,
      CheckEmpty, CheckNotHeld, PlaceHold, ReadCard, CardFollowsToggles
<1> QED BY <1>2, <1>3, <1>4 DEF Serve

THEOREM Invariance == Spec => []IInv
<1>1. IInv /\ [Next]_vars => IInv'
  <2> SUFFICES ASSUME IInv, [Next]_vars PROVE IInv'
    OBVIOUS
  <2>1. CASE Next
    <3>1. PICK t \in Threads : Receive(t) \/ Serve(t)
      BY <2>1 DEF Next
    <3> QED BY <3>1, NextTypeOK, NextChecked, NextHolds, NextHistory, NextClosed,
               NextCard DEF IInv
  <2>2. CASE UNCHANGED vars
    BY <2>2 DEF vars, ledger, plastic, IInv, TypeOK, Checked, Holds,
        BalanceIsItsHistory, ClosedIsEmpty, CardFollowsToggles, Source, From, To,
        Amount, IsNumber
  <2> QED BY <2>1, <2>2
<1> QED BY <1>1, InitIInv, PTL DEF Spec

\* Every variable has its type; a balance that is a number is not negative, for
\* any overlap of any number of requests.
THEOREM TypeCorrect == Spec => []TypeOK
<1>1. IInv => TypeOK
  BY DEF IInv
<1> QED BY <1>1, Invariance, PTL

\* A closed account is empty, but for what was paid in afterwards.
THEOREM ClosedAccountsAreEmpty == Spec => []ClosedIsEmpty
<1>1. IInv => ClosedIsEmpty
  BY DEF IInv
<1> QED BY <1>1, Invariance, PTL

\* An account's balance is its history, up to half a cent a write, and the card is
\* where its toggles put it.
THEOREM HistoryIsKept == Spec => []HistoryHolds
<1>1. IInv => HistoryHolds
  BY DEF IInv, HistoryHolds
<1> QED BY <1>1, Invariance, PTL
================================================================================
