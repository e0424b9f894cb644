------------------------------ MODULE Recurring ------------------------------
(***************************************************************************)
(* Recurring payments (recurring.rs of the token crate): both parties sign *)
(* the set-up, after which anybody may trigger a payment that is due.  A   *)
(* payment is pulled from the payer's balance; nothing is locked.          *)
(***************************************************************************)
EXTENDS Balance, Sequences

CONSTANTS
    InitialBalance,   \* the balances minted before the run
    Amounts,          \* amounts a caller may pass
    Intervals,        \* intervals a caller may pass
    MaxRecurring      \* bound on RecurringCount

ASSUME RecurringAssumption ==
    /\ InitialBalance \in [Account -> Nat]
    /\ Amounts \subseteq Nat
    /\ Intervals \subseteq Nat
    /\ MaxRecurring \in Nat

VARIABLES
    recurrings,        \* DataKey::Recurring(id); ids are 1 .. RecurringCount
    payerRecurrings    \* DataKey::PayerRecurrings(payer): how often it holds an id

vars == <<now, ledger, recurrings, payerRecurrings>>

RecurringId == 1 .. MaxRecurring

RecurringRecord ==
    [payer: Account, payee: Account, amount: Nat, interval: Nat,
     last_charged_ledger: Nat, active: BOOLEAN, paused: BOOLEAN]

Init ==
    /\ now = 0
    /\ ledger = LET balance == [a \in Address |-> IF a = Contract THEN 0
                                                  ELSE InitialBalance[a]]
                IN  [balance |-> balance,
                     holders |-> {a \in Address : balance[a] > 0}]
    /\ recurrings = <<>>
    /\ payerRecurrings = [a \in Account |-> [i \in RecurringId |-> 0]]

Exists(i) == i \in 1 .. Len(recurrings)

\* Both parties sign in the same transaction.
SetupRecurring(payer, payee, amount, interval) ==
    /\ Len(recurrings) < MaxRecurring
    /\ amount > 0
    /\ interval > 0
    /\ payer # payee
    /\ recurrings' = Append(recurrings,
                        [payer |-> payer, payee |-> payee, amount |-> amount,
                         interval |-> interval, last_charged_ledger |-> now,
                         active |-> TRUE, paused |-> FALSE])
    /\ payerRecurrings' = [payerRecurrings EXCEPT ![payer][Len(recurrings) + 1] = @ + 1]
    /\ UNCHANGED <<now, ledger>>

NextExecutionLedger(i) == recurrings[i].last_charged_ledger + recurrings[i].interval

\* Mutation: a payment due in this very ledger is refused.
IsExecutable_Strict(i) ==
    /\ recurrings[i].active
    /\ ~recurrings[i].paused
    /\ now > NextExecutionLedger(i)
    /\ CanSpend(ledger, recurrings[i].payer, recurrings[i].amount)

\* The view is_executable: the guard of execute_recurring.
IsExecutable(i) ==
    /\ recurrings[i].active
    /\ ~recurrings[i].paused
    /\ now >= NextExecutionLedger(i)
    /\ CanSpend(ledger, recurrings[i].payer, recurrings[i].amount)

\* Mutation: the payment may be taken one ledger before it is due.
ExecuteRecurring_Early(i) ==
    /\ Exists(i)
    /\ recurrings[i].active
    /\ ~recurrings[i].paused
    /\ now + 1 >= NextExecutionLedger(i)
    /\ CanSpend(ledger, recurrings[i].payer, recurrings[i].amount)
    /\ ledger' = Move(ledger, recurrings[i].payer, recurrings[i].payee, recurrings[i].amount)
    /\ recurrings' = [recurrings EXCEPT ![i].last_charged_ledger = NextExecutionLedger(i)]
    /\ UNCHANGED <<now, payerRecurrings>>

\* The schedule is anchored to the due ledger, not to the current one.
ExecuteRecurring(i) ==
    /\ Exists(i)
    /\ IsExecutable(i)
    /\ ledger' = Move(ledger, recurrings[i].payer, recurrings[i].payee, recurrings[i].amount)
    /\ recurrings' = [recurrings EXCEPT ![i].last_charged_ledger = NextExecutionLedger(i)]
    /\ UNCHANGED <<now, payerRecurrings>>

CancelRecurring(caller, i) ==
    /\ Exists(i)
    /\ caller = recurrings[i].payer
    /\ recurrings' = [recurrings EXCEPT ![i].active = FALSE]
    /\ UNCHANGED <<now, ledger, payerRecurrings>>

\* Ownership of every id is checked before any record is written.
CancelRecurringBatch(payer, ids) ==
    /\ \A i \in ids : Exists(i) /\ recurrings[i].payer = payer
    /\ recurrings' = [i \in 1 .. Len(recurrings) |->
                         IF i \in ids THEN [recurrings[i] EXCEPT !.active = FALSE]
                                      ELSE recurrings[i]]
    /\ UNCHANGED <<now, ledger, payerRecurrings>>

PauseRecurring(caller, i) ==
    /\ Exists(i)
    /\ caller = recurrings[i].payer
    /\ recurrings' = [recurrings EXCEPT ![i].paused = TRUE]
    /\ UNCHANGED <<now, ledger, payerRecurrings>>

\* Mutation: resuming also revives a cancelled payment.
ResumeRecurring_Revives(caller, i) ==
    /\ Exists(i)
    /\ caller = recurrings[i].payer
    /\ recurrings' = [recurrings EXCEPT ![i].paused = FALSE, ![i].active = TRUE]
    /\ UNCHANGED <<now, ledger, payerRecurrings>>

ResumeRecurring(caller, i) ==
    /\ Exists(i)
    /\ caller = recurrings[i].payer
    /\ recurrings' = [recurrings EXCEPT ![i].paused = FALSE]
    /\ UNCHANGED <<now, ledger, payerRecurrings>>

\* An option that is not given keeps the present value, which is in the
\* inputs too.
AmendRecurring(caller, i, amount, interval) ==
    /\ Exists(i)
    /\ caller = recurrings[i].payer
    /\ recurrings[i].active
    /\ amount > 0
    /\ interval > 0
    /\ recurrings' = [recurrings EXCEPT ![i].amount = amount, ![i].interval = interval]
    /\ UNCHANGED <<now, ledger, payerRecurrings>>

\* Mutation: the id stays in the old payer's index.
TransferRecurringPayer_KeepsIndex(oldPayer, newPayer, i) ==
    /\ newPayer # oldPayer
    /\ Exists(i)
    /\ recurrings[i].active
    /\ recurrings[i].payer = oldPayer
    /\ recurrings' = [recurrings EXCEPT ![i].payer = newPayer]
    /\ payerRecurrings' = [payerRecurrings EXCEPT ![newPayer][i] = @ + 1]
    /\ UNCHANGED <<now, ledger>>

\* Both payers sign; nobody compares the new payer with the payee.
TransferRecurringPayer(oldPayer, newPayer, i) ==
    /\ newPayer # oldPayer
    /\ Exists(i)
    /\ recurrings[i].active
    /\ recurrings[i].payer = oldPayer
    /\ recurrings' = [recurrings EXCEPT ![i].payer = newPayer]
    /\ payerRecurrings' = [payerRecurrings EXCEPT ![oldPayer][i] = 0, ![newPayer][i] = @ + 1]
    /\ UNCHANGED <<now, ledger>>

\* Payers and payees spend what they have elsewhere.
Transfer(from, to, amount) ==
    /\ amount > 0
    /\ CanSpend(ledger, from, amount)
    /\ ledger' = Move(ledger, from, to, amount)
    /\ UNCHANGED <<now, recurrings, payerRecurrings>>

Tick ==
    /\ LedgerCloses
    /\ UNCHANGED <<ledger, recurrings, payerRecurrings>>

Next ==
    \/ \E p, q \in Account, x \in Amounts, v \in Intervals : SetupRecurring(p, q, x, v)
    \/ \E i \in RecurringId : ExecuteRecurring(i)
    \/ \E c \in Account, i \in RecurringId : CancelRecurring(c, i)
    \/ \E c \in Account, ids \in SUBSET RecurringId : CancelRecurringBatch(c, ids)
    \/ \E c \in Account, i \in RecurringId : PauseRecurring(c, i)
    \/ \E c \in Account, i \in RecurringId : ResumeRecurring(c, i)
    \/ \E c \in Account, i \in RecurringId, x \in Amounts, v \in Intervals :
          AmendRecurring(c, i, x, v)
    \/ \E p, q \in Account, i \in RecurringId : TransferRecurringPayer(p, q, i)
    \/ \E f, t \in Account, x \in Amounts : Transfer(f, t, x)
    \/ Tick

Spec == Init /\ [][Next]_vars

(***************************************************************************)
(* Ledgers keep closing and a keeper triggers what is due: "Can be called  *)
(* by anyone (permissionless keeper pattern)".                             *)
(***************************************************************************)
LiveSpec == Spec /\ WF_vars(Tick) /\ \A i \in RecurringId : WF_vars(ExecuteRecurring(i))

-----------------------------------------------------------------------------
(***************************************************************************)
(* Properties.                                                             *)
(***************************************************************************)

\* Every stored record, index and balance has its type; a record's amount and
\* interval stay positive through every amendment.
TypeOK ==
    /\ now \in Ledger
    /\ ledger \in LedgerType
    /\ recurrings \in Seq(RecurringRecord) /\ Len(recurrings) <= MaxRecurring
    /\ payerRecurrings \in [Account -> [RecurringId -> Nat]]
    /\ \A i \in 1 .. Len(recurrings) : recurrings[i].amount > 0 /\ recurrings[i].interval > 0

\* A payment is never taken before its time: the schedule of a record never
\* runs ahead of the ledger, however its interval is amended and its payer
\* replaced between payments.  The records are well-typed.
NeverChargedAhead ==
    /\ TypeOK
    /\ \A i \in 1 .. Len(recurrings) : recurrings[i].last_charged_ledger <= now

\* PayerRecurrings(a) lists the payments a is the payer of, each once:
\* append_payer_index does not check for duplicates, and a payment may be
\* handed back and forth.
PayerIndexExact ==
    \A a \in Account, i \in RecurringId :
        payerRecurrings[a][i] = IF Exists(i) /\ recurrings[i].payer = a THEN 1 ELSE 0

CancelledStep ==
    \A i \in 1 .. Len(recurrings) : ~recurrings[i].active =>
        recurrings'[i] = [recurrings[i] EXCEPT !.paused = recurrings'[i].paused]

\* A cancelled payment is never charged, amended, handed over or revived; at
\* most its paused flag still moves.
CancelIsFinal == [][CancelledStep]_vars

Chargeable(i) ==
    /\ Exists(i)
    /\ recurrings[i].active /\ ~recurrings[i].paused
    /\ CanSpend(ledger, recurrings[i].payer, recurrings[i].amount)

\* Arrears do not pile up: payments that fell due while a payment was paused
\* or its payer was short are caught up with, one interval per call, once the
\* payment stays active and its payer stays able to pay, whatever the payer
\* does to the amount and the interval meanwhile.
ArrearsAreCollected ==
    \A i \in RecurringId :
        <>[]Chargeable(i) => []<>(Exists(i) /\ now < NextExecutionLedger(i))

==============================================================================
