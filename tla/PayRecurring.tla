----------------------------- MODULE PayRecurring -----------------------------
(***************************************************************************)
(* Recurring payments of the root crate (recurring.rs).  Unlike those of   *)
(* the token crate, the payer signs every payment, a limit on their number *)
(* may be set, and one flag, active, stands for cancelled, paused and      *)
(* finished alike.                                                         *)
(*                                                                         *)
(* Ids start at 0 in the code and at 1 here.  record_recurring_execution   *)
(* is called by tests only and PayeeRecurrings is never written: both are  *)
(* left out.                                                               *)
(***************************************************************************)
EXTENDS PayEscrow

CONSTANTS
    Intervals,       \* intervals a payer may pass; setup_recurring accepts 0
    Limits,          \* values of max_executions; 0 is no limit
    MaxExecutions,   \* bound on execution_count
    MaxRecurring     \* bound on RecurringCount

ASSUME PayRecurringAssumption ==
    /\ Intervals \subseteq Nat /\ Limits \subseteq Nat
    /\ MaxExecutions \in Nat /\ MaxRecurring \in Nat

VARIABLES
    recurrings,       \* DataKey::Recurring(id)
    payerRecurrings   \* DataKey::PayerRecurrings(payer)

recurringVars == <<recurrings, payerRecurrings>>

RecurringId == 1 .. MaxRecurring

RecurringInit ==
    /\ recurrings = <<>>
    /\ payerRecurrings = [a \in Account |-> <<>>]

SetupRecurring(payer, payee, amount, interval, limit) ==
    /\ Len(recurrings) < MaxRecurring
    /\ amount > 0
    /\ recurrings' = Append(recurrings,
                        [payer |-> payer, payee |-> payee, amount |-> amount,
                         interval |-> interval, last_charged_ledger |-> now, active |-> TRUE,
                         max_executions |-> limit, execution_count |-> 0])
    /\ payerRecurrings' = [payerRecurrings EXCEPT ![payer] = Append(@, Len(recurrings'))]
    /\ UNCHANGED <<now, escrowVars>>

Running(i) == i \in DOMAIN recurrings /\ recurrings[i].active
Finished(r) == r.max_executions > 0 /\ r.execution_count >= r.max_executions

\* Mutation: the schedule restarts at the ledger after the payment.
ExecuteRecurring_Drifts(caller, i) ==
    /\ Running(i)
    /\ recurrings[i].execution_count < MaxExecutions
    /\ LET r == recurrings[i]
           charged == [r EXCEPT !.last_charged_ledger = now + r.interval,
                                !.execution_count = @ + 1]
       IN  /\ now >= r.last_charged_ledger + r.interval
           /\ caller = r.payer
           /\ CanPay(funds, r.payer, r.amount)
           /\ funds' = Moved(funds, r.payer, r.payee, r.amount)
           /\ recurrings' = [recurrings EXCEPT ![i] = [charged EXCEPT !.active = ~Finished(charged)]]
    /\ UNCHANGED <<payerRecurrings, fundsAside>>

\* The schedule is anchored to the ledger the payment was due in.
ExecuteRecurring(caller, i) ==
    /\ Running(i)
    /\ recurrings[i].execution_count < MaxExecutions
    /\ LET r == recurrings[i]
           due == r.last_charged_ledger + r.interval
           charged == [r EXCEPT !.last_charged_ledger = due, !.execution_count = @ + 1]
       IN  /\ now >= due
           /\ caller = r.payer
           /\ CanPay(funds, r.payer, r.amount)
           /\ funds' = Moved(funds, r.payer, r.payee, r.amount)
           /\ recurrings' = [recurrings EXCEPT ![i] = [charged EXCEPT !.active = ~Finished(charged)]]
    /\ UNCHANGED <<payerRecurrings, fundsAside>>

AmendRecurring(caller, i, amount, interval) ==
    /\ Running(i)
    /\ caller = recurrings[i].payer
    /\ amount > 0 /\ interval > 0
    /\ recurrings' = [recurrings EXCEPT ![i].amount = amount, ![i].interval = interval]
    /\ UNCHANGED <<now, escrowVars, payerRecurrings>>

\* An id given twice fails the second time, so a batch is a set.  The payer's
\* list keeps the ids.
CancelRecurringBatch(caller, ids) ==
    /\ \A i \in ids : Running(i) /\ recurrings[i].payer = caller
    /\ recurrings' = [i \in DOMAIN recurrings |->
                         [recurrings[i] EXCEPT !.active = @ /\ i \notin ids]]
    /\ UNCHANGED <<now, escrowVars, payerRecurrings>>

\* Mutation: the id is taken off the payer's list, but the record stays active.
CancelRecurring_NotSaved(caller, i) ==
    /\ Running(i)
    /\ caller = recurrings[i].payer
    /\ payerRecurrings' = [payerRecurrings EXCEPT ![caller] = Without(@, i)]
    /\ UNCHANGED <<now, escrowVars, recurrings>>

CancelRecurring(caller, i) ==
    /\ Running(i)
    /\ caller = recurrings[i].payer
    /\ recurrings' = [recurrings EXCEPT ![i].active = FALSE]
    /\ payerRecurrings' = [payerRecurrings EXCEPT ![caller] = Without(@, i)]
    /\ UNCHANGED <<now, escrowVars>>

PauseRecurring(caller, i) ==
    /\ Running(i)
    /\ caller = recurrings[i].payer
    /\ recurrings' = [recurrings EXCEPT ![i].active = FALSE]
    /\ UNCHANGED <<now, escrowVars, payerRecurrings>>

\* Whatever made the record inactive.
ResumeRecurring(caller, i) ==
    /\ i \in DOMAIN recurrings /\ ~recurrings[i].active
    /\ caller = recurrings[i].payer
    /\ recurrings' = [recurrings EXCEPT ![i].active = TRUE]
    /\ UNCHANGED <<now, escrowVars, payerRecurrings>>

RecurringNext ==
    \/ \E c \in Depositors, p \in Parties, x \in Amounts, d \in Intervals, n \in Limits :
          SetupRecurring(c, p, x, d, n)
    \/ \E c \in Account, i \in RecurringId : ExecuteRecurring(c, i)
    \/ \E c \in Account, i \in RecurringId, x \in Amounts, d \in Intervals : AmendRecurring(c, i, x, d)
    \/ \E c \in Account, s \in SUBSET RecurringId \ {{}} : CancelRecurringBatch(c, s)
    \/ \E c \in Account, i \in RecurringId : CancelRecurring(c, i)
    \/ \E c \in Account, i \in RecurringId : PauseRecurring(c, i)
    \/ \E c \in Account, i \in RecurringId : ResumeRecurring(c, i)

===============================================================================
