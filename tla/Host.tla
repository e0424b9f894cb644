-------------------------------- MODULE Host --------------------------------
(***************************************************************************)
(* What the contracts see of the Soroban host (external code): addresses,  *)
(* and a ledger sequence number that never decreases.  Transactions are    *)
(* atomic and run one after the other, so a call is one step of its        *)
(* component, and a call that panics is no step at all.                    *)
(***************************************************************************)
EXTENDS Integers, FiniteSets

CONSTANTS
    Account,    \* addresses that can authorise a call
    Contract,   \* e.current_contract_address(), which signs nothing
    MaxLedger   \* bound on the ledger sequence

ASSUME ContractAssumption == Contract \notin Account
\* An address is an identifier of fixed length.
ASSUME AccountAssumption == IsFiniteSet(Account)
ASSUME HostAssumption == MaxLedger \in Nat

VARIABLE now    \* e.ledger().sequence()

Address == Account \cup {Contract}
Ledger == 0 .. MaxLedger

LedgerCloses ==
    /\ now < MaxLedger
    /\ now' = now + 1

=============================================================================
