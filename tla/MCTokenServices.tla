--------------------------- MODULE MCTokenServices ---------------------------
(***************************************************************************)
(* Small instances of modules TokenServices and TokenBatch.                *)
(***************************************************************************)
EXTENDS TokenServices

CONSTANTS alice, bob

\* One that is paid out, with a rest, and one of the wrong sign.
Dividends == {-3, 2}

\* Constraint: balances exceed the supply by what one such dividend adds.
SmallSurplus == Surplus <= 3

-----------------------------------------------------------------------------
(***************************************************************************)
(* A statement of the documentation that the code does not keep.           *)
(***************************************************************************)

\* Single operations and the batch transfer, as contract.rs exports them (it
\* exports no mint_batch, which a pause does not stop either).
ExportedSpec ==
    /\ ServicesInit
    /\ [][/\ \/ Next
             \/ \E f \in Account, b \in Targets : TransferBatchWithMemo(f, b)
          /\ UNCHANGED nonce]_servicesVars

PausedTransferStep ==
    paused /\ totalSupply' = totalSupply =>
        \A a \in Address : ledger'.balance[a] <= ledger.balance[a]

\* `Admin pauses all token transfers globally.` (pause.rs:17): while the
\* contract is paused, tokens do not pass from one account to another.
\* transfer_batch_with_memo does not ask for the flag.
PauseStopsAllTransfers == [][PausedTransferStep]_vars

==============================================================================
