# Veritix Pay in TLA+

A model of the Veritix Pay contracts, with the properties that make them
correct, checked by TLC on small instances and, where the prover reaches, proved
by TLAPS for every value of the constants.

## 1. The system

The repository holds two Soroban contracts.

* The **token crate** (`src/veritixpay/contract/token/src/`), the entry point the
  repository's README names: a fungible token with escrows, disputes, splits and
  recurring payments that all move money between balances of the same contract.
* The **root crate** (`src/src/`): a second, later implementation of the same
  ideas over an external token contract, with liens, partial releases,
  multi-recipient escrows, a whitelist, dividends and permits.

This development models both. The tree is modelled as it is written: some files carry merge damage (test functions pasted into `admin.rs`,
`batch.rs` and `metadata.rs`, duplicate or missing imports, an unclosed brace at
`src/src/contract.rs:770`), which is left aside where it has no bearing on what a
function does. Functions that are public in their module but have no wrapper in
`contract.rs` (top-up, appeals, notes, bulk distribution, mint batches) are modelled
like the others.

The host runs transactions one after the other and atomically: a call that
panics leaves no trace. So one action is one successful transaction, every check is
a conjunct of its guard, and concurrency is the order in which the parties'
transactions are included. Within a batch the order of the entries matters, and
that is modelled. Time is the ledger sequence number.

### Components, state, operations

| Component | State | Operations | What makes it correct |
|---|---|---|---|
| Balances (`balance.rs`) | `Balance`, `HolderSet`, `TotalSupply`, `MaxSupply` | spend, receive, increase/decrease supply, cap | no negative balance; holder set exact; supply is the sum of balances and within the cap |
| Escrow (`escrow.rs`) | `Escrow(id)`, `DepositorEscrows`, `ExpiryWarned`, `EscrowCount` | create, release, refund, top-up, admin settlement, views | settled once; pool covers the active escrows; index agrees with the records |
| Dispute (`dispute.rs`) | `Dispute(id)`, `EscrowDispute`, `EscrowDisputeHistory`, `OpenDisputes` | open, resolve, expire, appeal, resolve appeal | status and escrow agree; refund blocked; one dispute per escrow; the money is freed in the end |
| Admin (`admin.rs`) | `Admin`, `PendingAdmin`, `AdminActiveAfter`, `ClawbackCoSigner` | initialize, set, propose, accept | activation delay is kept |
| Allowances (`allowance.rs`) | `Allowance`, `SpenderAllowances`, `OwnerAllowances` | approve, spend, revoke all, pruning read | indexes complete and mirrored |
| Token core (`contract.rs`, `pause.rs`, `freeze.rs`) | `Paused`, `Freeze` | mint, burn, transfers, clawback, pause, freeze | pause stops transfers; the pool is out of reach |
| Batches (`batch.rs`) | none of their own | clawback, mint, burn, approve, transfer batches | as the single operations, or nothing at all |
| Splitter (`splitter.rs`) | `Split(id)`, `RecipientSplits`, statistics | create, create with escrows, distribute, bulk, cancel, replace recipient | paid once; no dust lost; statistics and index agree |
| Recurring (`recurring.rs`) | `Recurring(id)`, `PayerRecurrings` | set-up, execute, cancel, batch cancel, pause, resume, amend, hand over | never early; cancellation final; arrears collected |
| Permit, dividend (`permit.rs`, `dividend.rs`) | `Nonce` | permit, distribute dividend | an owner's allowance is all a permit opens; rounding loses no token, and makes none from what the admin pays in |
| Metadata, snapshot | strings, copies of balances | - | not modelled: nothing reads them |
| Root crate: escrow (`src/src/escrow.rs`) | `Escrow(id)`, `EscrowValueLocked`, `DepositorEscrows`, `BeneficiaryEscrows`, `LastEscrowTime`, fee keys | create, split to escrow, release, partial release, refund, admin settlement, liens, top-up, change of beneficiary | records consistent; settled once; counter and indexes agree with the records |
| Root crate: disputes (`src/src/dispute.rs`) | `EscrowDispute`, `DisputeOpenedAt`, `DisputeAppeal`, `DisputeCount`, `ClaimantDisputes`, `Arbiter`, `ResolverStats` | set arbiter, raise, resolve, appeal, resolve appeal, expire | keys in step; the dispute ends |
| Root crate: pool (`multi_escrow.rs`, `contract.rs`) | `MultiEscrow(id)`, `Vesting(id)`, `Frozen` | create, release, refund, revenue split, vest, claim, airdrop, set authorized, emergency withdrawal | no claim is paid with another's money |
| Root crate: splits and pause (`splitter.rs`, `pause.rs`) | `Split(id)`, `Paused` | create, distribute, cancel, replace recipient, pause | paid once, to the last unit |
| Root crate: recurring (`recurring.rs`) | `Recurring(id)`, `PayerRecurrings` | set-up, execute, amend, cancel, batch cancel, pause, resume | never ahead of schedule; over when cancelled or finished |
| Root crate: token (`contract.rs`, `balance.rs`, `allowance.rs`, `batch.rs`, `divi.rs`, `permit.rs`, `admin.rs`) | `BalanceOf`, `HolderSet`, `TotalSupply`, `MaxSupply`, `Allowance`, `AllowanceSpenders`, `Nonce`, `Admin`, `ProposedAdmin`, `AdminActiveAfter` | mint, burn, clawback, batches, dividend, delegated transfer and burn, allowance changes, permits, ownership | no holder missing; supply follows balances; allowance list exact |

Components interact through shared storage: escrows and splits lock money in the
balance of the contract's own address (the pool); disputes settle escrows by
writing their records, and escrows ask for the `EscrowDispute` key before a refund;
batches call the token's primitives; recurring payments pull from balances at
execution time.

What is hard here: parties, resolvers, the admin and keepers race for the same
record; indexes are written apart from the records they describe; deadlines are
compared with `<`, `<=` and `>` in different places; several flags together encode one
state; batches can name an address twice. `PROJECT.json` lists these hazards one by
one, each at its line.

## 2. Modules

| Module | Models | Composes |
|---|---|---|
| `Host` | addresses and the ledger number (external) | |
| `Balance` | balances and holder set as a record `ledger`, with operators `Receive`, `Spend`, `Move` on it | `Host` |
| `Escrow` | escrow actions and views | `Balance` |
| `Dispute` | dispute actions; `Next` is escrows and disputes together | `Escrow` |
| `Allowance` | allowances and indexes as operators on the record `allowances` | `Host` |
| `AdminRotation` | admin actions and `CheckAdmin` | `Host` |
| `Token` | supply, cap, pause, freeze, transfers, clawback | `Balance`, `Allowance`, `AdminRotation` |
| `TokenBatch` | batches as folds over a working copy of the storage | `Token` |
| `TokenServices` | permits and dividends; `ServicesNext` is the whole token | `TokenBatch` |
| `Recurring` | recurring payments | `Balance` |
| `Splitter` | splits; `Next` is splits and escrows together | `Escrow` |
| `PayEscrow` | escrows of the root crate over an external asset | `Host` |
| `PayDispute` | disputes of the root crate | `PayEscrow` |
| `PaySplitter` | splits of the root crate and its pause switch | `PayEscrow` |
| `PayRecurring` | recurring payments of the root crate | `PayEscrow` |
| `PayPool` | multi-recipient escrows, vestings, airdrop and emergency withdrawal; `Next` is everything that moves the escrowed asset | `PayDispute`, `PaySplitter`, `PayRecurring` |
| `PayToken` | the token of the root crate, with ownership and permits | `Host` |
| `Custody` | abstract: what a contract that holds deposits promises | |
| `DisputeCustody` | the mapping of escrows and disputes to `Custody` | `Dispute` |
| `SplitterCustody` | the mapping of splits and escrows to `Custody` | `Splitter` |
| `FoldProofs` | lemmas: folds over finite sets, the largest element of a set of numbers | |
| `BalanceProofs` | lemmas: the operators of `Balance`, sums over finite sets | `Balance` |
| `DisputeProofs` | theorems about `Dispute` and its refinement | `DisputeCustody` |
| `SplitterProofs` | theorems about `Splitter` and its refinement | `SplitterCustody` |
| `TokenProofs`, `RecurringProofs`, `PayTokenProofs`, `PayPoolProofs` | theorems about `Token`, `Recurring`, `PayToken` and `PayPool` | |
| `MC...` | instances for TLC, and statements of the documentation that the code does not keep | |

Actions carry the names of the Rust functions in camel case. A definition whose
name ends in `_Something` and whose comment starts with "Mutation" is a plausible
slip in the code of the definition that follows it; no specification uses it. It
exists to show that a property notices the slip.

Abstractions. Amounts are naturals in the token crate (the code rejects negative ones before use), except
those of `distribute_dividend`, which does not look at the sign: `DividendAmounts`
holds both. `I128Max` bounds the supply, which bounds every balance; once a dividend of a negative amount has credited the
admin it no longer does, so `TokenServices` adds the check of `receive_balance` on the balances (`BalancesFit`). Vectors without duplicates
whose order nobody observes are sets; those that may contain duplicates are counts
(`openDisputes`, `payerRecurrings`). Ids are positions in a sequence, since counters
only count up. Events, memos, notes, evidence and storage rent (TTL) are left out. In
`Escrow`, `Recurring` and `Splitter` the admin is fixed and the pause flag is absent,
because those functions do not read it; `Transfer` in these modules stands for what
the rest of the token does to its users' balances. `freeze_account` can never
succeed (see section 5), so `Freeze` is in no `Next` but that of `FreezeSpec`, where
TLC shows that it is never enabled.

In the `Pay...` modules the escrowed asset is one external token (balances and
transfers that fail for want of funds), `EscrowValueLocked` is an integer, since
the code lets it drift below zero, and the timestamp of the cooldown advances with the
ledger. `trigger_auto_release` needs a key that no function writes, so it has no step;
`DataKey::MaxDisputes` is never written either, so the limit is a constant.
`ticket_escrow` is `create_escrow` with a computed expiry and is not an action of its
own. The constant `Depositors` limits who funds escrows in a run; disputes are raised only
while their waiting time ends before `MaxLedger`. The holder set of the airdrop is the one that
`track_holder_for_airdrop` fills on releases; that the token of the same contract writes the
same key is modelled in `PayToken`, and an address more in it changes nothing there, since
`HoldersCovered` only asks that nobody is missing.

`PayToken` keeps the sign of amounts: batches and approvals accept any `i128`, so balances,
supply and allowances range over `-I128Max - 1 .. I128Max`, and every addition that would leave
it fails, as the release profile (`overflow-checks = true`) has it.

### Custody

`Custody` says what escrows and splits are for, without records, flags or disputes: every
deposit lies in a vault of its own, is filled from the wallet of whoever deposits, emptied
once and completely into wallets, and touched by nothing else. Both crates keep
one balance instead of the vaults. `DisputeCustody` maps the detailed state to the abstract one:
a vault holds the amount of an active escrow, the contract's wallet is what its balance holds
beyond the vaults, and a deposit is closed when its escrow is settled. A step that paid an escrow
twice, paid it partly, or let an overturned appeal take the money out of the pool would be
no step of `Custody`. `SplitterCustody` does the same with splits and escrows side by side, where a bulk
distribution empties several vaults and `create_split_with_escrow` fills several in one step. The root crate does not implement
`Custody`: partial releases leave a vault half full, and fees above 100 percent, the resolution of a partly
released escrow and the emergency withdrawal really do reach into other deposits. There `PoolFollowsClaims`
says as much of it as holds, and names the exceptions.

## 3. Runs

Bounds are named by the constants of each `.cfg`: the number of records
(`MaxEscrows`, `MaxDisputes`, `MaxSplits`, `MaxRecurring`), the last ledger (`MaxLedger`), the
batch length, and the sets of amounts and addresses a caller may pass. Deadlock
checking is off because a bounded run ends when ledgers and ids are used up.

| Run | Instance | Shows |
|---|---|---|
| `Dispute` | 3 accounts, amounts 1-2, 2 escrows, 2 disputes, ledgers 0-1, fairness; contract as beneficiary | `TypeOK`, `OutcomeRecorded`, `LinkIsOpenDispute`, `OneDisputePerEscrow`, `OpenIndexExact`, `DepositorIndexExact` (index-based views against a scan), `HoldersExact`, `SettlementIsFinal`, `RefundClosesDispute`, `DisputedEscrowSettles`, and the refinement `ImplementsCustody` |
| `Token` | 2 accounts plus the contract, amounts 0-2, rotation with a delay of 2 ledgers, caps 0-2, ledgers 0-2 | `TypeOK`, `SupplyIsSum`, `SupplyWithinCap`, `AllowanceIndexed`, `PoolNeverDrained`, `PauseStopsTransfers`, `DelayHolds` |
| `TokenServices` | the whole token, without a cosigner, with batches of up to 2 entries, repeated addresses included, dividends of 2 (which leave a rest) and -3, permits in the name of bob and of the contract; `I128Max` 5; balances exceed the supply by at most 3 (constraint `SmallSurplus`) | `SupplyStaysCovered`, `PoolSpentAsApproved` |
| `Recurring` | 2 payments, 2 accounts, intervals 1-2, ledgers 0-3, fairness | `NeverChargedAhead`, `PayerIndexExact`, `CancelIsFinal`, `ArrearsAreCollected` |
| `Splitter` | up to 2 splits and 2 escrows, 3 in all (constraint `ThreeClaims`), of 3 units each, alice with 6; lists of 2 and 3 recipients and three that `create_split` refuses; 3 units leave dust over 5000/5000 and over 3334/3333/3333 | `StatsMatchRecords`, `RecipientIndexExact`, `FairShares`, and the refinement `ImplementsCustody` |
| `PayDispute` | root crate: 1 escrow, alice with 2 units and a stray one in the pool, up to 2 disputes, ledgers 0-2, fees of 0, 50 and 150 percent, fairness | `RecordsConsistent`, `DisputeKeysAgree`, `PoolFollowsClaims`, `SettlementIsFinal`, `DisputeEnds` |
| `PayPool` | root crate: any two of 2 escrows, 1 split, 1 multi-recipient escrow, 1 vesting, 1 recurring payment (constraint `TwoClaims`), with liens, airdrops and pause, alice with 3 units, ledgers 0-1, no disputes | `IndexesExact`, `CounterFollowsRecords`, `PoolFollowsClaims`, `RecurringsInStep` |
| `PayToken` | root crate: 2 accounts plus the contract, amounts -1 and 1, `I128Max` 1, cap 0 or 1, activation delay 1, ledgers 0-2, batches that name an address several times | `HoldersCovered`, `AllowanceIndexExact`, `SupplyFollowsBalances` |

Why the bounds are enough to be interesting. One escrow already meets every order
of operations on a record; two show interference through the pool and the indexes. A
second dispute is needed to try to dispute an escrow again. Two amounts make top-ups
and insufficient balances happen. In the token crate a deadline may be the current ledger, so
that with two ledgers it lies before, at and after the current one; the root crate asks for a later
ledger, hence ledgers 0-2 for its disputes. Two claims on the root crate's pool are what it takes for
one to be paid with the other's money; the constraint `TwoClaims` leaves out three at a time. With
`I128Max` 1 every sum of `PayToken` meets its limit. A batch of two can repeat an address and fail at its
second entry. One dividend of -3 brings the balances to more than the supply, and a dividend of 2 after it pays out more than
was paid in; the constraint `SmallSurplus` stops before a second dividend of -3. The permit for the contract's address is what lets a delegated
call reach the pool. Three units over three near-equal shares leave two of them to the last recipient.
In `PayDispute` a second dispute one ledger after the first restarts the waiting time
before it has run out, and the stray unit lets a double payment go through, which is how
the exception in `PoolFollowsClaims` is exercised and why it is stated.

### Fairness

`LiveSpec` of `Dispute` assumes that ledgers keep closing (up to the bound) and that
`expire_dispute` is called on a dispute for as long as the call would succeed: anyone
may call it (`dispute.rs:128`), so a party with an interest in the money suffices. No
resolver, depositor, beneficiary or admin is assumed to act. `LiveSpec` of `Recurring`
assumes closing ledgers and a keeper that calls `execute_recurring` while it is
executable ("permissionless keeper pattern", `contract.rs:661`). `LiveSpec` of `PayPool` assumes closing ledgers and
a party to the dispute that calls `expire_dispute` (`src/src/dispute.rs:337`, "Any party may
expire a dispute that has remained open too long"). All are weak fairness on one call.

## 4. Proofs

`BalanceProofs` has the lemmas everything rests on: receiving, spending and
moving keep the ledger typed and its holder set exact, and say what each balance is
afterwards.

`DisputeProofs`, for all accounts, balances, bounds and resolvers:
`TypeOK`, `HoldersExact`, `OutcomeRecorded`, `LinkIsOpenDispute`, `OneDisputePerEscrow`,
`OpenIndexExact` as invariants, `SettlementIsFinal` and `RefundClosesDispute` as action
properties. The inductive invariant `IInv` is the conjunction of these invariants:
none is inductive alone. That an escrow is disputed at most once, for example,
follows because a closed dispute leaves its escrow settled (`OutcomeRecorded`),
a settled escrow cannot be disputed, and while the dispute is open the link
(`LinkIsOpenDispute`) stops a second one. Escrow actions are handled together: a
lemma per action shows that it has the effect `EscrowEffect`, and one lemma shows that
this effect keeps the dispute invariants.

`DepositorIndexExact` compares two views that walk a depositor's index with a scan of all
records. The invariant `IndexInv` behind it says more than that the index names the right
escrows: each once, for the sum of `escrowed_value_for_depositor`, and in increasing order, since
`escrow_between` returns the first hit.

`TokenProofs`, for all constants: `TypeOK`, `HoldersExact`, `SupplyWithinCap`,
`AllowanceIndexed` as invariants, `PoolNeverDrained`, `PauseStopsTransfers` and
`DelayHolds` as action properties. The strengthening adds three facts: the contract
has approved nobody (so no delegated call can reach the pool; `Token` has no permits, see `TokenServices`), before `initialize`
nothing happened and nothing is pending, and the activation ledger is never more than
one delay ahead (so a new acceptance never shortens it). `DelayHolds` says what the delay keeps from the admin: cap, cosigner, pause
flag, minting and clawback. Proposing a successor and handing the role on do not ask for it. A clawback changes the state as
a burn by the holder does; `burn` and `burn_from` are refused while the contract is paused, so in `Token` every balance must stay then
(`burn_from_batch`, which does not ask, is in `TokenBatch`).

### Sums

The supply, the value locked and the statistics are folds over finite sets. The induction theorems of
the library cannot be instantiated here, and the community modules define the fold by a recursive
function over subsets, so `FoldProofs` argues without induction: suppose a relation holds between
the empty set and the fold's base, and is kept when one element is added to the elements
processed so far, but fails for some subset on the way; take a smallest such subset; the element that the
fold takes out of it leaves a smaller one, for which the relation holds. `FoldInduction` is that argument for a relation given
as a set of fold values for each processed subset. `BalanceProofs` derives from it what the sums need:
a sum of naturals is a natural, it changes by what one summand changes, it splits over disjoint sets, it does
not change when the index set is renamed, and it loses exactly what is cleared. A `FoldLeft` over a
sequence is a fold over its positions that takes the largest first, so the same lemmas serve the loops of
`distribute` and `bulk_distribute`.

On top of them:

* `TokenProofs!SupplyCorrect`: `SupplyIsSum`. Each operation changes the sum of the balances by what it
  changes the supply by; a transfer to oneself and a clawback included.
* `DisputeProofs!CustodyCorrect`: `ImplementsCustody`, step by step: creating an escrow is a deposit, release, refund,
  resolution and expiry empty a vault into one wallet, a top-up is a further deposit into it, an overturned
  appeal moves money between wallets. What a step may take out of the contract's balance is known only
because that balance covers the active escrows. That is not inductive by itself: an escrow may name the contract as
its beneficiary, and an overturned appeal then takes the amount back out of the pool. The inductive
invariant `PoolCovered` therefore says that the balance covers the active escrows together with
what can still be asked back, and `CustodyInv` joins it with `IInv`.
`Solvent` states it on its own.

### Recurring payments and splits

`RecurringProofs`: `NeverChargedAhead`, `PayerIndexExact` and `CancelIsFinal`. The invariant is the conjunction of
the first two; the index is a multiset, and that each entry occurs once follows only together
with the record (a hand-over takes the id from one list and adds it to the other).

`SplitterProofs`: the invariant is the type invariant with `StatsMatchRecords` and `RecipientIndexExact`, over every operation
of splits and of the escrows in the same pool. `bulk_distribute` is a fold whose iterations each keep a *working copy* of
the storage in the same invariant, or mark it as failed, in which case there is no step; the loop
over recipients inside `distribute` is again a fold, about which a lemma says what has been paid after
each processed set of recipients. `FairShares` follows from it: every recipient but the last
gained exactly the floor of its share, the last at most one unit more for each of the others, and all of them together the
amount. (It leaves out the list that names the contract itself, whose balance also pays.) That the dust is smaller than the number of
recipients rests on the shares adding up to 10000, which `ValidRecipients` checks when a split is made and
`TypeOK` keeps when a recipient is replaced. `CustodyCorrect` proves that splits and escrows over one
balance implement `Custody`: a bulk distribution empties the vaults of the ids it names and pays out their sum,
`create_split_with_escrow` fills several vaults from one wallet. Its invariant is again `PoolCovered`, over both kinds of claims
(`Solvent`).

### The token of the root crate

`PayTokenProofs`: `HoldersCovered`, `AllowanceIndexExact`, `SupplyFollowsBalances`, and that no balance and no supply
leaves an i128. Amounts may be negative in this crate, balances too, so the arithmetic of
every operation is shown to stay in range by the checks the code makes. Batches, dividends and batches of permits are folds again:
each iteration keeps the working copy in the same set of states or marks it as failed. `SupplyFollowsBalances` includes the
cap, which holds initially only because nothing is minted before `initialize`; that is the part of the invariant no run states.

### The escrowed asset of the root crate

`PayPoolProofs`, for every operation of `PayPool` (escrows, disputes, vestings, multi-recipient escrows, splits, recurring
payments, airdrop, emergency withdrawal): the invariants `RecordsConsistent`, `DisputeKeysAgree` and `IndexesExact`, and
the action properties `SettlementIsFinal`, `CounterFollowsRecords` and `RecurringsInStep`.

The operations are many and the state they share is the balances, so the proof does not go through them once per invariant.
A `Step` is one of four kinds: *quiet* (no escrow and no dispute changes), *grows* (one escrow is appended, or several by
`split_to_escrow`), *changes* (one escrow changes in a way the code allows, a dispute with it at most), and a
dispute raised or appealed. One lemma per operation says which kind it is; one lemma per part of the invariant goes
over the kinds. The invariant `IInv` has seven parts: no balance is negative (`FundsInv`); no record contradicts itself
(`EscrowsInv`); the depositor's and beneficiary's lists name each of their escrows once (`IndexInv`); the keys of the disputes
agree (`KeysInv`); types of the settings (`SettingsInv`), of splits, vestings and multi-recipient escrows
(`ClaimsInv`) and of the recurring payments, none of which was charged ahead (`RecurringInv`). `DisputeKeysAgree` alone is not
inductive: ids are handed out one after the other, and a new escrow must not find a dispute or an appeal under its id, so
`KeysInv` adds that both are about escrows that exist. That a list names an escrow once is what makes the copy without it, by which a
change of beneficiary is written, exact.

Payments to a list, the copying of a list and the airdrop are loops, hence folds, and are treated by `FoldInduction` as above.
What the active escrows hold is written as a sum over *all* records in which a settled one counts zero, so that the
counter's change in a step is the change of one summand.

### Assumptions

The theorems assume only the named assumptions of the modules: the contract's address
is not an account that signs, the constants are sets of the right kind, bounds are
naturals. TLC evaluates these assumptions in every run. Two deserve a word. `AccountAssumption` says that there
are finitely many addresses, which identifiers of a fixed length justify; without it a sum over all balances
has no meaning. `SharesAssumption` says that the shares before the last one do not exceed 100
percent: `create_split` refuses other lists, and `create_split_with_escrow`, which does not, is reached by no entry point (section 6).

### Only model-checked

* `DisputedEscrowSettles`, `ArrearsAreCollected`, `DisputeEnds`: liveness under fairness, out of the
  prover's reach;
* batches, permits and dividends of the token crate (`TokenServices`): `SupplyIsSum` and `PoolNeverDrained` are proved for
  the operations of `Token`; `SupplyStaysCovered` and `PoolSpentAsApproved`, which take their place where dividends and permits weaken them, are only checked;
* `PoolFollowsClaims`, what the pool of the root crate owes against what it holds: the proof needs, beyond the invariant
  above, a bound on what each loop of payments takes out (distributions rounded down, the airdrop's shares of a snapshot of
  balances that the loop itself changes). It is the next proof of the plan.

## 5. Where documentation and code disagree

Each is a run whose single property states the quoted line; TLC finds a
counterexample in the model of the code.

| Run | The repository says | The code does |
|---|---|---|
| `EveryDisputeEnds` | a dispute is resolved or expires (`contract.rs:514`) | it stays open once its escrow was released |
| `FreezeWorks` | the admin can freeze (`contract_test.rs:128`) | the admin is looked up in the wrong storage; the call always panics |
| `BatchPaused` | pause stops all transfers (`pause.rs:17`) | `transfer_batch_with_memo` does not look at the flag (`ExportedSpec`: the single operations and this batch, `PauseStopsAllTransfers`) |
| `EscrowedFundsUntouched` | escrowed funds "cannot be touched" by an emergency withdrawal (`src/src/contract.rs:673`) | a top-up does not raise the counter the withdrawal trusts |

Other lines of the documentation that the models show not to describe the code,
without a run of their own:

* "freezing it until resolved or expired" (`contract.rs:512`): `release_escrow` and
  `admin_settle_escrow` settle an escrow under dispute; this is the first half of the
  counterexample to `EveryDisputeEnds`. `docs/architecture.md:424` says the same of the
  root crate, whose `release_escrow` does not look for a dispute either;
* "Only allows reducing the cap, never increasing it" (`contract.rs:116`): a cap of zero
  means no cap, and at zero supply `set_max_supply(0)` passes both checks;
* "payer and payee cannot be the same address" (`recurring.rs:56`):
  `transfer_recurring_payer` does not repeat the check;
* "the active escrow limit" (`src/src/escrow.rs:187`): the list it counts keeps settled
  escrows;
* "original locked amount - never changes" (`src/src/escrow.rs:11`): a top-up changes it;
* "`DisputeExpired` - if `expiry_ledger` has passed" (`contract.rs:547`): `resolve_dispute`
  does not compare the ledger with the expiry;
* "Ledger number after which the depositor may reclaim funds" (`contract.rs:456`): the
  depositor may refund at once, the expiry lets everybody else call it;
* "Only the depositor or the contract admin may release before expiry"
  (`contract.rs:471`): `release_escrow` accepts the beneficiary only;
* "`NotDueYet` - if the interval has not elapsed since the last execution"
  (`contract.rs:670`): a backlog can be executed in one ledger;
* "`caller` - The original sender or admin" (`contract.rs:599`): `distribute` accepts the
  sender only;
* the contract pause is listed among the reasons `execute_recurring` fails
  (`contract.rs:671`): neither the wrapper nor the module looks at the flag;
* "Sum of all balances equals the supply" (`src/src/test.rs:577`): in the root crate
  `mint_batch`, `clawback_batch` and dividends leave `TotalSupply` alone, and what is
  minted or sent to the contract itself is dropped. `SupplyFollowsBalances` says that nothing
  else makes the two drift apart;
* "If we've reached max executions, deactivate the record" (`src/src/recurring.rs:92`):
  `resume_recurring` brings back a payment that has reached its limit, and one that was
  cancelled, since the one flag does not tell these cases from a pause. `RecurringsInStep` says that
  no other operation does.

Behaviour worth knowing that no document speaks about: `transfer_admin` of the token crate leaves a
pending proposal of an earlier admin standing (`admin.rs:231`); in the root crate `increase_allowance` on
a missing or expired entry stores one with expiration 0, which cannot be spent
(`src/src/allowance.rs:138`), and burns leave emptied accounts in the holder set
(`src/src/contract.rs:326`); `EscrowValueLocked` counts neither vestings nor multi-recipient escrows, so that an emergency withdrawal may take
what they need (`src/src/contract.rs:674`), an exception of `PoolFollowsClaims`. `distribute_dividend` of the token crate (not exported) accepts a negative amount, which credits the admin and
leaves `TotalSupply` alone (`dividend.rs:18`); from then on dividends smaller than the difference pay out more than was paid in. `SupplyStaysCovered`
says that nothing else makes balances exceed the supply. `permit` of the same crate (not exported either) compares the key it is given with
nothing (`permit.rs:33`), so that the owner it names may be any address, and `permit_batch` of the root crate does the same. `PoolSpentAsApproved`
says how far that reaches into the contract's balance.

## 6. Not modelled, and the plan

Next, in this order:

1. Proofs of `PoolFollowsClaims`, and of `SupplyStaysCovered` and `PoolSpentAsApproved`
   (`TokenServices`).
2. Two escrows of the root crate under dispute at the same time; liens that refund,
   partial release and resolution pass over, once it is settled what they promise.

Not modelled, and why:

* `create_split_with_escrow` of the token crate for shares of more than 100 percent before the
  last one, which make the last escrow negative: no entry point reaches the function, and
  it would need signed amounts throughout `Splitter`;
* metadata and snapshots of both crates: strings and copies that nothing reads;
* the root crate's whitelist: only `transfer_with_memo` asks it, which calls a function the
  contract does not have; `freeze.rs`, which has no entry point and shares its flag with
  `set_authorized`; the dispute functions pasted into `divi.rs` and the admin functions pasted into `allowance.rs`,
  which nothing calls; `record_recurring_execution`, which only tests call;
* `contract_summary.rs`, a view outside `lib.rs`;
* storage rent and TTLs (every access bumps them; what happens when an entry is archived is
  the host's affair), event contents, signature verification, deployment scripts.
